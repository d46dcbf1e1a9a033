----------------------- MODULE ReportSubmissionProofs -----------------------
(***************************************************************************)
(* Theorems about ReportSubmission, for any number of submissions,         *)
(* accounts and images.                                                    *)
(***************************************************************************)
EXTENDS ReportSubmission, TLAPS

(***************************************************************************)
(* Types.  RunShape goes along: what a run picks up at one await is there  *)
(* at the next.                                                            *)
(***************************************************************************)

\* What the file input can hold is a sequence of images.
LEMMA SelectionsAreSequences ==
    ASSUME NEW s \in Selections
    PROVE  s \in Seq(Images)
<1>1. PICK n \in 0..MaxSelection : s \in [1..n -> Images]
  BY DEF Selections
<1>2. n \in Nat
  BY <1>1
<1>3. QED
  BY <1>1, <1>2

\* The click on Submit keeps the types.
LEMMA SubmitType ==
    ASSUME TypeOK, RunShape, NEW h \in Submissions, Submit(h)
    PROVE  TypeOK' /\ RunShape'
<1> USE DEF TypeOK
<1>1. CASE SubmitProhibitedText(h)
  <2> USE <1>1 DEF SubmitProhibitedText, Finish
  <2>1. RunTypeOK'
    BY DEF RunTypeOK, Outcomes
  <2>2. NetTypeOK' /\ HistTypeOK'
    BY DEF NetTypeOK, HistTypeOK, netVars, histVars
  <2>3. PageTypeOK'
    BY DEF PageTypeOK, LeavePage
  <2>4. RunShape'
    BY DEF RunShape, RunShapeOf, RunTypeOK, netVars, InFlight, Awaiting,
           PreGate, PostGate
  <2>5. QED
    BY <2>1, <2>2, <2>3, <2>4
<1>2. CASE SubmitRefused(h)
  <2> USE <1>2 DEF SubmitRefused, Finish
  <2>1. RunTypeOK'
    BY DEF RunTypeOK
  <2>2. NetTypeOK'
    BY DEF NetTypeOK, netVars
  <2>3. PageTypeOK' /\ HistTypeOK'
    BY DEF PageTypeOK, HistTypeOK, FreePage, ResetCancel
  <2>4. RunShape'
    BY DEF RunShape, RunShapeOf, RunTypeOK, netVars, InFlight, Awaiting,
           PreGate, PostGate
  <2>5. QED
    BY <2>1, <2>2, <2>3, <2>4
<1>3. CASE SubmitIncomplete(h)
  <2> USE <1>3 DEF SubmitIncomplete, Finish
  <2>1. RunTypeOK'
    BY DEF RunTypeOK, Outcomes
  <2>2. NetTypeOK'
    BY DEF NetTypeOK, netVars
  <2>3. PageTypeOK' /\ HistTypeOK'
    BY DEF PageTypeOK, HistTypeOK, ShowBusy, ResetCancel
  <2>4. RunShape'
    BY DEF RunShape, RunShapeOf, RunTypeOK, netVars, InFlight, Awaiting,
           PreGate, PostGate
  <2>5. QED
    BY <2>1, <2>2, <2>3, <2>4
<1>4. CASE SubmitAccepted(h)
  <2> USE <1>4 DEF SubmitAccepted
  <2>1. session \in Users
    BY UsersAssumption
  <2>2. files # <<>> => files[1] \in Images
    BY DEF PageTypeOK
  <2>3. RunTypeOK'
    <3>1. CASE files = <<>>
      BY <2>1, <3>1 DEF RunTypeOK, Awaiting, PreGate, PostGate
    <3>2. CASE files # <<>>
      <4>1. /\ pc' = [pc EXCEPT ![h] = "moderate"]
            /\ idx' = [idx EXCEPT ![h] = 1]
            /\ img' = [img EXCEPT ![h] = files[1]]
            /\ author' = [author EXCEPT ![h] = session]
            /\ UNCHANGED <<outcome, passed, urls, imgUrl, writer>>
        BY <3>2
      <4>2. QED
        BY <2>1, <2>2, <3>2, <4>1 DEF RunTypeOK, Awaiting, PreGate
    <3>3. QED
      BY <3>1, <3>2
  <2>4. NetTypeOK'
    BY DEF NetTypeOK, netVars
  <2>5. PageTypeOK' /\ HistTypeOK'
    BY DEF PageTypeOK, HistTypeOK, ShowBusy, ResetCancel
  <2>6. RunShape'
    <3> SUFFICES ASSUME NEW g \in Submissions
                 PROVE  RunShapeOf(g)'
      BY DEF RunShape
    <3>1. RunShapeOf(g)
      BY DEF RunShape
    <3>2. CASE g # h
      BY <3>1, <3>2 DEF RunShapeOf, RunTypeOK, netVars, InFlight
    <3>3. CASE g = h
      <4>1. pc[h] = "idle" /\ author'[h] = session /\ up' = up /\ req' = req
        BY DEF CanSubmit, netVars, RunTypeOK
      <4>2. CASE files = <<>>
        <5>1. pc'[h] = "refresh" /\ writer'[h] = session
          BY <4>2 DEF RunTypeOK
        <5>2. QED
          BY <2>1, <3>1, <3>3, <4>1, <5>1 DEF RunShapeOf, PreGate
      <4>3. CASE files # <<>>
        <5>1. pc'[h] = "moderate" /\ img'[h] = files[1]
          BY <4>3 DEF RunTypeOK
        <5>2. QED
          BY <2>1, <2>2, <3>1, <3>3, <4>1, <4>3, <5>1 DEF RunShapeOf, PostGate
      <4>4. QED
        BY <4>2, <4>3
    <3>4. QED
      BY <3>2, <3>3
  <2>7. QED
    BY <2>3, <2>4, <2>5, <2>6
<1>5. QED
  BY <1>1, <1>2, <1>3, <1>4 DEF Submit

\* The synchronous way to the write keeps the types of what it changes, and
\* leads to an await past the gate only with a user at hand.
EnterWriteEffect(h) ==
    /\ pc' \in [Submissions -> Awaiting \cup {"idle", "done", "gone"}]
    /\ outcome' \in [Submissions -> Outcomes]
    /\ imgUrl' \in [Submissions -> Url]
    /\ writer' \in [Submissions -> Users \cup {NoUser}]
    /\ busy' \in BOOLEAN
    /\ pc'[h] \in {"refresh", "done"}
    /\ pc'[h] = "refresh" => writer'[h] \in Users
    /\ \A g \in Submissions : g # h => pc'[g] = pc[g] /\ writer'[g] = writer[g]

LEMMA EnterWriteType ==
    ASSUME TypeOK, NEW h \in Submissions, NEW url \in Url,
           NEW freed \in BOOLEAN, EnterWrite(h, url, freed)
    PROVE  EnterWriteEffect(h)
<1> USE DEF TypeOK, RunTypeOK, PageTypeOK, EnterWrite, EnterWriteEffect
<1>1. CASE MayWrite
  BY <1>1 DEF MayWrite, Awaiting, PostGate
<1>2. CASE ~MayWrite
  BY <1>2 DEF Finish, FreePage, Outcomes
<1>3. QED
  BY <1>1, <1>2

\* A step of run h towards the write keeps RunShape.
LEMMA EnterWriteShape ==
    ASSUME RunShape, NEW h \in Submissions, pc[h] \in PreGate,
           EnterWriteEffect(h), UNCHANGED <<author, img, req>>,
           \A g \in Submissions : up'[g].st # "none" => up'[g].img \in Images
    PROVE  RunShape'
<1> SUFFICES ASSUME NEW g \in Submissions
             PROVE  RunShapeOf(g)'
  BY DEF RunShape, RunShapeOf
<1>1. RunShapeOf(g)
  BY DEF RunShape
<1>2. CASE g # h
  BY <1>1, <1>2 DEF RunShapeOf, EnterWriteEffect, InFlight
<1>3. CASE g = h
  BY <1>1, <1>3 DEF RunShapeOf, EnterWriteEffect, InFlight, Awaiting, PreGate,
                    PostGate
<1>4. QED
  BY <1>2, <1>3

\* The end of the upload loop keeps the types.
LEMMA EndUploadsType ==
    ASSUME TypeOK, NEW h \in Submissions, NEW list \in Seq(Object),
           EndUploads(h, list)
    PROVE  /\ EnterWriteEffect(h)
           /\ urls' \in [Submissions -> Seq(Object)]
           /\ lastUploaded' \in Seq(Object)
<1> DEFINE url == IF list = <<>> THEN NoUrl ELSE list[1]
<1>1. url \in Url
  <2>1. list # <<>> => list[1] \in Object
    OBVIOUS
  <2>2. QED
    BY <2>1 DEF Url
<1>2. EnterWrite(h, url, FALSE)
  BY DEF EndUploads
<1>3. urls' \in [Submissions -> Seq(Object)] /\ lastUploaded' \in Seq(Object)
  BY DEF EndUploads, TypeOK, RunTypeOK
<1> HIDE DEF url
<1>4. QED
  BY <1>1, <1>2, <1>3, EnterWriteType

\* So does the catch around the image section.
LEMMA ImagesFailedType ==
    ASSUME TypeOK, NEW h \in Submissions, ImagesFailed(h)
    PROVE  EnterWriteEffect(h)
<1>1. EnterWrite(h, NoUrl, TRUE) /\ NoUrl \in Url
  BY DEF ImagesFailed, Url
<1>2. QED
  BY <1>1, EnterWriteType

\* The answer of the moderation service keeps the types.
LEMMA ModerationType ==
    ASSUME TypeOK, RunShape, NEW h \in Submissions,
           ModerationSafe(h) \/ ModerationUnsafe(h)
    PROVE  TypeOK' /\ RunShape'
<1> USE DEF TypeOK
<1>1. CASE ModerationUnsafe(h)
  <2> USE <1>1 DEF ModerationUnsafe, Finish
  <2>1. RunTypeOK'
    BY DEF RunTypeOK, Outcomes
  <2>2. NetTypeOK' /\ HistTypeOK'
    BY DEF NetTypeOK, HistTypeOK, netVars, histVars
  <2>3. PageTypeOK'
    BY DEF PageTypeOK, LeavePage, FreePage
  <2>4. RunShape'
    BY DEF RunShape, RunShapeOf, RunTypeOK, netVars, InFlight, Awaiting,
           PreGate, PostGate
  <2>5. QED
    BY <2>1, <2>2, <2>3, <2>4
<1>2. CASE ModerationSafe(h)
  <2>1. /\ passed' = [passed EXCEPT ![h] = @ \cup {img[h]}]
        /\ UNCHANGED <<author, netVars, cancelled, files, session, leaving,
                       histVars>>
        /\ pc[h] = "moderate"
    BY <1>2 DEF ModerationSafe
  <2>2. img[h] \in Images
    BY <2>1 DEF RunShape, RunShapeOf, PreGate
  <2>3. NetTypeOK' /\ HistTypeOK'
    BY <2>1 DEF NetTypeOK, HistTypeOK, netVars, histVars
  <2>4. passed' \in [Submissions -> SUBSET Images]
    BY <2>1, <2>2 DEF RunTypeOK
  <2>5. CASE EndUploads(h, <<>>) /\ UNCHANGED <<idx, img>>
    <3>1. <<>> \in Seq(Object)
      OBVIOUS
    <3>2. /\ EnterWriteEffect(h)
          /\ urls' \in [Submissions -> Seq(Object)]
          /\ lastUploaded' \in Seq(Object)
      BY <2>5, <3>1, EndUploadsType
    <3>3. RunTypeOK' /\ PageTypeOK'
      BY <2>1, <2>4, <2>5, <3>2 DEF RunTypeOK, PageTypeOK, EnterWriteEffect
    <3>4. RunShape'
      <4>1. \A g \in Submissions : up'[g].st # "none" => up'[g].img \in Images
        BY <2>1 DEF RunShape, RunShapeOf, netVars
      <4>2. UNCHANGED <<author, img, req>> /\ pc[h] \in PreGate
        BY <2>1, <2>5 DEF netVars, PreGate
      <4>3. QED
        BY <3>2, <4>1, <4>2, EnterWriteShape
    <3>5. QED
      BY <2>3, <3>3, <3>4
  <2>6. CASE \E i \in DOMAIN files :
               /\ pc' \in {pc, [pc EXCEPT ![h] = "compress"]}
               /\ idx' = [idx EXCEPT ![h] = i]
               /\ img' = [img EXCEPT ![h] = files[i]]
               /\ UNCHANGED <<outcome, imgUrl, writer, urls, busy, lastUploaded>>
    <3>1. PICK i \in DOMAIN files :
               /\ pc' \in {pc, [pc EXCEPT ![h] = "compress"]}
               /\ idx' = [idx EXCEPT ![h] = i]
               /\ img' = [img EXCEPT ![h] = files[i]]
               /\ UNCHANGED <<outcome, imgUrl, writer, urls, busy, lastUploaded>>
      BY <2>6
    <3>2. files[i] \in Images /\ i \in Nat
      BY <3>1 DEF PageTypeOK
    <3>3. RunTypeOK'
      BY <2>1, <2>4, <3>1, <3>2 DEF RunTypeOK, Awaiting, PreGate
    <3>4. PageTypeOK'
      BY <2>1, <3>1 DEF PageTypeOK
    <3>5. RunShape'
      BY <2>1, <3>1, <3>2 DEF RunShape, RunShapeOf, RunTypeOK, netVars, InFlight,
                              Awaiting, PreGate, PostGate
    <3>6. QED
      BY <2>3, <3>3, <3>4, <3>5
  <2>7. QED
    <3>1. CASE idx[h] < Len(files)
      <4>1. idx[h] + 1 \in DOMAIN files
        BY <3>1 DEF RunTypeOK, PageTypeOK
      <4>2. QED
        BY <1>2, <2>5, <2>6, <3>1, <4>1 DEF ModerationSafe
    <3>2. CASE ~(idx[h] < Len(files))
      <4>1. files # <<>> => 1 \in DOMAIN files
        BY DEF PageTypeOK
      <4>2. QED
        BY <1>2, <2>5, <2>6, <3>2, <4>1 DEF ModerationSafe
    <3>3. QED
      BY <3>1, <3>2
<1>3. QED
  BY <1>1, <1>2

\* The catch around the image section, taken by an upload that failed or was
\* refused, keeps the types.
LEMMA CatchType ==
    ASSUME TypeOK, RunShape, NEW h \in Submissions, pc[h] \in PreGate,
           ImagesFailed(h), up' \in [Submissions -> Upload],
           \A g \in Submissions : up'[g].st # "none" => up'[g].img \in Images,
           events' \in {events, events \cup {"uploadFailed"}},
           UNCHANGED <<author, idx, img, passed, req, report, stored,
                       cancelled, files, session, leaving, cancelState,
                       estranged>>
    PROVE  TypeOK' /\ RunShape'
<1>1. EnterWriteEffect(h) /\ UNCHANGED <<urls, lastUploaded>>
  BY ImagesFailedType DEF ImagesFailed
<1>2. RunTypeOK'
  BY <1>1 DEF TypeOK, RunTypeOK, EnterWriteEffect
<1>3. NetTypeOK'
  BY DEF TypeOK, NetTypeOK
<1>4. PageTypeOK'
  BY <1>1 DEF TypeOK, PageTypeOK, EnterWriteEffect
<1>5. HistTypeOK'
  BY DEF TypeOK, HistTypeOK
<1>6. RunShape'
  BY <1>1, EnterWriteShape
<1>7. QED
  BY <1>2, <1>3, <1>4, <1>5, <1>6 DEF TypeOK

\* The steps of an upload keep the types.
LEMMA UploadType ==
    ASSUME TypeOK, RunShape, NEW h \in Submissions, UploadStep(h)
    PROVE  TypeOK' /\ RunShape'
<1>0. \A g \in Submissions : up[g].st # "none" => up[g].img \in Images
  BY DEF RunShape, RunShapeOf
<1>1. CASE StartUpload(h)
  <2> USE <1>1 DEF StartUpload, TypeOK
  <2>1. img[h] \in Images
    BY DEF RunShape, RunShapeOf, PreGate
  <2>2. RunTypeOK'
    BY DEF RunTypeOK, Awaiting, PreGate
  <2>3. NetTypeOK'
    BY <2>1 DEF NetTypeOK, RunTypeOK, PageTypeOK, Upload
  <2>4. PageTypeOK' /\ HistTypeOK'
    BY DEF PageTypeOK, HistTypeOK, pageVars, histVars
  <2>5. RunShape'
    BY <2>1 DEF RunShape, RunShapeOf, RunTypeOK, NetTypeOK, InFlight,
                Awaiting, PreGate, PostGate
  <2>6. QED
    BY <2>2, <2>3, <2>4, <2>5
<1>2. CASE UploadRefused(h) \/ UploadCancelled(h)
  <2>1. up' = up /\ pc[h] \in PreGate /\ ImagesFailed(h)
    BY <1>2 DEF UploadRefused, UploadCancelled, netVars, PreGate
  <2>2. up' \in [Submissions -> Upload]
    BY <2>1 DEF TypeOK, NetTypeOK
  <2>3. \A g \in Submissions : up'[g].st # "none" => up'[g].img \in Images
    BY <1>0, <2>1
  <2>4. QED
    BY <1>2, <2>1, <2>2, <2>3, CatchType
    DEF UploadRefused, UploadCancelled, netVars, histVars
<1>9. CASE CompressedOnce(h)
  <2> USE <1>9 DEF CompressedOnce, TypeOK
  <2>1. RunTypeOK'
    BY DEF RunTypeOK, Awaiting, PreGate
  <2>2. NetTypeOK' /\ PageTypeOK' /\ HistTypeOK'
    BY DEF NetTypeOK, PageTypeOK, HistTypeOK, netVars, pageVars, histVars
  <2>3. RunShape'
    BY DEF RunShape, RunShapeOf, RunTypeOK, netVars, InFlight, Awaiting,
           PreGate, PostGate
  <2>4. QED
    BY <2>1, <2>2, <2>3
<1>3. CASE UploadTokenRefreshed(h)
  <2> USE <1>3 DEF UploadTokenRefreshed, TypeOK
  <2>1. RunTypeOK' /\ HistTypeOK'
    BY DEF RunTypeOK, HistTypeOK, runVars, histVars
  <2>2. NetTypeOK'
    BY DEF NetTypeOK, Upload
  <2>3. PageTypeOK'
    BY DEF PageTypeOK, NetTypeOK, Upload
  <2>4. RunShape'
    BY <1>0 DEF RunShape, RunShapeOf, NetTypeOK, InFlight, runVars, Upload
  <2>5. QED
    BY <2>1, <2>2, <2>3, <2>4
<1>4. CASE UploadLands(h)
  <2> USE <1>4 DEF UploadLands, TypeOK
  <2>1. RunTypeOK' /\ PageTypeOK' /\ HistTypeOK'
    BY DEF RunTypeOK, PageTypeOK, HistTypeOK, runVars, pageVars, histVars
  <2>2. NetTypeOK'
    BY <1>0 DEF NetTypeOK, Upload, Object
  <2>3. RunShape'
    BY <1>0 DEF RunShape, RunShapeOf, NetTypeOK, InFlight, runVars, Upload
  <2>4. QED
    BY <2>1, <2>2, <2>3
<1>5. CASE UploadSucceeds(h)
  <2> DEFINE list == Append(urls[h], [by |-> h, at |-> up[h].at, img |-> up[h].img])
  <2>1. /\ pc[h] = "upload" /\ up[h].st = "stored"
        /\ up' = [up EXCEPT ![h] = NoUpload]
        /\ UNCHANGED <<author, passed, req, report, stored, cancelled, files,
                       session, leaving, histVars>>
    BY <1>5 DEF UploadSucceeds, UploadAnswered
  <2>2. list \in Seq(Object)
    <3>1. up[h].img \in Images /\ up[h].at \in Nat
      BY <1>0, <2>1 DEF TypeOK, NetTypeOK, Upload
    <3>2. [by |-> h, at |-> up[h].at, img |-> up[h].img] \in Object
      BY <3>1 DEF Object
    <3>3. QED
      BY <3>2 DEF TypeOK, RunTypeOK
  <2>3. NetTypeOK' /\ HistTypeOK'
    BY <2>1 DEF TypeOK, NetTypeOK, HistTypeOK, histVars, NoUpload, Upload
  <2>4. \A g \in Submissions : up'[g].st # "none" => up'[g].img \in Images
    BY <1>0, <2>1 DEF TypeOK, NetTypeOK, NoUpload
  <2>5. CASE EndUploads(h, list) /\ UNCHANGED <<idx, img>>
    <3> HIDE DEF list
    <3>1. /\ EnterWriteEffect(h)
          /\ urls' \in [Submissions -> Seq(Object)]
          /\ lastUploaded' \in Seq(Object)
      BY <2>2, <2>5, EndUploadsType
    <3>2. RunTypeOK' /\ PageTypeOK'
      BY <2>1, <2>5, <3>1 DEF TypeOK, RunTypeOK, PageTypeOK, EnterWriteEffect
    <3>3. RunShape'
      BY <2>1, <2>4, <2>5, <3>1, EnterWriteShape DEF PreGate
    <3>4. QED
      BY <2>3, <3>2, <3>3 DEF TypeOK
  <2>6. CASE /\ idx[h] < Len(files)
             /\ urls' = [urls EXCEPT ![h] = list]
             /\ pc' = [pc EXCEPT ![h] = "compress"]
             /\ idx' = [idx EXCEPT ![h] = @ + 1]
             /\ img' = [img EXCEPT ![h] = files[idx[h] + 1]]
             /\ UNCHANGED <<outcome, imgUrl, writer, busy, lastUploaded>>
    <3> HIDE DEF list
    <3>1. files[idx[h] + 1] \in Images
      BY <2>6 DEF TypeOK, RunTypeOK, PageTypeOK
    <3>2. RunTypeOK'
      BY <2>1, <2>2, <2>6, <3>1 DEF TypeOK, RunTypeOK, Awaiting, PreGate
    <3>3. PageTypeOK'
      BY <2>1, <2>6 DEF TypeOK, PageTypeOK
    <3>4. RunShape'
      BY <2>1, <2>4, <2>6, <3>1 DEF RunShape, RunShapeOf, TypeOK, RunTypeOK,
                              InFlight, Awaiting, PreGate, PostGate
    <3>5. QED
      BY <2>3, <3>2, <3>3, <3>4 DEF TypeOK
  <2>7. QED
    BY <1>5, <2>5, <2>6 DEF UploadSucceeds
<1>6. CASE UploadTimesOut(h)
  <2>1. up' \in [Submissions -> Upload]
    BY <1>6 DEF UploadTimesOut, netVars, TypeOK, NetTypeOK
  <2>2. \A g \in Submissions : up'[g].st # "none" => up'[g].img \in Images
    BY <1>0, <1>6 DEF UploadTimesOut, netVars
  <2>3. QED
    BY <1>6, <2>1, <2>2, CatchType
    DEF UploadTimesOut, UploadTimer, netVars, PreGate
<1>7. CASE UploadFails(h)
  <2>1. up' = [up EXCEPT ![h].st = "failed"] /\ up[h].st # "none"
    BY <1>7 DEF UploadFails
  <2>2. up' \in [Submissions -> Upload]
    BY <2>1 DEF TypeOK, NetTypeOK, Upload
  <2>3. \A g \in Submissions : up'[g].st # "none" => up'[g].img \in Images
    BY <1>0, <2>1 DEF TypeOK, NetTypeOK, Upload
  <2>4. CASE pc[h] = "upload"
    BY <1>7, <2>2, <2>3, <2>4, CatchType DEF UploadFails, PreGate
  <2>5. CASE pc[h] # "upload"
    <3> USE <1>7, <2>5 DEF UploadFails, TypeOK
    <3>1. RunTypeOK'
      BY DEF RunTypeOK, runVars
    <3>2. NetTypeOK'
      BY <2>2 DEF NetTypeOK
    <3>3. PageTypeOK' /\ HistTypeOK'
      BY DEF PageTypeOK, HistTypeOK
    <3>4. RunShape'
      BY <2>3 DEF RunShape, RunShapeOf, runVars, InFlight
    <3>5. QED
      BY <3>1, <3>2, <3>3, <3>4
  <2>6. QED
    BY <2>4, <2>5
<1>8. QED
  BY <1>1, <1>2, <1>3, <1>4, <1>5, <1>6, <1>7, <1>9 DEF UploadStep

\* So do the steps of the write.
LEMMA WriteType ==
    ASSUME TypeOK, RunShape, NEW h \in Submissions, WriteStep(h)
    PROVE  TypeOK' /\ RunShape'
<1> USE DEF TypeOK
<1>1. ASSUME NEW ok \in BOOLEAN, SendReport(h, ok)
      PROVE  TypeOK' /\ RunShape'
  <2> USE <1>1 DEF SendReport
  <2>1. author[h] \in Users /\ writer[h] \in Users
    BY DEF RunShape, RunShapeOf, InFlight, Awaiting, PostGate
  <2>2. RunTypeOK' /\ HistTypeOK'
    BY DEF RunTypeOK, HistTypeOK, histVars, Awaiting, PostGate
  <2>3. NetTypeOK'
    BY DEF NetTypeOK
  <2>4. PageTypeOK'
    BY <2>1 DEF PageTypeOK
  <2>5. RunShape'
    BY <2>1 DEF RunShape, RunShapeOf, RunTypeOK, NetTypeOK, InFlight,
                Awaiting, PreGate, PostGate
  <2>6. QED
    BY <2>2, <2>3, <2>4, <2>5
<1>2. CASE ReportLands(h)
  <2> USE <1>2 DEF ReportLands
  <2>1. Document(h) \in Documents
    BY DEF RunShape, RunShapeOf, Document, Documents, RunTypeOK
  <2>2. RunTypeOK' /\ PageTypeOK' /\ HistTypeOK'
    BY DEF RunTypeOK, PageTypeOK, HistTypeOK, runVars, pageVars, histVars
  <2>3. NetTypeOK'
    BY <2>1 DEF NetTypeOK
  <2>4. RunShape'
    BY DEF RunShape, RunShapeOf, NetTypeOK, InFlight, runVars
  <2>5. QED
    BY <2>2, <2>3, <2>4
<1>3. CASE ReportRejected(h)
  <2> USE <1>3 DEF ReportRejected
  <2>1. RunTypeOK' /\ PageTypeOK' /\ HistTypeOK'
    BY DEF RunTypeOK, PageTypeOK, HistTypeOK, runVars, pageVars, histVars
  <2>2. NetTypeOK'
    BY DEF NetTypeOK
  <2>3. RunShape'
    BY DEF RunShape, RunShapeOf, NetTypeOK, InFlight, runVars
  <2>4. QED
    BY <2>1, <2>2, <2>3
<1>4. CASE ReportAnswered(h) \/ ReportErrored(h)
  <2>1. PICK o \in {"success", "error"} :
          /\ Finish(h, o)
          /\ FreePage
          /\ UNCHANGED <<author, idx, img, passed, urls, imgUrl, writer,
                         netVars, cancelled, files, lastUploaded, session,
                         leaving, histVars>>
    BY <1>4 DEF ReportAnswered, ReportErrored
  <2> USE <2>1 DEF Finish
  <2>2. RunTypeOK'
    BY DEF RunTypeOK, Outcomes
  <2>3. NetTypeOK' /\ HistTypeOK'
    BY DEF NetTypeOK, HistTypeOK, netVars, histVars
  <2>4. PageTypeOK'
    BY DEF PageTypeOK, FreePage
  <2>5. RunShape'
    BY DEF RunShape, RunShapeOf, RunTypeOK, netVars, InFlight, Awaiting,
           PreGate, PostGate
  <2>6. QED
    BY <2>2, <2>3, <2>4, <2>5
<1>5. QED
  BY <1>1, <1>2, <1>3, <1>4 DEF WriteStep

\* What the user does, in this tab or in another, keeps the types.
LEMMA UserType ==
    ASSUME TypeOK, RunShape, UserStep
    PROVE  TypeOK' /\ RunShape'
<1> USE DEF TypeOK
<1>1. CASE ~Reload
  <2>1. UNCHANGED <<runVars, netVars>>
    BY <1>1 DEF UserStep, CancelClick, PickFiles, ClearForm, SignIn, SignOut,
                OtherTab
  <2>2. RunTypeOK'
    BY <2>1 DEF RunTypeOK, runVars
  <2>3. NetTypeOK'
    BY <2>1 DEF NetTypeOK, netVars
  <2>4. RunShape'
    BY <2>1 DEF RunShape, RunShapeOf, InFlight, runVars, netVars
  <2>5. PageTypeOK' /\ HistTypeOK'
    <3>1. CASE CancelClick
      BY <3>1 DEF CancelClick, FreePage, PageTypeOK, HistTypeOK
    <3>2. ASSUME NEW s \in Selections, PickFiles(s)
          PROVE  PageTypeOK' /\ HistTypeOK'
      <4>1. s \in Seq(Images)
        BY SelectionsAreSequences
      <4>2. QED
        BY <3>2, <4>1 DEF PickFiles, PageTypeOK, HistTypeOK, histVars
    <3>3. CASE ClearForm
      BY <3>3 DEF ClearForm, PageTypeOK, HistTypeOK, histVars
    <3>4. ASSUME NEW u \in Users, SignIn(u)
          PROVE  PageTypeOK' /\ HistTypeOK'
      BY <3>4 DEF SignIn, LeavePage, PageTypeOK, HistTypeOK, histVars
    <3>5. CASE SignOut
      BY <3>5 DEF SignOut, LeavePage, PageTypeOK, HistTypeOK, histVars
    <3>6. ASSUME NEW u \in Users \cup {NoUser}, OtherTab(u)
          PROVE  PageTypeOK' /\ HistTypeOK'
      BY <3>6 DEF OtherTab, PageTypeOK, HistTypeOK
    <3>7. QED
      BY <1>1, <3>1, <3>2, <3>3, <3>4, <3>5, <3>6 DEF UserStep
  <2>6. QED
    BY <2>2, <2>3, <2>4, <2>5
<1>2. CASE Reload
  <2> USE <1>2 DEF Reload
  <2>1. RunTypeOK'
    BY DEF RunTypeOK
  <2>2. NetTypeOK'
    BY DEF NetTypeOK, NoUpload, Upload
  <2>3. PageTypeOK' /\ HistTypeOK'
    <3>1. <<>> \in Seq(Images) /\ <<>> \in Seq(Object)
      OBVIOUS
    <3>2. PageTypeOK'
      BY <3>1 DEF PageTypeOK
    <3>3. HistTypeOK'
      BY DEF HistTypeOK, histVars
    <3>4. QED
      BY <3>2, <3>3
  <2>4. RunShape'
    <3> SUFFICES ASSUME NEW g \in Submissions
                 PROVE  RunShapeOf(g)'
      BY DEF RunShape, RunShapeOf
    <3>1. RunShapeOf(g)
      BY DEF RunShape
    <3>2. /\ pc'[g] = IF InFlight(g) THEN "gone" ELSE pc[g]
          /\ up'[g] = IF up[g].st = "refresh" THEN NoUpload ELSE up[g]
      OBVIOUS
    <3>3. pc'[g] \notin Awaiting
      BY <3>2 DEF InFlight, Awaiting, PreGate, PostGate
    <3>4. up'[g].st # "none" => up'[g].img \in Images
      BY <3>1, <3>2 DEF RunShapeOf, NoUpload
    <3>5. pc'[g] = "idle" => req'[g] = "none"
      BY <3>1, <3>2 DEF RunShapeOf
    <3>6. req'[g] # "none" => author'[g] \in Users /\ writer'[g] \in Users
      BY <3>1 DEF RunShapeOf
    <3>7. QED
      BY <3>3, <3>4, <3>5, <3>6 DEF RunShapeOf, InFlight, Awaiting, PreGate,
                                    PostGate
  <2>5. QED
    BY <2>1, <2>2, <2>3, <2>4
<1>3. QED
  BY <1>1, <1>2

LEMMA InitType == Init => TypeOK /\ RunShape
<1> SUFFICES ASSUME Init
             PROVE  TypeOK /\ RunShape
  OBVIOUS
<1> USE DEF Init
<1>1. RunTypeOK
  BY DEF RunTypeOK, Outcomes, Url
<1>2. NetTypeOK
  BY DEF NetTypeOK, NoUpload, Upload
<1>3. PageTypeOK /\ HistTypeOK
  <2>1. <<>> \in Seq(Images) /\ <<>> \in Seq(Object)
    OBVIOUS
  <2>2. PageTypeOK
    BY <2>1 DEF PageTypeOK
  <2>3. HistTypeOK
    BY DEF HistTypeOK
  <2>4. QED
    BY <2>2, <2>3
<1>4. RunShape
  BY DEF RunShape, RunShapeOf, InFlight, Awaiting, PreGate, PostGate, NoUpload
<1>5. QED
  BY <1>1, <1>2, <1>3, <1>4 DEF TypeOK

LEMMA StepType ==
    ASSUME TypeOK, RunShape, [Next]_vars
    PROVE  TypeOK' /\ RunShape'
<1>1. CASE UserStep
  BY <1>1, UserType
<1>2. ASSUME NEW h \in Submissions, RunStep(h)
      PROVE  TypeOK' /\ RunShape'
  BY <1>2, SubmitType, ModerationType, UploadType, WriteType DEF RunStep
<1>3. CASE UNCHANGED vars
  <2>1. TypeOK'
    BY <1>3 DEF vars, runVars, netVars, pageVars, histVars, TypeOK, RunTypeOK,
                NetTypeOK, PageTypeOK, HistTypeOK
  <2>2. RunShape'
    BY <1>3 DEF vars, runVars, netVars, RunShape, RunShapeOf, InFlight
  <2>3. QED
    BY <2>1, <2>2
<1>4. QED
  BY <1>1, <1>2, <1>3 DEF Next

\* Every variable of the page, of its runs and of the network keeps its type,
\* whatever the interleaving of runs, requests, tabs and reloads: no run sends
\* a report without an author and a writer, or uploads without an image.
THEOREM TypeCorrect == Spec => []TypeOK
<1>1. Init => TypeOK /\ RunShape
  BY InitType
<1>2. TypeOK /\ RunShape /\ [Next]_vars => (TypeOK /\ RunShape)'
  BY StepType
<1>3. QED
  BY <1>1, <1>2, PTL DEF Spec
-----------------------------------------------------------------------------
(***************************************************************************)
(* One run at a time.  Covered is inductive: a run in flight has the page  *)
(* covered, and only an uncovered page can start another.                  *)
(***************************************************************************)

\* A run that goes on leaves the popup as it is; the others do not move.
StepAlone(h) ==
    /\ \A g \in Submissions : g # h => pc'[g] = pc[g]
    /\ InFlight(h)' => busy' = busy

LEMMA AloneKept ==
    ASSUME Alone, NEW h \in Submissions, InFlight(h), StepAlone(h)
    PROVE  Alone'
BY DEF Alone, StepAlone, InFlight

\* Nothing is in flight when the page can be reached.
LEMMA PageReachableAlone ==
    ASSUME Alone, ~busy, NEW h \in Submissions
    PROVE  ~InFlight(h)
BY DEF Alone

\* The click on Submit: nothing is in flight, and an accepted form covers the
\* page.
LEMMA SubmitAlone ==
    ASSUME TypeOK, NEW h \in Submissions, Submit(h)
    PROVE  /\ events' = events
           /\ cancelled' => cancelled
           /\ Alone => Alone'
<1>1. events' = events /\ (cancelled' => cancelled)
  BY DEF Submit, SubmitProhibitedText, SubmitRefused, SubmitIncomplete,
         SubmitAccepted, ResetCancel, histVars
<1>2. ~busy /\ pc[h] = "idle"
  BY DEF Submit, SubmitProhibitedText, SubmitRefused, SubmitIncomplete,
         SubmitAccepted, CanSubmit
<1>3. \A g \in Submissions : g # h => pc'[g] = pc[g]
  BY DEF Submit, SubmitProhibitedText, SubmitRefused, SubmitIncomplete,
         SubmitAccepted, Finish, TypeOK, RunTypeOK
<1>4. InFlight(h)' => busy'
  <2>1. CASE SubmitAccepted(h)
    BY <2>1 DEF SubmitAccepted, ShowBusy
  <2>2. CASE ~SubmitAccepted(h)
    <3>1. pc'[h] = "done"
      BY <2>2 DEF Submit, SubmitProhibitedText, SubmitRefused,
                  SubmitIncomplete, Finish, TypeOK, RunTypeOK
    <3>2. QED
      BY <3>1 DEF InFlight, Awaiting, PreGate, PostGate
  <2>3. QED
    BY <2>1, <2>2
<1>5. ASSUME Alone
      PROVE  Alone'
  <2>1. \A g \in Submissions : ~InFlight(g)
    BY <1>2, <1>5, PageReachableAlone
  <2>2. \A g \in Submissions : g # h => ~InFlight(g)'
    BY <1>3, <2>1 DEF InFlight
  <2>3. QED
    BY <1>4, <2>2 DEF Alone
<1>6. QED
  BY <1>1, <1>5

\* The way to the write leaves the page covered unless the run ends.
LEMMA EnterWriteAlone ==
    ASSUME TypeOK, NEW h \in Submissions, NEW url, EnterWrite(h, url, FALSE)
    PROVE  StepAlone(h)
<1>1. CASE MayWrite
  BY <1>1 DEF EnterWrite, StepAlone, TypeOK, RunTypeOK, PageTypeOK
<1>2. CASE ~MayWrite
  <2>1. Finish(h, IF cancelled THEN "cancelled" ELSE "error")
    BY <1>2 DEF EnterWrite
  <2>2. pc' = [pc EXCEPT ![h] = "done"]
    BY <2>1 DEF Finish
  <2>3. QED
    BY <2>2 DEF StepAlone, InFlight, Awaiting, PreGate, PostGate, TypeOK,
           RunTypeOK
<1>3. QED
  BY <1>1, <1>2

\* A step of a run leaves it alone, unless an upload failed or the user had
\* cancelled.
LEMMA RunAlone ==
    ASSUME TypeOK, NEW h \in Submissions, RunStep(h), ~Submit(h)
    PROVE  /\ events' \in {events, events \cup {"uploadFailed"}}
           /\ cancelled' = cancelled
           /\ \/ UNCHANGED <<pc, busy>>
              \/ InFlight(h) /\ StepAlone(h)
              \/ cancelled
              \/ "uploadFailed" \in events'
<1> USE DEF InFlight, Awaiting, PreGate, PostGate, TypeOK, RunTypeOK
<1>1. CASE ModerationSafe(h)
  <2>1. /\ pc[h] = "moderate"
        /\ UNCHANGED <<cancelled, events>>
    BY <1>1 DEF ModerationSafe, histVars
  <2>2. CASE EndUploads(h, <<>>)
    BY <2>1, <2>2, EnterWriteAlone DEF EndUploads
  <2>3. CASE /\ pc' \in {pc, [pc EXCEPT ![h] = "compress"]}
             /\ busy' = busy
    BY <2>1, <2>3 DEF StepAlone
  <2>4. QED
    BY <1>1, <2>2, <2>3 DEF ModerationSafe
<1>2. CASE ModerationUnsafe(h)
  BY <1>2 DEF ModerationUnsafe, Finish, StepAlone, histVars
<1>3. CASE CompressedOnce(h) \/ StartUpload(h)
  BY <1>3 DEF CompressedOnce, StartUpload, StepAlone, pageVars, histVars
<1>4. CASE UploadRefused(h) \/ UploadCancelled(h)
  BY <1>4 DEF UploadRefused, UploadCancelled, histVars
<1>5. CASE UploadTokenRefreshed(h)
  BY <1>5 DEF UploadTokenRefreshed, runVars, histVars
<1>6. CASE UploadLands(h)
  BY <1>6 DEF UploadLands, runVars, pageVars, histVars
<1>7. CASE UploadSucceeds(h)
  <2>1. /\ pc[h] = "upload"
        /\ UNCHANGED <<cancelled, events>>
    BY <1>7 DEF UploadSucceeds, histVars
  <2>2. ASSUME NEW list, EndUploads(h, list)
        PROVE  StepAlone(h)
    BY <2>2, EnterWriteAlone DEF EndUploads
  <2>3. CASE pc' = [pc EXCEPT ![h] = "compress"] /\ busy' = busy
    BY <2>1, <2>3 DEF StepAlone
  <2>4. QED
    BY <1>7, <2>1, <2>2, <2>3 DEF UploadSucceeds
<1>8. CASE UploadTimesOut(h)
  BY <1>8 DEF UploadTimesOut
<1>9. CASE UploadFails(h)
  BY <1>9 DEF UploadFails, runVars
<1>10. CASE WriteStep(h)
  <2>1. ASSUME NEW ok \in BOOLEAN, SendReport(h, ok)
        PROVE  InFlight(h) /\ StepAlone(h) /\ UNCHANGED <<cancelled, events>>
    BY <2>1 DEF SendReport, StepAlone, histVars
  <2>2. CASE ReportLands(h) \/ ReportRejected(h)
    BY <2>2 DEF ReportLands, ReportRejected, runVars, pageVars, histVars
  <2>3. CASE ReportAnswered(h) \/ ReportErrored(h)
    BY <2>3 DEF ReportAnswered, ReportErrored, Finish, StepAlone, histVars
  <2>4. QED
    BY <1>10, <2>1, <2>2, <2>3 DEF WriteStep
<1>11. QED
  BY <1>1, <1>2, <1>3, <1>4, <1>5, <1>6, <1>7, <1>8, <1>9, <1>10
  DEF RunStep, UploadStep

LEMMA StepCovered ==
    ASSUME TypeOK, Covered, [Next]_vars
    PROVE  Covered'
<1>1. ASSUME NEW h \in Submissions, Submit(h)
      PROVE  Covered'
  BY <1>1, SubmitAlone DEF Covered, KeptApart
<1>2. ASSUME NEW h \in Submissions, RunStep(h), ~Submit(h)
      PROVE  Covered'
  <2>1. /\ events' \in {events, events \cup {"uploadFailed"}}
        /\ cancelled' = cancelled
        /\ \/ UNCHANGED <<pc, busy>>
           \/ InFlight(h) /\ StepAlone(h)
           \/ cancelled
           \/ "uploadFailed" \in events'
    BY <1>2, RunAlone
  <2>2. cancelled' => "cancel" \in events'
    BY <2>1 DEF Covered
  <2>3. ASSUME KeptApart'
        PROVE  Alone'
    <3>1. Alone /\ ~cancelled /\ "uploadFailed" \notin events'
      BY <2>1, <2>3 DEF Covered, KeptApart
    <3>2. CASE UNCHANGED <<pc, busy>>
      BY <3>1, <3>2 DEF Alone, InFlight
    <3>3. CASE InFlight(h) /\ StepAlone(h)
      BY <3>1, <3>3, AloneKept
    <3>4. QED
      BY <2>1, <3>1, <3>2, <3>3
  <2>4. QED
    BY <2>2, <2>3 DEF Covered
<1>3. CASE CancelClick
  BY <1>3 DEF CancelClick, Covered, KeptApart
<1>4. CASE Reload
  <2>1. cancelled' = FALSE
    BY <1>4 DEF Reload
  <2>2. \A g \in Submissions : ~InFlight(g)'
    BY <1>4 DEF Reload, InFlight, Awaiting, PreGate, PostGate
  <2>3. QED
    BY <2>1, <2>2 DEF Covered, Alone
<1>5. CASE UserStep /\ ~CancelClick /\ ~Reload
  <2>1. UNCHANGED <<pc, busy, cancelled>>
    BY <1>5 DEF UserStep, PickFiles, ClearForm, SignIn, SignOut, OtherTab, runVars
  <2>2. events' = events
    BY <1>5 DEF UserStep, PickFiles, ClearForm, SignIn, SignOut, OtherTab,
           histVars
  <2>3. QED
    BY <2>1, <2>2 DEF Covered, KeptApart, Alone, InFlight
<1>6. CASE UNCHANGED vars
  BY <1>6 DEF vars, runVars, pageVars, histVars, Covered, KeptApart, Alone,
         InFlight
<1>7. QED
  BY <1>1, <1>2, <1>3, <1>4, <1>5, <1>6 DEF Next

\* As long as nobody cancels and no upload fails, the disabled button lets only
\* one run of the handler be between its field checks and its end, for any
\* number of clicks, whatever the images, the tabs and the reloads do.
THEOREM RunsKeptApart == Spec => []SingleFlight
<1>1. Init => Covered
  BY DEF Init, Covered, Alone, InFlight, Awaiting, PreGate, PostGate
<1>2. TypeOK /\ Covered /\ [Next]_vars => Covered'
  BY StepCovered
<1>3. Covered => SingleFlight
  BY DEF Covered, Alone, SingleFlight
<1>4. QED
  BY <1>1, <1>2, <1>3, TypeCorrect, PTL DEF Spec
-----------------------------------------------------------------------------
(***************************************************************************)
(* Cancel.  CancelPending is inductive: a Cancel that counts finds its run *)
(* before the last look at the flag, and the flag stays up until then.     *)
(***************************************************************************)

LEMMA SubmitCancelPending ==
    ASSUME TypeOK, RunShape, CancelPending, NEW h \in Submissions, Submit(h)
    PROVE  CancelPending'
<1> USE DEF TypeOK, RunTypeOK, HistTypeOK
<1>1. /\ pc[h] = "idle"
      /\ req' = req
      /\ \A g \in Submissions : g # h => pc'[g] = pc[g]
      /\ pc'[h] # "idle"
  BY DEF Submit, SubmitProhibitedText, SubmitRefused, SubmitIncomplete,
         SubmitAccepted, CanSubmit, Finish, netVars
<1>2. cancelState[h] = "no"
  BY <1>1 DEF CancelPending
<1>3. CASE SubmitProhibitedText(h)
  <2>1. UNCHANGED <<cancelled, cancelState>>
    BY <1>3 DEF SubmitProhibitedText, histVars
  <2>2. QED
    BY <1>1, <1>2, <2>1 DEF CancelPending, InFlight
<1>4. CASE ResetCancel
  <2> SUFFICES ASSUME NEW g \in Submissions
               PROVE  /\ pc'[g] = "idle" => cancelState'[g] = "no"
                      /\ cancelState'[g] = "asked" =>
                           req'[g] = "none" /\ ~InFlight(g)'
    BY DEF CancelPending
  <2>1. cancelState'[g] = IF cancelState[g] = "asked" /\ InFlight(g)
                          THEN "overridden" ELSE cancelState[g]
    BY <1>4 DEF ResetCancel
  <2>2. CASE g = h
    BY <1>1, <1>2, <2>1, <2>2
  <2>3. CASE g # h
    BY <1>1, <2>1, <2>3 DEF CancelPending, InFlight
  <2>4. QED
    BY <2>2, <2>3
<1>5. QED
  BY <1>3, <1>4 DEF Submit, SubmitRefused, SubmitIncomplete, SubmitAccepted

\* A run that waits before the gate stays there or ends, unless nobody
\* cancelled; one behind the gate never comes back.
LEMMA RunCancelPending ==
    ASSUME TypeOK, RunShape, CancelPending,
           NEW h \in Submissions, RunStep(h), ~Submit(h)
    PROVE  CancelPending'
<1> USE DEF TypeOK, RunTypeOK, HistTypeOK, NetTypeOK
<1>1. /\ UNCHANGED <<cancelled, cancelState>>
      /\ \A g \in Submissions : g # h => pc'[g] = pc[g] /\ req'[g] = req[g]
  <2>1. CASE UploadStep(h)
    BY <2>1 DEF UploadStep, CompressedOnce, UploadCancelled, StartUpload,
           UploadRefused, UploadTokenRefreshed, UploadLands, UploadSucceeds,
           UploadTimesOut, UploadFails, ImagesFailed, EndUploads, EnterWrite,
           Finish, runVars, netVars, pageVars, histVars
  <2>2. CASE WriteStep(h)
    BY <2>2 DEF WriteStep, SendReport, ReportLands, ReportRejected,
           ReportAnswered, ReportErrored, Finish, runVars, netVars, pageVars,
           histVars
  <2>3. CASE ModerationSafe(h) \/ ModerationUnsafe(h)
    BY <2>3 DEF ModerationSafe, ModerationUnsafe, EndUploads, EnterWrite,
                Finish, netVars, histVars
  <2>4. QED
    BY <2>1, <2>2, <2>3 DEF RunStep
<1>2. \/ UNCHANGED <<pc, req>>
      \/ /\ pc[h] \in PreGate
         /\ req' = req
         /\ pc'[h] \in PreGate \cup {"refresh", "done"}
         /\ pc'[h] = "refresh" => ~cancelled
      \/ /\ pc[h] \in PostGate
         /\ pc'[h] \in {"post", "done"}
      \/ /\ req[h] # "none"
         /\ pc' = pc
  <2> USE DEF PreGate, PostGate
  <2>0. ASSUME NEW url, NEW freed, EnterWrite(h, url, freed)
        PROVE  /\ pc'[h] \in {"refresh", "done"}
               /\ pc'[h] = "refresh" => ~cancelled
    BY <2>0 DEF EnterWrite, MayWrite, Finish
  <2>1. CASE ModerationSafe(h)
    BY <2>0, <2>1 DEF ModerationSafe, EndUploads, netVars
  <2>2. CASE ModerationUnsafe(h)
    BY <2>2 DEF ModerationUnsafe, Finish, netVars
  <2>3. CASE CompressedOnce(h) \/ StartUpload(h)
    BY <2>3 DEF CompressedOnce, StartUpload, netVars
  <2>4. CASE \/ UploadCancelled(h) \/ UploadRefused(h)
             \/ UploadTimesOut(h) \/ UploadFails(h)
    BY <2>0, <2>4 DEF UploadCancelled, UploadRefused, UploadTimesOut,
           UploadTimer, UploadFails, ImagesFailed, netVars, runVars
  <2>5. CASE UploadTokenRefreshed(h) \/ UploadLands(h)
    BY <2>5 DEF UploadTokenRefreshed, UploadLands, runVars
  <2>6. CASE UploadSucceeds(h)
    <3>1. ASSUME NEW list, EndUploads(h, list)
          PROVE  /\ pc'[h] \in {"refresh", "done"}
                 /\ pc'[h] = "refresh" => ~cancelled
      BY <2>0, <3>1 DEF EndUploads
    <3>2. CASE pc' = [pc EXCEPT ![h] = "compress"]
      BY <2>6, <3>2 DEF UploadSucceeds
    <3>3. QED
      BY <2>6, <3>1, <3>2 DEF UploadSucceeds
  <2>7. CASE WriteStep(h)
    BY <2>7 DEF WriteStep, SendReport, ReportLands, ReportRejected,
                ReportAnswered, ReportErrored, Finish, runVars
  <2>8. QED
    BY <2>1, <2>2, <2>3, <2>4, <2>5, <2>6, <2>7 DEF RunStep, UploadStep
<1>3. SUFFICES ASSUME NEW g \in Submissions
               PROVE  /\ pc'[g] = "idle" => cancelState'[g] = "no"
                      /\ cancelState'[g] = "asked" =>
                           /\ req'[g] = "none"
                           /\ InFlight(g)' => pc'[g] \in PreGate /\ cancelled'
  BY DEF CancelPending
<1>4. /\ pc[g] = "idle" => cancelState[g] = "no"
      /\ cancelState[g] = "asked" =>
           /\ req[g] = "none"
           /\ InFlight(g) => pc[g] \in PreGate /\ cancelled
  BY DEF CancelPending
<1>5. CASE g # h
  BY <1>1, <1>4, <1>5 DEF InFlight
<1>6. CASE g = h
  BY <1>1, <1>2, <1>4, <1>6 DEF InFlight, Awaiting, PreGate, PostGate
<1>7. QED
  BY <1>5, <1>6

LEMMA StepCancelPending ==
    ASSUME TypeOK, RunShape, CancelPending, [Next]_vars
    PROVE  CancelPending'
<1>1. ASSUME NEW h \in Submissions, RunStep(h)
      PROVE  CancelPending'
  BY <1>1, SubmitCancelPending, RunCancelPending
<1>2. CASE CancelClick
  <2> SUFFICES ASSUME NEW h \in Submissions
               PROVE  /\ pc'[h] = "idle" => cancelState'[h] = "no"
                      /\ cancelState'[h] = "asked" =>
                           /\ req'[h] = "none"
                           /\ InFlight(h)' => pc'[h] \in PreGate /\ cancelled'
    BY DEF CancelPending
  <2>1. /\ cancelState'[h] = IF pc[h] \in PreGate THEN "asked"
                             ELSE IF pc[h] \in PostGate THEN "late"
                             ELSE cancelState[h]
        /\ pc' = pc /\ req' = req /\ cancelled'
    BY <1>2 DEF CancelClick, runVars, netVars
  <2>2. RunShapeOf(h)
    BY DEF RunShape
  <2>3. QED
    BY <2>1, <2>2 DEF CancelPending, RunShapeOf, InFlight, Awaiting, PreGate,
           PostGate
<1>3. CASE Reload
  <2>1. UNCHANGED <<req, cancelState>>
    BY <1>3 DEF Reload, histVars
  <2>2. \A h \in Submissions :
          ~InFlight(h)' /\ (pc'[h] = "idle" => pc[h] = "idle")
    BY <1>3 DEF Reload, InFlight, Awaiting, PreGate, PostGate
  <2>3. QED
    BY <2>1, <2>2 DEF CancelPending
<1>4. CASE UserStep /\ ~CancelClick /\ ~Reload
  <2>1. UNCHANGED <<pc, req, cancelled, cancelState>>
    BY <1>4 DEF UserStep, PickFiles, ClearForm, SignIn, SignOut, OtherTab,
                runVars, netVars, histVars
  <2>2. QED
    BY <2>1 DEF CancelPending, InFlight
<1>5. CASE UNCHANGED vars
  BY <1>5 DEF vars, runVars, netVars, pageVars, histVars, CancelPending, InFlight
<1>6. QED
  BY <1>1, <1>2, <1>3, <1>4, <1>5 DEF Next

\* A Cancel clicked before the last look at the flag keeps the report from
\* being sent, through failed uploads, timeouts and other submissions, unless
\* one of those took the flag down again.
THEOREM CancelCounts == Spec => []CancelHonoured
<1>1. Init => CancelPending
  BY DEF Init, CancelPending
<1>2. TypeOK /\ RunShape /\ CancelPending /\ [Next]_vars => CancelPending'
  BY StepCancelPending
<1>3. CancelPending => CancelHonoured
  BY DEF CancelPending, CancelHonoured
<1>4. Init => TypeOK /\ RunShape
  BY InitType
<1>5. TypeOK /\ RunShape /\ [Next]_vars => (TypeOK /\ RunShape)'
  BY StepType
<1>6. QED
  BY <1>1, <1>2, <1>3, <1>4, <1>5, PTL DEF Spec
-----------------------------------------------------------------------------
(***************************************************************************)
(* Moderation before upload.  While runs are kept apart the file input     *)
(* stays as it was at the click, so the verdicts cover what is uploaded.   *)
(***************************************************************************)

\* A run that is not in flight has no verdicts to vouch for but those of its
\* last upload.
LEMMA VerdictsAtRest ==
    ASSUME NEW h \in Submissions, ~InFlight(h)', VerdictsOf(h),
           up'[h] = up[h] \/ up'[h] = NoUpload, passed[h] \subseteq passed'[h]
    PROVE  VerdictsOf(h)'
BY DEF VerdictsOf, InFlight, Awaiting, PreGate, NoUpload

\* Nothing of a run moves.
LEMMA VerdictsStay ==
    ASSUME NEW h \in Submissions, VerdictsOf(h), files' = files,
           pc'[h] = pc[h], idx'[h] = idx[h], img'[h] = img[h],
           passed'[h] = passed[h], up'[h] = up[h]
    PROVE  VerdictsOf(h)'
BY DEF VerdictsOf

LEMMA SubmitVerdicts ==
    ASSUME TypeOK, NEW h \in Submissions, Submit(h), VerdictsOf(h)
    PROVE  VerdictsOf(h)'
<1> USE DEF TypeOK, RunTypeOK, PageTypeOK
<1>1. up' = up /\ passed' = passed /\ pc[h] = "idle"
  BY DEF Submit, SubmitProhibitedText, SubmitRefused, SubmitIncomplete,
         SubmitAccepted, CanSubmit, netVars
<1>2. CASE SubmitAccepted(h) /\ files # <<>>
  <2>1. /\ pc'[h] = "moderate" /\ idx'[h] = 1 /\ img'[h] = files[1]
        /\ files' = files
    BY <1>2 DEF SubmitAccepted
  <2>2. 1 \in DOMAIN files
    BY <1>2
  <2>3. QED
    BY <1>1, <2>1, <2>2 DEF VerdictsOf
<1>3. CASE ~(SubmitAccepted(h) /\ files # <<>>)
  <2>1. pc'[h] \in {"done", "refresh"}
    BY <1>3 DEF Submit, SubmitProhibitedText, SubmitRefused, SubmitIncomplete,
                SubmitAccepted, Finish
  <2>2. QED
    BY <1>1, <2>1 DEF VerdictsOf
<1>4. QED
  BY <1>2, <1>3

\* On the way to the write a run leaves the loops.
LEMMA EnterWriteVerdicts ==
    ASSUME TypeOK, NEW h \in Submissions, NEW url, NEW freed,
           EnterWrite(h, url, freed), VerdictsOf(h),
           passed[h] \subseteq passed'[h],
           up'[h].st = "none" \/ up'[h].img \in passed'[h]
    PROVE  VerdictsOf(h)'
<1>1. pc'[h] \in {"refresh", "done"}
  BY DEF EnterWrite, Finish, TypeOK, RunTypeOK
<1>2. QED
  BY <1>1 DEF VerdictsOf

LEMMA RunVerdicts ==
    ASSUME TypeOK, NEW h \in Submissions, RunStep(h), ~Submit(h), VerdictsOf(h)
    PROVE  VerdictsOf(h)'
<1> USE DEF TypeOK, RunTypeOK, PageTypeOK, NetTypeOK
<1>1. CASE ModerationSafe(h)
  <2>1. /\ pc[h] = "moderate"
        /\ passed'[h] = passed[h] \cup {img[h]}
        /\ files' = files /\ up' = up
    BY <1>1 DEF ModerationSafe, netVars
  <2>2. /\ idx[h] \in DOMAIN files /\ img[h] = files[idx[h]]
        /\ \A i \in 1..(idx[h] - 1) : files[i] \in passed[h]
        /\ up[h].st # "none" => up[h].img \in passed[h]
    BY <2>1 DEF VerdictsOf
  <2>3. \A i \in 1..idx[h] : files[i] \in passed'[h]
    <3>1. ASSUME NEW i \in 1..idx[h]
          PROVE  files[i] \in passed'[h]
      <4>1. i = idx[h] \/ i \in 1..(idx[h] - 1)
        OBVIOUS
      <4>2. QED
        BY <2>1, <2>2, <4>1
    <3>2. QED
      BY <3>1
  <2>4. CASE idx[h] < Len(files)
    <3>1. /\ idx'[h] = idx[h] + 1
          /\ img'[h] = files[idx[h] + 1]
          /\ pc'[h] = pc[h]
      BY <1>1, <2>4 DEF ModerationSafe
    <3>2. idx'[h] \in DOMAIN files /\ idx'[h] - 1 = idx[h]
      BY <2>4, <3>1
    <3>3. QED
      BY <2>1, <2>2, <2>3, <3>1, <3>2 DEF VerdictsOf
  <2>5. CASE idx[h] >= Len(files)
    <3>1. /\ idx'[h] = 1 /\ img'[h] = files[1] /\ pc'[h] = "compress"
          /\ 1 \in DOMAIN files
      BY <1>1, <2>2, <2>5 DEF ModerationSafe
    <3>2. DOMAIN files \subseteq 1..idx[h]
      BY <2>5
    <3>3. QED
      BY <2>1, <2>2, <2>3, <3>1, <3>2 DEF VerdictsOf
  <2>6. QED
    BY <2>4, <2>5
<1>2. CASE ModerationUnsafe(h)
  BY <1>2 DEF ModerationUnsafe, Finish, netVars, VerdictsOf
<1>3. CASE CompressedOnce(h) \/ StartUpload(h)
  BY <1>3 DEF CompressedOnce, StartUpload, netVars, pageVars, VerdictsOf
<1>4. CASE UploadCancelled(h) \/ UploadRefused(h) \/ UploadTimesOut(h)
  <2>1. passed' = passed /\ up' = up /\ ImagesFailed(h)
    BY <1>4 DEF UploadCancelled, UploadRefused, UploadTimesOut, netVars
  <2>2. QED
    BY <2>1, EnterWriteVerdicts DEF ImagesFailed, VerdictsOf
<1>5. CASE UploadTokenRefreshed(h) \/ UploadLands(h)
  <2>1. /\ up[h].st # "none" /\ up'[h].img = up[h].img
        /\ UNCHANGED <<runVars, files>>
    <3>1. CASE UploadTokenRefreshed(h)
      BY <3>1 DEF UploadTokenRefreshed
    <3>2. CASE UploadLands(h)
      BY <3>2 DEF UploadLands, pageVars
    <3>3. QED
      BY <1>5, <3>1, <3>2
  <2>2. QED
    BY <2>1 DEF VerdictsOf, runVars
<1>6. CASE UploadSucceeds(h)
  <2>1. /\ pc[h] = "upload" /\ passed' = passed /\ files' = files
        /\ up'[h].st = "none"
    BY <1>6 DEF UploadSucceeds, NoUpload
  <2>2. ASSUME NEW list, EndUploads(h, list)
        PROVE  VerdictsOf(h)'
    BY <2>1, <2>2, EnterWriteVerdicts DEF EndUploads
  <2>3. CASE /\ idx[h] < Len(files)
             /\ pc' = [pc EXCEPT ![h] = "compress"]
             /\ img' = [img EXCEPT ![h] = files[idx[h] + 1]]
    <3>1. idx[h] + 1 \in DOMAIN files
      BY <2>3
    <3>2. QED
      BY <2>1, <2>3, <3>1 DEF VerdictsOf
  <2>4. QED
    BY <1>6, <2>2, <2>3 DEF UploadSucceeds
<1>7. CASE UploadFails(h)
  <2>1. /\ up'[h].img = up[h].img /\ up[h].st # "none"
        /\ files' = files
    BY <1>7 DEF UploadFails
  <2>2. CASE ImagesFailed(h) /\ UNCHANGED passed
    <3>1. up[h].img \in passed[h]
      BY <2>1 DEF VerdictsOf
    <3>2. QED
      BY <2>1, <2>2, <3>1, EnterWriteVerdicts DEF ImagesFailed
  <2>3. CASE UNCHANGED runVars
    BY <2>1, <2>3 DEF VerdictsOf, runVars
  <2>4. QED
    BY <1>7, <2>2, <2>3 DEF UploadFails
<1>8. CASE WriteStep(h)
  <2>1. UNCHANGED <<up, passed>> /\ (pc'[h] = pc[h] \/ pc'[h] \in {"post", "done"})
    BY <1>8 DEF WriteStep, SendReport, ReportLands, ReportRejected,
                ReportAnswered, ReportErrored, Finish, runVars, netVars
  <2>2. UNCHANGED <<files, img, idx>>
    BY <1>8 DEF WriteStep, SendReport, ReportLands, ReportRejected,
                ReportAnswered, ReportErrored, runVars, pageVars
  <2>3. QED
    BY <2>1, <2>2 DEF VerdictsOf
<1>9. QED
  BY <1>1, <1>2, <1>3, <1>4, <1>5, <1>6, <1>7, <1>8 DEF RunStep, UploadStep

\* What a run of the handler leaves alone: the files and the other runs.
LEMMA OthersStay ==
    ASSUME NEW h \in Submissions, RunStep(h), NEW g \in Submissions, g # h,
           VerdictsOf(g), TypeOK
    PROVE  VerdictsOf(g)'
<1> USE DEF TypeOK, RunTypeOK, NetTypeOK
<1>1. files' = files
  BY DEF RunStep, Submit, SubmitProhibitedText, SubmitRefused,
         SubmitIncomplete, SubmitAccepted, ModerationSafe, ModerationUnsafe,
         UploadStep, CompressedOnce, UploadCancelled, StartUpload,
         UploadRefused, UploadTokenRefreshed, UploadLands, UploadSucceeds,
         UploadTimesOut, UploadFails, WriteStep, SendReport, ReportLands,
         ReportRejected, ReportAnswered, ReportErrored, pageVars
<1>2. /\ pc'[g] = pc[g] /\ idx'[g] = idx[g] /\ img'[g] = img[g]
      /\ passed'[g] = passed[g] /\ up'[g] = up[g]
  <2>1. CASE Submit(h)
    BY <2>1 DEF Submit, SubmitProhibitedText, SubmitRefused, SubmitIncomplete,
                SubmitAccepted, Finish, netVars
  <2>2. CASE ModerationSafe(h) \/ ModerationUnsafe(h)
    BY <2>2 DEF ModerationSafe, ModerationUnsafe, EndUploads, EnterWrite,
                Finish, netVars
  <2>3. CASE UploadStep(h)
    BY <2>3 DEF UploadStep, CompressedOnce, UploadCancelled, StartUpload,
           UploadRefused, UploadTokenRefreshed, UploadLands, UploadSucceeds,
           UploadTimesOut, UploadFails, ImagesFailed, EndUploads, EnterWrite,
           Finish, runVars, netVars
  <2>4. CASE WriteStep(h)
    BY <2>4 DEF WriteStep, SendReport, ReportLands, ReportRejected,
                ReportAnswered, ReportErrored, Finish, runVars, netVars
  <2>5. QED
    BY <2>1, <2>2, <2>3, <2>4 DEF RunStep
<1>3. QED
  BY <1>1, <1>2, VerdictsStay

\* The events only grow.
LEMMA KeptApartBefore ==
    ASSUME TypeOK, [Next]_vars, KeptApart'
    PROVE  KeptApart
<1>1. events \subseteq events'
  <2>1. ASSUME NEW h \in Submissions, RunStep(h)
        PROVE  events \subseteq events'
    BY <2>1, SubmitAlone, RunAlone
  <2>2. CASE UserStep
    BY <2>2 DEF UserStep, CancelClick, PickFiles, ClearForm, SignIn, SignOut,
                OtherTab, Reload, histVars
  <2>3. CASE UNCHANGED vars
    BY <2>3 DEF vars, histVars
  <2>4. QED
    BY <2>1, <2>2, <2>3 DEF Next
<1>2. QED
  BY <1>1 DEF KeptApart

LEMMA StepVerdicts ==
    ASSUME TypeOK, Covered, VerdictsReach, [Next]_vars
    PROVE  VerdictsReach'
<1> SUFFICES ASSUME KeptApart', NEW g \in Submissions
             PROVE  VerdictsOf(g)'
  BY DEF VerdictsReach
<1>1. Alone /\ VerdictsOf(g)
  BY KeptApartBefore DEF Covered, VerdictsReach
<1>2. ASSUME NEW h \in Submissions, RunStep(h)
      PROVE  VerdictsOf(g)'
  BY <1>1, <1>2, SubmitVerdicts, RunVerdicts, OthersStay
<1>3. ASSUME NEW s \in Selections, PickFiles(s) \/ ClearForm
      PROVE  VerdictsOf(g)'
  <2>1. ~InFlight(g)
    BY <1>1, <1>3, PageReachableAlone DEF PickFiles, ClearForm, PageReachable
  <2>2. ~InFlight(g)' /\ up' = up /\ passed' = passed
    BY <1>3, <2>1 DEF PickFiles, ClearForm, runVars, netVars, InFlight
  <2>3. QED
    BY <1>1, <2>2, VerdictsAtRest
<1>4. CASE Reload
  <2>1. /\ ~InFlight(g)' /\ passed' = passed
        /\ up'[g] = up[g] \/ up'[g] = NoUpload
    BY <1>4 DEF Reload, InFlight, Awaiting, PreGate, PostGate
  <2>2. QED
    BY <1>1, <2>1, VerdictsAtRest
<1>5. CASE /\ UserStep
           /\ ~ClearForm /\ ~Reload /\ \A s \in Selections : ~PickFiles(s)
  <2>1. UNCHANGED <<runVars, netVars, files>>
    BY <1>5 DEF UserStep, CancelClick, SignIn, SignOut, OtherTab
  <2>2. QED
    BY <1>1, <2>1, VerdictsStay DEF runVars, netVars
<1>6. CASE UNCHANGED vars
  BY <1>1, <1>6, VerdictsStay DEF vars, runVars, netVars, pageVars
<1>7. CASE ClearForm
  <2>1. ~InFlight(g)
    BY <1>1, <1>7, PageReachableAlone DEF ClearForm, PageReachable
  <2>2. ~InFlight(g)' /\ up' = up /\ passed' = passed
    BY <1>7, <2>1 DEF ClearForm, runVars, netVars, InFlight
  <2>3. QED
    BY <1>1, <2>2, VerdictsAtRest
<1>8. QED
  BY <1>2, <1>3, <1>4, <1>5, <1>6, <1>7 DEF Next

\* Objects come from uploads, and verdicts are never taken back.
LEMMA StepModerated ==
    ASSUME TypeOK, VerdictsReach, UploadedWereModerated, [Next]_vars
    PROVE  UploadedWereModerated'
<1> SUFFICES ASSUME KeptApart', NEW o \in stored'
             PROVE  o.img \in passed'[o.by]
  BY DEF UploadedWereModerated
<1> USE DEF TypeOK, RunTypeOK, NetTypeOK
<1>1. KeptApart
  BY KeptApartBefore
<1>2. CASE o \in stored /\ passed[o.by] \subseteq passed'[o.by]
  BY <1>1, <1>2 DEF UploadedWereModerated
<1>3. ASSUME NEW h \in Submissions, UploadLands(h), o \notin stored
      PROVE  o.img \in passed'[o.by]
  <2>1. /\ o = [by |-> h, at |-> up[h].at, img |-> up[h].img]
        /\ up[h].st = "sent" /\ passed' = passed
    BY <1>3 DEF UploadLands, runVars
  <2>2. up[h].img \in passed[h]
    BY <1>1, <2>1 DEF VerdictsReach, VerdictsOf
  <2>3. QED
    BY <2>1, <2>2
<1>4. \/ o \in stored /\ passed[o.by] \subseteq passed'[o.by]
      \/ \E h \in Submissions : UploadLands(h)
  <2>0. o \in stored => o.by \in Submissions
    BY DEF Object
  <2>1. ASSUME NEW h \in Submissions, RunStep(h), ~UploadLands(h)
        PROVE  stored' = stored /\ (passed' = passed \/ ModerationSafe(h))
    <3>1. CASE Submit(h)
      BY <3>1 DEF Submit, SubmitProhibitedText, SubmitRefused,
                  SubmitIncomplete, SubmitAccepted, netVars
    <3>2. CASE ModerationSafe(h) \/ ModerationUnsafe(h)
      BY <3>2 DEF ModerationSafe, ModerationUnsafe, netVars
    <3>3. CASE UploadStep(h)
      BY <2>1, <3>3 DEF UploadStep, CompressedOnce, UploadCancelled,
             StartUpload, UploadRefused, UploadTokenRefreshed, UploadSucceeds,
             UploadTimesOut, UploadFails, runVars, netVars
    <3>4. CASE WriteStep(h)
      BY <3>4 DEF WriteStep, SendReport, ReportLands, ReportRejected,
                  ReportAnswered, ReportErrored, runVars, netVars
    <3>5. QED
      BY <2>1, <3>1, <3>2, <3>3, <3>4 DEF RunStep
  <2>2. ASSUME NEW h \in Submissions, ModerationSafe(h), o \in stored
        PROVE  passed[o.by] \subseteq passed'[o.by]
    BY <2>0, <2>2 DEF ModerationSafe
  <2>3. CASE UserStep
    <3>1. UNCHANGED <<stored, passed>>
      BY <2>3 DEF UserStep, CancelClick, PickFiles, ClearForm, SignIn, SignOut,
                  OtherTab, Reload, runVars, netVars
    <3>2. QED
      BY <3>1
  <2>4. CASE UNCHANGED vars
    BY <2>4 DEF vars, runVars, netVars
  <2>5. QED
    BY <2>1, <2>2, <2>3, <2>4 DEF Next
<1>5. QED
  <2>1. CASE \E h \in Submissions : UploadLands(h)
    <3>1. PICK h \in Submissions : UploadLands(h)
      BY <2>1
    <3>2. passed' = passed
      BY <3>1 DEF UploadLands, runVars
    <3>3. QED
      BY <1>2, <1>3, <3>1, <3>2
  <2>2. QED
    BY <1>2, <1>4, <2>1

\* As long as nobody cancels and no upload fails, nothing is uploaded that did
\* not pass moderation in the run that uploads it, for any number of runs,
\* images, tabs and reloads.
THEOREM ModeratedFirst == Spec => []UploadedWereModerated
<1>1. Init => Covered /\ VerdictsReach /\ UploadedWereModerated
  BY DEF Init, Covered, Alone, VerdictsReach, VerdictsOf, NoUpload,
         UploadedWereModerated, InFlight, Awaiting, PreGate, PostGate
<1>2. TypeOK /\ Covered /\ [Next]_vars => Covered'
  BY StepCovered
<1>3. TypeOK /\ Covered /\ VerdictsReach /\ [Next]_vars => VerdictsReach'
  BY StepVerdicts
<1>4. TypeOK /\ VerdictsReach /\ UploadedWereModerated /\ [Next]_vars
        => UploadedWereModerated'
  BY StepModerated
<1>5. QED
  BY <1>1, <1>2, <1>3, <1>4, TypeCorrect, PTL DEF Spec
-----------------------------------------------------------------------------
(***************************************************************************)
(* Frames: what a step of one run leaves to the others, what the user's    *)
(* steps leave to all of them.                                             *)
(***************************************************************************)

LEMMA OthersUntouched ==
    ASSUME TypeOK, NEW h \in Submissions, RunStep(h),
           NEW g \in Submissions, g # h
    PROVE  /\ pc'[g] = pc[g] /\ outcome'[g] = outcome[g]
           /\ author'[g] = author[g] /\ writer'[g] = writer[g]
           /\ urls'[g] = urls[g] /\ imgUrl'[g] = imgUrl[g]
           /\ up'[g] = up[g] /\ req'[g] = req[g] /\ report'[g] = report[g]
<1> USE DEF TypeOK, RunTypeOK, NetTypeOK
<1>1. CASE Submit(h)
  BY <1>1 DEF Submit, SubmitProhibitedText, SubmitRefused, SubmitIncomplete,
              SubmitAccepted, Finish, netVars
<1>2. CASE ModerationSafe(h) \/ ModerationUnsafe(h)
  BY <1>2 DEF ModerationSafe, ModerationUnsafe, EndUploads, EnterWrite,
              Finish, netVars
<1>3. CASE UploadStep(h)
  BY <1>3 DEF UploadStep, CompressedOnce, UploadCancelled, StartUpload,
         UploadRefused, UploadTokenRefreshed, UploadLands, UploadSucceeds,
         UploadTimesOut, UploadFails, ImagesFailed, EndUploads, EnterWrite,
         Finish, runVars, netVars
<1>4. CASE WriteStep(h)
  BY <1>4 DEF WriteStep, SendReport, ReportLands, ReportRejected,
              ReportAnswered, ReportErrored, Finish, runVars, netVars
<1>5. QED
  BY <1>1, <1>2, <1>3, <1>4 DEF RunStep

LEMMA UserUntouched ==
    ASSUME UserStep
    PROVE  /\ UNCHANGED <<outcome, author, writer, urls, imgUrl, req, report,
                          stored>>
           /\ ~Reload => UNCHANGED <<pc, up>>
BY DEF UserStep, CancelClick, PickFiles, ClearForm, SignIn, SignOut, OtherTab,
       Reload, runVars, netVars

-----------------------------------------------------------------------------
(***************************************************************************)
(* Images.  UrlsOwn is inductive: a URL is taken from an upload that       *)
(* Storage has confirmed, and Storage forgets nothing.                     *)
(***************************************************************************)

\* Storage only grows.
LEMMA StorageGrows ==
    ASSUME [Next]_vars
    PROVE  stored \subseteq stored'
<1>1. ASSUME NEW h \in Submissions, RunStep(h)
      PROVE  stored \subseteq stored'
  <2>1. CASE Submit(h)
    BY <2>1 DEF Submit, SubmitProhibitedText, SubmitRefused, SubmitIncomplete,
                SubmitAccepted, netVars
  <2>2. CASE ModerationSafe(h) \/ ModerationUnsafe(h)
    BY <2>2 DEF ModerationSafe, ModerationUnsafe, netVars
  <2>3. CASE UploadStep(h)
    BY <2>3 DEF UploadStep, CompressedOnce, UploadCancelled, StartUpload,
           UploadRefused, UploadTokenRefreshed, UploadLands, UploadSucceeds,
           UploadTimesOut, UploadFails, netVars
  <2>4. CASE WriteStep(h)
    BY <2>4 DEF WriteStep, SendReport, ReportLands, ReportRejected,
                ReportAnswered, ReportErrored, netVars
  <2>5. QED
    BY <1>1, <2>1, <2>2, <2>3, <2>4 DEF RunStep
<1>2. CASE UserStep
  BY <1>2, UserUntouched
<1>3. CASE UNCHANGED vars
  BY <1>3 DEF vars, netVars
<1>4. QED
  BY <1>1, <1>2, <1>3 DEF Next

\* A run that takes no URL keeps its own.
LEMMA UrlsStay ==
    ASSUME NEW h \in Submissions, UrlsOwnOf(h), stored \subseteq stored',
           up'[h] = up[h] \/ up'[h].st # "stored",
           urls'[h] = urls[h], imgUrl'[h] \in {imgUrl[h], NoUrl},
           report'[h] = report[h]
    PROVE  UrlsOwnOf(h)'
BY DEF UrlsOwnOf, Own

\* The loop ends with a list of the run's own objects, empty or not.
LEMMA EndUploadsUrls ==
    ASSUME TypeOK, NEW h \in Submissions, NEW list \in Seq(Object),
           EndUploads(h, list), UrlsOwnOf(h), stored \subseteq stored',
           \A i \in DOMAIN list : list[i] \in Own(h),
           up'[h] = up[h] \/ up'[h].st # "stored", report'[h] = report[h]
    PROVE  UrlsOwnOf(h)'
<1>1. urls'[h] = list
  BY DEF EndUploads, TypeOK, RunTypeOK
<1>2. imgUrl'[h] = IF list = <<>> THEN NoUrl ELSE list[1]
  BY DEF EndUploads, EnterWrite, TypeOK, RunTypeOK
<1>3. imgUrl'[h] \in Own(h) \cup {NoUrl}
  <2>1. list # <<>> => 1 \in DOMAIN list
    OBVIOUS
  <2>2. QED
    BY <1>2, <2>1
<1>4. Own(h) \subseteq Own(h)'
  BY DEF Own
<1>5. QED
  BY <1>1, <1>3, <1>4 DEF UrlsOwnOf

LEMMA RunUrls ==
    ASSUME TypeOK, NEW h \in Submissions, RunStep(h), UrlsOwnOf(h),
           stored \subseteq stored'
    PROVE  UrlsOwnOf(h)'
<1> USE DEF TypeOK, RunTypeOK, NetTypeOK
<1>1. CASE Submit(h)
  <2>1. UNCHANGED <<urls, imgUrl, netVars>>
    BY <1>1 DEF Submit, SubmitProhibitedText, SubmitRefused, SubmitIncomplete,
                SubmitAccepted
  <2>2. QED
    BY <2>1, UrlsStay DEF netVars
<1>2. CASE ModerationSafe(h) \/ ModerationUnsafe(h)
  <2>1. up' = up /\ report' = report
    BY <1>2 DEF ModerationSafe, ModerationUnsafe, netVars
  <2>2. CASE UNCHANGED <<urls, imgUrl>>
    BY <2>1, <2>2, UrlsStay
  <2>3. CASE EndUploads(h, <<>>)
    <3>1. <<>> \in Seq(Object) /\ DOMAIN <<>> = {}
      OBVIOUS
    <3>2. QED
      BY <2>1, <2>3, <3>1, EndUploadsUrls
  <2>4. QED
    BY <1>2, <2>2, <2>3 DEF ModerationSafe, ModerationUnsafe
<1>3. CASE UploadCancelled(h) \/ UploadRefused(h) \/ UploadTimesOut(h)
  <2>1. UNCHANGED <<urls, up, report>> /\ imgUrl'[h] = NoUrl
    BY <1>3 DEF UploadCancelled, UploadRefused, UploadTimesOut, ImagesFailed,
                EnterWrite, netVars
  <2>2. QED
    BY <2>1, UrlsStay
<1>4. CASE CompressedOnce(h) \/ StartUpload(h) \/ UploadTokenRefreshed(h)
  <2>1. /\ UNCHANGED <<urls, imgUrl, report>>
        /\ up'[h] = up[h] \/ up'[h].st # "stored"
    <3>1. CASE CompressedOnce(h)
      BY <3>1 DEF CompressedOnce, netVars
    <3>2. CASE StartUpload(h)
      BY <3>2 DEF StartUpload
    <3>3. CASE UploadTokenRefreshed(h)
      <4>1. up'[h] = [up[h] EXCEPT !.st = "sent"]
        BY <3>3 DEF UploadTokenRefreshed
      <4>2. up'[h].st = "sent"
        BY <4>1 DEF Upload
      <4>3. QED
        BY <3>3, <4>2 DEF UploadTokenRefreshed, runVars
    <3>4. QED
      BY <1>4, <3>1, <3>2, <3>3
  <2>2. QED
    BY <2>1, UrlsStay
<1>5. CASE UploadLands(h)
  <2>1. /\ UNCHANGED <<urls, imgUrl, report>>
        /\ up'[h].at = up[h].at /\ up'[h].img = up[h].img
        /\ [by |-> h, at |-> up[h].at, img |-> up[h].img] \in stored'
    <3>1. UNCHANGED <<urls, imgUrl, report>>
      BY <1>5 DEF UploadLands, runVars
    <3>2. up'[h] = [up[h] EXCEPT !.st = "stored"]
      BY <1>5 DEF UploadLands
    <3>3. [by |-> h, at |-> up[h].at, img |-> up[h].img] \in stored'
      BY <1>5 DEF UploadLands
    <3>4. QED
      BY <3>1, <3>2, <3>3 DEF Upload
  <2>2. QED
    BY <2>1 DEF UrlsOwnOf, Own
<1>6. CASE UploadSucceeds(h)
  <2> DEFINE object == [by |-> h, at |-> up[h].at, img |-> up[h].img]
             list == Append(urls[h], object)
  <2>1. object \in Own(h) /\ object \in Object
    BY <1>6 DEF UploadSucceeds, UploadAnswered, UrlsOwnOf, Own
  <2>2. up'[h].st # "stored" /\ report' = report
    BY <1>6 DEF UploadSucceeds, NoUpload
  <2>3. list \in Seq(Object) /\ \A i \in DOMAIN list : list[i] \in Own(h)
    <3>1. urls[h] \in Seq(Object) /\ \A i \in DOMAIN urls[h] : urls[h][i] \in Own(h)
      BY DEF UrlsOwnOf
    <3> HIDE DEF object
    <3>2. /\ list \in Seq(Object) /\ DOMAIN list = 1..(Len(urls[h]) + 1)
          /\ \A i \in DOMAIN list :
                list[i] = IF i = Len(urls[h]) + 1 THEN object ELSE urls[h][i]
      BY <2>1, <3>1
    <3>3. \A i \in DOMAIN list : i = Len(urls[h]) + 1 \/ i \in DOMAIN urls[h]
      BY <3>1, <3>2
    <3> HIDE DEF list
    <3>4. QED
      BY <2>1, <3>1, <3>2, <3>3
  <2>4. \/ UNCHANGED imgUrl /\ urls' = [urls EXCEPT ![h] = list]
        \/ EndUploads(h, list)
    BY <1>6 DEF UploadSucceeds
  <2> HIDE DEF list
  <2>5. CASE EndUploads(h, list)
    BY <2>2, <2>3, <2>5, EndUploadsUrls
  <2>6. CASE UNCHANGED imgUrl /\ urls' = [urls EXCEPT ![h] = list]
    <3>1. urls'[h] = list /\ Own(h) \subseteq Own(h)'
      BY <2>6 DEF Own
    <3>2. QED
      BY <2>2, <2>3, <2>6, <3>1 DEF UrlsOwnOf
  <2>7. QED
    BY <2>4, <2>5, <2>6
<1>7. CASE UploadFails(h)
  <2>1. up'[h].st # "stored" /\ report' = report
    BY <1>7 DEF UploadFails
  <2>2. urls' = urls /\ imgUrl'[h] \in {imgUrl[h], NoUrl}
    BY <1>7 DEF UploadFails, ImagesFailed, EnterWrite, runVars
  <2>3. QED
    BY <2>1, <2>2, UrlsStay
<1>8. CASE ReportLands(h)
  <2>1. /\ UNCHANGED <<urls, imgUrl, up, stored>>
        /\ report'[h] = Document(h)
    BY <1>8 DEF ReportLands, runVars
  <2>2. report'[h].imageUrl = imgUrl[h]
    BY <2>1 DEF Document
  <2>3. QED
    BY <2>1, <2>2 DEF UrlsOwnOf, Own
<1>9. CASE WriteStep(h) /\ ~ReportLands(h)
  <2>1. UNCHANGED <<urls, imgUrl, up, report>>
    BY <1>9 DEF WriteStep, SendReport, ReportRejected, ReportAnswered,
                ReportErrored, runVars, netVars
  <2>2. QED
    BY <2>1, UrlsStay
<1>10. QED
  BY <1>1, <1>2, <1>3, <1>4, <1>5, <1>6, <1>7, <1>8, <1>9
  DEF RunStep, UploadStep

LEMMA StepUrls ==
    ASSUME TypeOK, UrlsOwn, [Next]_vars
    PROVE  UrlsOwn'
<1> SUFFICES ASSUME NEW g \in Submissions
             PROVE  UrlsOwnOf(g)'
  BY DEF UrlsOwn
<1>1. UrlsOwnOf(g) /\ stored \subseteq stored'
  BY StorageGrows DEF UrlsOwn
<1>2. ASSUME NEW h \in Submissions, RunStep(h)
      PROVE  UrlsOwnOf(g)'
  <2>1. CASE g = h
    BY <1>1, <1>2, <2>1, RunUrls
  <2>2. CASE g # h
    BY <1>1, <1>2, <2>2, OthersUntouched, UrlsStay
  <2>3. QED
    BY <2>1, <2>2
<1>3. CASE UserStep
  <2>1. up'[g] = up[g] \/ up'[g].st # "stored"
    <3>1. CASE Reload
      BY <3>1 DEF Reload, NoUpload
    <3>2. QED
      BY <1>3, <3>1, UserUntouched
  <2>2. QED
    BY <1>1, <1>3, <2>1, UserUntouched, UrlsStay
<1>4. CASE UNCHANGED vars
  BY <1>1, <1>4, UrlsStay DEF vars, runVars, netVars
<1>5. QED
  BY <1>2, <1>3, <1>4 DEF Next

\* The image URL of every published report leads to an object of its own run
\* that Storage holds, whatever timed out, failed or was reloaded, for any
\* number of runs and images.
THEOREM ImagesAreThere == Spec => []ImageUrlResolves
<1>1. Init => UrlsOwn
  <2> SUFFICES ASSUME Init, NEW h \in Submissions
               PROVE  UrlsOwnOf(h)
    BY DEF UrlsOwn
  <2>1. /\ up[h] = NoUpload /\ urls[h] = <<>> /\ imgUrl[h] = NoUrl
        /\ report[h] = NoReport
    BY DEF Init
  <2>2. QED
    BY <2>1 DEF UrlsOwnOf, NoUpload
<1>2. TypeOK /\ UrlsOwn /\ [Next]_vars => UrlsOwn'
  BY StepUrls
<1>3. UrlsOwn => ImageUrlResolves
  BY DEF UrlsOwn, UrlsOwnOf, Own, ImageUrlResolves
<1>4. QED
  BY <1>1, <1>2, <1>3, TypeCorrect, PTL DEF Spec
-----------------------------------------------------------------------------
(***************************************************************************)
(* Accounts.  OneAccount is inductive: a page whose account changes is     *)
(* reloaded first, and a reload ends its runs and token refreshes; where   *)
(* another tab changes it, all that is open is estranged.                  *)
(***************************************************************************)

\* What a step of run h does to the account and to the events: an answer to a
\* token refresh puts back the account the run acts for.
LEMMA RunSession ==
    ASSUME TypeOK, NEW h \in Submissions, RunStep(h), NEW a, RunFor(h, a)
    PROVE  /\ session' \in {session, a}
           /\ leaving => leaving'
<1>1. CASE Submit(h)
  BY <1>1 DEF Submit, SubmitProhibitedText, SubmitRefused, SubmitIncomplete,
              SubmitAccepted, LeavePage
<1>2. CASE ModerationSafe(h) \/ ModerationUnsafe(h)
  BY <1>2 DEF ModerationSafe, ModerationUnsafe, LeavePage
<1>3. CASE UploadTokenRefreshed(h)
  BY <1>3 DEF UploadTokenRefreshed, RunFor
<1>4. CASE UploadStep(h) /\ ~UploadTokenRefreshed(h)
  BY <1>4 DEF UploadStep, CompressedOnce, UploadCancelled, StartUpload,
         UploadRefused, UploadLands, UploadSucceeds, UploadTimesOut,
         UploadFails, pageVars
<1>5. ASSUME NEW ok \in BOOLEAN, SendReport(h, ok)
      PROVE  session' \in {session, a} /\ (leaving => leaving')
  BY <1>5 DEF SendReport, RunFor, PostGate
<1>6. CASE ReportLands(h) \/ ReportRejected(h)
  BY <1>6 DEF ReportLands, ReportRejected, pageVars
<1>7. CASE ReportAnswered(h) \/ ReportErrored(h)
  BY <1>7 DEF ReportAnswered, ReportErrored
<1>8. QED
  BY <1>1, <1>2, <1>3, <1>4, <1>5, <1>6, <1>7 DEF RunStep, WriteStep

\* A run that was not about to write writes as the account of the page.
LEMMA EnterWriteFor ==
    ASSUME TypeOK, NEW h \in Submissions, NEW url, NEW freed,
           EnterWrite(h, url, freed), NEW a, RunFor(h, a),
           pc[h] \in PreGate, session \in {a, NoUser}, session' = session,
           author' = author, up'[h] = up[h] \/ up'[h].st # "refresh",
           leaving => leaving'
    PROVE  RunFor(h, a)'
<1> USE DEF TypeOK, RunTypeOK
<1>1. InFlight(h) /\ author'[h] = a
  BY DEF RunFor, InFlight, Awaiting
<1>2. CASE MayWrite
  <2>1. session = a /\ session' # NoUser
    BY <1>2 DEF MayWrite
  <2>2. writer'[h] = a
    BY <1>2, <2>1 DEF EnterWrite
  <2>3. QED
    BY <1>1, <2>1, <2>2 DEF RunFor
<1>3. CASE ~MayWrite
  <2>1. pc'[h] = "done"
    BY <1>3 DEF EnterWrite, Finish
  <2>2. QED
    BY <2>1 DEF RunFor, InFlight, Awaiting, PreGate, PostGate
<1>4. QED
  BY <1>2, <1>3

\* A run that goes on as it is, or ends.
LEMMA RunForStays ==
    ASSUME NEW h \in Submissions, NEW a, RunFor(h, a),
           session \in {a, NoUser}, session' \in {session, a},
           leaving => leaving',
           author'[h] = author[h], writer'[h] = writer[h],
           up'[h] = up[h] \/ up'[h].st # "refresh",
           InFlight(h)' => InFlight(h), pc'[h] \in PostGate => pc[h] \in PostGate
    PROVE  RunFor(h, a)'
BY DEF RunFor

LEMMA RunKeepsAccount ==
    ASSUME TypeOK, NEW h \in Submissions, RunStep(h), NEW a, RunFor(h, a),
           session \in {a, NoUser}
    PROVE  RunFor(h, a)'
<1> USE DEF TypeOK, RunTypeOK, NetTypeOK
<1>1. session' \in {session, a} /\ (leaving => leaving')
  BY RunSession
<1>2. CASE Submit(h) /\ ~SubmitAccepted(h)
  <2>1. pc'[h] = "done" /\ UNCHANGED <<author, writer, up>>
    BY <1>2 DEF Submit, SubmitProhibitedText, SubmitRefused, SubmitIncomplete,
                Finish, netVars
  <2>2. QED
    BY <1>1, <2>1, RunForStays DEF InFlight, Awaiting, PreGate, PostGate
<1>3. CASE SubmitAccepted(h)
  <2>1. session = a /\ session' = a /\ a # NoUser
    BY <1>3, UsersAssumption DEF SubmitAccepted
  <2>2. author'[h] = a /\ up' = up
    BY <1>3, <2>1 DEF SubmitAccepted, netVars
  <2>3. pc'[h] \in PostGate => writer'[h] = a
    BY <1>3, <2>1 DEF SubmitAccepted, PostGate
  <2>4. QED
    BY <2>1, <2>2, <2>3 DEF RunFor
<1>4. CASE ModerationSafe(h)
  <2>1. /\ pc[h] = "moderate" /\ UNCHANGED <<author, up, session>>
    BY <1>4 DEF ModerationSafe, netVars
  <2>2. CASE EndUploads(h, <<>>)
    BY <1>1, <2>1, <2>2, EnterWriteFor DEF EndUploads, PreGate
  <2>3. CASE UNCHANGED writer /\ pc'[h] \in {"moderate", "compress"}
    BY <1>1, <2>1, <2>3, RunForStays DEF InFlight, Awaiting, PreGate, PostGate
  <2>4. QED
    BY <1>4, <2>1, <2>2, <2>3 DEF ModerationSafe
<1>5. CASE ModerationUnsafe(h)
  <2>1. pc'[h] = "done" /\ UNCHANGED <<author, writer, up>>
    BY <1>5 DEF ModerationUnsafe, Finish, netVars
  <2>2. QED
    BY <1>1, <2>1, RunForStays DEF InFlight, Awaiting, PreGate, PostGate
<1>6. CASE CompressedOnce(h)
  <2>1. /\ pc[h] = "compress" /\ pc'[h] = "recompress"
        /\ UNCHANGED <<author, writer, up>>
    BY <1>6 DEF CompressedOnce, netVars
  <2>2. QED
    BY <1>1, <2>1, RunForStays DEF InFlight, Awaiting, PreGate, PostGate
<1>7. CASE StartUpload(h)
  <2>1. /\ pc[h] = "recompress" /\ pc'[h] = "upload"
        /\ UNCHANGED <<author, writer>> /\ session' = session
        /\ up'[h].user = session /\ session # NoUser
    BY <1>7 DEF StartUpload, pageVars
  <2>2. QED
    BY <1>1, <2>1 DEF RunFor, InFlight, Awaiting, PreGate, PostGate
<1>8. CASE UploadCancelled(h) \/ UploadRefused(h) \/ UploadTimesOut(h)
  <2>1. /\ pc[h] \in PreGate /\ EnterWrite(h, NoUrl, TRUE)
        /\ UNCHANGED <<author, up, session>>
    BY <1>8 DEF UploadCancelled, UploadRefused, UploadTimesOut, UploadTimer,
                ImagesFailed, PreGate, netVars
  <2>2. QED
    BY <1>1, <2>1, EnterWriteFor
<1>9. CASE UploadTokenRefreshed(h) \/ UploadLands(h)
  <2>1. UNCHANGED <<pc, author, writer>>
    BY <1>9 DEF UploadTokenRefreshed, UploadLands, runVars
  <2>2. up'[h].st # "refresh"
    <3>1. \E st \in {"sent", "stored"} : up'[h] = [up[h] EXCEPT !.st = st]
      BY <1>9 DEF UploadTokenRefreshed, UploadLands
    <3>2. QED
      BY <3>1 DEF Upload
  <2>3. QED
    BY <1>1, <2>1, <2>2, RunForStays DEF InFlight
<1>10. CASE UploadSucceeds(h)
  <2>1. /\ pc[h] = "upload" /\ UNCHANGED <<author, session>>
        /\ up'[h].st # "refresh"
    BY <1>10 DEF UploadSucceeds, NoUpload
  <2>2. ASSUME NEW list, EndUploads(h, list)
        PROVE  RunFor(h, a)'
    BY <1>1, <2>1, <2>2, EnterWriteFor DEF EndUploads, PreGate
  <2>3. CASE UNCHANGED writer /\ pc'[h] = "compress"
    BY <1>1, <2>1, <2>3, RunForStays DEF InFlight, Awaiting, PreGate, PostGate
  <2>4. QED
    BY <1>10, <2>2, <2>3 DEF UploadSucceeds
<1>11. CASE UploadFails(h)
  <2>1. up'[h].st # "refresh" /\ UNCHANGED <<author, session>>
    <3>1. up'[h] = [up[h] EXCEPT !.st = "failed"]
      BY <1>11 DEF UploadFails
    <3>2. up'[h].st = "failed"
      BY <3>1 DEF Upload
    <3>3. QED
      BY <1>11, <3>2 DEF UploadFails, runVars
  <2>2. CASE pc[h] = "upload" /\ ImagesFailed(h)
    BY <1>1, <2>1, <2>2, EnterWriteFor DEF ImagesFailed, PreGate
  <2>3. CASE UNCHANGED runVars
    BY <1>1, <2>1, <2>3, RunForStays DEF InFlight, runVars
  <2>4. QED
    BY <1>11, <2>2, <2>3 DEF UploadFails
<1>12. CASE WriteStep(h)
  <2>1. /\ UNCHANGED <<author, writer, up>>
        /\ \/ pc'[h] = pc[h]
           \/ pc[h] = "refresh" /\ pc'[h] = "post"
           \/ pc'[h] = "done"
    BY <1>12 DEF WriteStep, SendReport, ReportLands, ReportRejected,
                 ReportAnswered, ReportErrored, Finish, runVars, netVars
  <2>2. QED
    BY <1>1, <2>1, RunForStays DEF InFlight, Awaiting, PreGate, PostGate
<1>13. QED
  BY <1>2, <1>3, <1>4, <1>5, <1>6, <1>7, <1>8, <1>9, <1>10, <1>11, <1>12
  DEF RunStep, Submit, UploadStep

\* A step of a run keeps every run with the account of the page.
LEMMA RunActsFor ==
    ASSUME TypeOK, NEW h \in Submissions, RunStep(h), NEW a, ActsFor(a)
    PROVE  ActsFor(a)'
<1>1. session' \in {session, a} /\ (leaving => leaving')
  BY RunSession DEF ActsFor
<1>2. ASSUME NEW g \in Submissions
      PROVE  RunFor(g, a)'
  <2>1. CASE g = h
    BY <2>1, RunKeepsAccount DEF ActsFor
  <2>2. CASE g # h
    BY <1>1, <2>2, OthersUntouched, RunForStays DEF ActsFor, InFlight
  <2>3. QED
    BY <2>1, <2>2
<1>3. QED
  BY <1>1, <1>2 DEF ActsFor

\* So does the user in this tab; a sign-in finds no run and no refresh alive.
LEMMA UserActsFor ==
    ASSUME TypeOK, UserStep, \E a \in Users \cup {NoUser} : ActsFor(a),
           \A u \in Users \cup {NoUser} : ~OtherTab(u)
    PROVE  \E a \in Users \cup {NoUser} : ActsFor(a)'
<1>1. PICK a \in Users \cup {NoUser} : ActsFor(a)
  OBVIOUS
<1>2. ASSUME NEW u \in Users, SignIn(u)
      PROVE  ActsFor(u)'
  <2>1. /\ session = NoUser /\ ~leaving /\ session' = u
        /\ UNCHANGED <<pc, up>>
    BY <1>2 DEF SignIn, runVars, netVars
  <2>2. \A g \in Submissions : ~InFlight(g) /\ up[g].st # "refresh"
    BY <1>1, <2>1 DEF ActsFor, RunFor
  <2>3. u # NoUser
    BY UsersAssumption
  <2>4. \A g \in Submissions : ~InFlight(g)' /\ up'[g].st # "refresh"
    BY <2>1, <2>2 DEF InFlight
  <2>5. QED
    BY <2>1, <2>3, <2>4 DEF ActsFor, RunFor, InFlight, Awaiting
<1>3. CASE SignOut
  BY <1>1, <1>3 DEF SignOut, LeavePage, ActsFor, RunFor, InFlight, runVars,
                    netVars
<1>4. CASE Reload
  <2>1. \A g \in Submissions : ~InFlight(g)' /\ up'[g].st # "refresh"
    BY <1>4 DEF Reload, InFlight, Awaiting, PreGate, PostGate, NoUpload
  <2>2. session' = session
    BY <1>4 DEF Reload
  <2>3. QED
    BY <1>1, <2>1, <2>2 DEF ActsFor, RunFor, InFlight, Awaiting
<1>5. CASE CancelClick \/ ClearForm \/ \E s \in Selections : PickFiles(s)
  <2>1. UNCHANGED <<pc, author, writer, up, session, leaving>>
    BY <1>5 DEF CancelClick, ClearForm, PickFiles, runVars, netVars
  <2>2. QED
    BY <1>1, <2>1 DEF ActsFor, RunFor, InFlight
<1>6. QED
  BY <1>1, <1>2, <1>3, <1>4, <1>5 DEF UserStep

\* Author and writer are fixed before the request is sent, and agree then.
LEMMA RunAuthors ==
    ASSUME TypeOK, RunShape, NEW h \in Submissions, RunStep(h),
           NEW a, RunFor(h, a), req[h] # "none" => author[h] = writer[h],
           req'[h] # "none"
    PROVE  author'[h] = writer'[h]
<1> USE DEF TypeOK, RunTypeOK, NetTypeOK
<1>1. pc[h] \in PreGate \cup {"idle", "refresh"} => req[h] = "none"
  BY DEF RunShape, RunShapeOf
<1>2. ASSUME NEW ok \in BOOLEAN, SendReport(h, ok)
      PROVE  author'[h] = writer'[h]
  BY <1>2 DEF SendReport, RunFor, InFlight, Awaiting, PostGate
<1>3. CASE Submit(h)
  BY <1>1, <1>3 DEF Submit, SubmitProhibitedText, SubmitRefused,
     SubmitIncomplete, SubmitAccepted, CanSubmit, netVars
<1>4. CASE ModerationSafe(h) \/ ModerationUnsafe(h)
  BY <1>1, <1>4 DEF ModerationSafe, ModerationUnsafe, PreGate, netVars
<1>5. CASE UploadStep(h)
  <2>1. req' = req
    BY <1>5 DEF UploadStep, CompressedOnce, UploadCancelled, StartUpload,
           UploadRefused, UploadTokenRefreshed, UploadLands, UploadSucceeds,
           UploadTimesOut, UploadFails, netVars
  <2>2. pc[h] \in PreGate \/ UNCHANGED <<author, writer>>
    BY <1>5 DEF UploadStep, CompressedOnce, UploadCancelled, StartUpload,
           UploadRefused, UploadTokenRefreshed, UploadLands, UploadSucceeds,
           UploadTimesOut, UploadFails, UploadTimer, PreGate, runVars
  <2>3. QED
    BY <1>1, <2>1, <2>2
<1>6. CASE ReportLands(h) \/ ReportRejected(h) \/ ReportAnswered(h)
              \/ ReportErrored(h)
  <2>1. req[h] # "none" /\ UNCHANGED <<author, writer>>
    BY <1>6 DEF ReportLands, ReportRejected, ReportAnswered, ReportErrored,
                runVars, netVars
  <2>2. QED
    BY <2>1
<1>7. QED
  BY <1>2, <1>3, <1>4, <1>5, <1>6 DEF RunStep, WriteStep

\* A run leaves the history of other tabs alone, and does not come to life
\* again; one that is over has its author, its writer and its request.
LEMMA RunOpens ==
    ASSUME TypeOK, NEW h \in Submissions, RunStep(h)
    PROVE  /\ estranged' = estranged
           /\ pc'[h] = "idle" \/ Acting(h)' => pc[h] = "idle" \/ Acting(h)
           /\ ~(pc[h] = "idle" \/ Acting(h)) =>
                 /\ UNCHANGED <<author, writer>>
                 /\ req'[h] # "none" => req[h] # "none"
<1> USE DEF TypeOK, RunTypeOK, NetTypeOK, Acting, InFlight, Awaiting, PreGate, PostGate
<1>1. CASE Submit(h)
  BY <1>1 DEF Submit, SubmitProhibitedText, SubmitRefused, SubmitIncomplete,
              SubmitAccepted, CanSubmit, histVars
<1>2. CASE ModerationSafe(h) \/ ModerationUnsafe(h)
  BY <1>2 DEF ModerationSafe, ModerationUnsafe, histVars
<1>3. CASE CompressedOnce(h) \/ UploadCancelled(h) \/ StartUpload(h)
           \/ UploadRefused(h) \/ UploadSucceeds(h) \/ UploadTimesOut(h)
  BY <1>3 DEF CompressedOnce, UploadCancelled, StartUpload, UploadRefused,
              UploadSucceeds, UploadTimesOut, UploadTimer, histVars
<1>4. CASE UploadTokenRefreshed(h)
  BY <1>4 DEF UploadTokenRefreshed, runVars, histVars
<1>5. CASE UploadLands(h)
  <2>1. up'[h] = [up[h] EXCEPT !.st = "stored"]
    BY <1>5 DEF UploadLands
  <2>2. up'[h].st # "refresh"
    BY <2>1 DEF Upload
  <2>3. QED
    BY <1>5, <2>2 DEF UploadLands, runVars, histVars
<1>6. CASE UploadFails(h)
  <2>1. up'[h] = [up[h] EXCEPT !.st = "failed"]
    BY <1>6 DEF UploadFails
  <2>2. up'[h].st # "refresh" /\ estranged' = estranged /\ req' = req
    BY <1>6, <2>1 DEF UploadFails, Upload
  <2>3. QED
    BY <1>6, <2>2 DEF UploadFails, runVars
<1>7. ASSUME NEW ok \in BOOLEAN, SendReport(h, ok)
      PROVE  estranged' = estranged /\ InFlight(h)
  BY <1>7 DEF SendReport, histVars
<1>8. CASE ReportLands(h) \/ ReportRejected(h)
  BY <1>8 DEF ReportLands, ReportRejected, runVars, histVars
<1>9. CASE ReportAnswered(h) \/ ReportErrored(h)
  BY <1>9 DEF ReportAnswered, ReportErrored, histVars
<1>10. QED
  BY <1>1, <1>2, <1>3, <1>4, <1>5, <1>6, <1>7, <1>8, <1>9
     DEF RunStep, UploadStep, WriteStep

\* An estranged page stays one until it is loaded again, which ends all runs.
LEMMA EstrangedStep ==
    ASSUME TypeOK, [Next]_vars, EstrangedPage
    PROVE  EstrangedPage' \/ \E a \in Users \cup {NoUser} : ActsFor(a)'
<1>1. ASSUME NEW h \in Submissions, RunStep(h)
      PROVE  EstrangedPage'
  <2>1. ASSUME NEW g \in Submissions, pc'[g] = "idle" \/ Acting(g)'
        PROVE  pc[g] = "idle" \/ Acting(g)
    BY <1>1, <2>1, RunOpens, OthersUntouched DEF Acting, InFlight
  <2>2. QED
    BY <1>1, <2>1, RunOpens DEF EstrangedPage
<1>2. CASE Reload
  <2>1. \A g \in Submissions : ~InFlight(g)' /\ up'[g].st # "refresh"
    BY <1>2 DEF Reload, InFlight, Awaiting, PreGate, PostGate, NoUpload
  <2>2. session' \in Users \cup {NoUser}
    BY <1>2 DEF Reload, TypeOK, PageTypeOK
  <2>3. ActsFor(session)'
    BY <2>1 DEF ActsFor, RunFor, InFlight, Awaiting
  <2>4. QED
    BY <2>2, <2>3 DEF ActsFor, RunFor, InFlight
<1>3. CASE UserStep /\ ~Reload
  <2>1. UNCHANGED <<pc, up>>
    BY <1>3, UserUntouched
  <2>2. estranged \subseteq estranged'
    BY <1>3 DEF UserStep, CancelClick, PickFiles, ClearForm, SignIn, SignOut,
                OtherTab, histVars
  <2>3. QED
    BY <2>1, <2>2 DEF EstrangedPage, Acting, InFlight
<1>4. CASE UNCHANGED vars
  BY <1>4 DEF vars, runVars, netVars, histVars, EstrangedPage, Acting, InFlight
<1>5. QED
  BY <1>1, <1>2, <1>3, <1>4 DEF Next

\* Only a reload takes submissions off an estranged page, and only those that
\* have not begun.
LEMMA EstrangedBefore ==
    ASSUME TypeOK, [Next]_vars, NEW g \in Submissions, g \in estranged, g \notin estranged'
    PROVE  pc[g] = "idle" /\ UNCHANGED <<author, writer, req, report>>
<1>1. ASSUME NEW h \in Submissions, RunStep(h)
      PROVE  FALSE
  BY <1>1, RunOpens
<1>2. CASE UserStep
  BY <1>2, UserUntouched DEF UserStep, CancelClick, PickFiles, ClearForm, SignIn,
                             SignOut, OtherTab, Reload, histVars
<1>3. CASE UNCHANGED vars
  BY <1>3 DEF vars, histVars
<1>4. QED
  BY <1>1, <1>2, <1>3 DEF Next

LEMMA StepAccount ==
    ASSUME TypeOK, RunShape, OneAccount, [Next]_vars
    PROVE  OneAccount'
<1>1. EstrangedPage' \/ \E a \in Users \cup {NoUser} : ActsFor(a)'
  <2>1. CASE EstrangedPage
    BY <2>1, EstrangedStep
  <2>2. ASSUME NEW a \in Users \cup {NoUser}, ActsFor(a), NEW h \in Submissions, RunStep(h)
        PROVE  ActsFor(a)'
    BY <2>2, RunActsFor
  <2>3. ASSUME NEW u \in Users \cup {NoUser}, OtherTab(u)
        PROVE  EstrangedPage'
    BY <2>3 DEF OtherTab, EstrangedPage, Acting, InFlight, runVars, netVars
  <2>4. ASSUME NEW a \in Users \cup {NoUser}, ActsFor(a), UserStep
        PROVE  EstrangedPage' \/ \E b \in Users \cup {NoUser} : ActsFor(b)'
    BY <2>3, <2>4, UserActsFor
  <2>5. ASSUME NEW a \in Users \cup {NoUser}, ActsFor(a), UNCHANGED vars
        PROVE  ActsFor(a)'
    BY <2>5 DEF vars, runVars, netVars, pageVars, ActsFor, RunFor, InFlight
  <2>6. QED
    BY <2>1, <2>2, <2>4, <2>5 DEF OneAccount, Next
<1>2. ASSUME NEW g \in Submissions, g \notin estranged', req'[g] # "none"
      PROVE  author'[g] = writer'[g]
  <2>1. CASE g \in estranged
    BY <1>2, <2>1, EstrangedBefore DEF RunShape, RunShapeOf
  <2>2. g \notin estranged /\ req[g] # "none" => author[g] = writer[g]
    BY DEF OneAccount
  <2>3. ASSUME NEW h \in Submissions, RunStep(h), g \notin estranged, g # h
        PROVE  author'[g] = writer'[g]
    BY <1>2, <2>2, <2>3, OthersUntouched
  <2>4. CASE RunStep(g) /\ g \notin estranged /\ EstrangedPage
    BY <1>2, <2>2, <2>4, RunOpens DEF EstrangedPage
  <2>5. ASSUME RunStep(g), g \notin estranged, NEW a \in Users \cup {NoUser}, ActsFor(a)
        PROVE  author'[g] = writer'[g]
    BY <1>2, <2>2, <2>5, RunAuthors DEF ActsFor
  <2>6. CASE (UserStep \/ UNCHANGED vars) /\ g \notin estranged
    BY <1>2, <2>2, <2>6, UserUntouched DEF vars, runVars, netVars
  <2>7. QED
    BY <2>1, <2>3, <2>4, <2>5, <2>6 DEF OneAccount, Next
<1>3. QED
  BY <1>1, <1>2 DEF OneAccount

\* Who has not begun has no report.
Begun == \A h \in Submissions : pc[h] = "idle" => report[h] = NoReport

LEMMA RunBegins ==
    ASSUME TypeOK, RunShape, NEW h \in Submissions, RunStep(h), pc'[h] = "idle"
    PROVE  pc[h] = "idle" /\ report'[h] = report[h]
<1> USE DEF TypeOK, RunTypeOK, NetTypeOK, RunShape, RunShapeOf
<1>1. CASE Submit(h)
  BY <1>1 DEF Submit, SubmitProhibitedText, SubmitRefused, SubmitIncomplete,
              SubmitAccepted, Finish
<1>2. CASE ModerationSafe(h) \/ ModerationUnsafe(h)
  BY <1>2 DEF ModerationSafe, ModerationUnsafe, EndUploads, EnterWrite, Finish
<1>3. CASE UploadStep(h)
  BY <1>3 DEF UploadStep, CompressedOnce, UploadCancelled, StartUpload,
         UploadRefused, UploadTokenRefreshed, UploadLands, UploadSucceeds,
         UploadTimesOut, UploadFails, UploadTimer, ImagesFailed, EndUploads,
         EnterWrite, Finish, runVars, netVars
<1>4. CASE WriteStep(h)
  BY <1>4 DEF WriteStep, SendReport, ReportLands, ReportRejected, ReportAnswered,
         ReportErrored, Finish, runVars
<1>5. QED
  BY <1>1, <1>2, <1>3, <1>4 DEF RunStep

LEMMA StepBegun ==
    ASSUME TypeOK, RunShape, Begun, [Next]_vars
    PROVE  Begun'
<1>1. ASSUME NEW h \in Submissions, RunStep(h)
      PROVE  Begun'
  BY <1>1, RunBegins, OthersUntouched DEF Begun
<1>2. CASE UserStep
  <2>1. \A g \in Submissions : pc'[g] = "idle" => pc[g] = "idle"
    BY <1>2, UserUntouched DEF Reload, InFlight, TypeOK, RunTypeOK
  <2>2. QED
    BY <1>2, <2>1, UserUntouched DEF Begun
<1>3. CASE UNCHANGED vars
  BY <1>3 DEF vars, runVars, netVars, Begun
<1>4. QED
  BY <1>1, <1>2, <1>3 DEF Next

\* What is on the board was committed from what the run had then.
LEMMA StepWriter ==
    ASSUME TypeOK, OneAccount, Begun, AuthorIsWriter, [Next]_vars
    PROVE  AuthorIsWriter'
<1> SUFFICES ASSUME NEW g \in Submissions, g \notin estranged', report'[g] # NoReport
             PROVE  report'[g].author = report'[g].writer
  BY DEF AuthorIsWriter
<1> USE DEF TypeOK, RunTypeOK, NetTypeOK
<1>1. g \notin estranged
  BY EstrangedBefore DEF Begun
<1>2. report'[g] = report[g] \/ ReportLands(g)
  <2>1. ASSUME NEW h \in Submissions, RunStep(h), g # h
        PROVE  report'[g] = report[g]
    BY <2>1, OthersUntouched
  <2>2. CASE RunStep(g)
    <3>1. CASE Submit(g)
      BY <3>1 DEF Submit, SubmitProhibitedText, SubmitRefused,
                  SubmitIncomplete, SubmitAccepted, netVars
    <3>2. CASE ModerationSafe(g) \/ ModerationUnsafe(g)
      BY <3>2 DEF ModerationSafe, ModerationUnsafe, netVars
    <3>3. CASE UploadStep(g)
      BY <3>3 DEF UploadStep, CompressedOnce, UploadCancelled, StartUpload,
             UploadRefused, UploadTokenRefreshed, UploadLands, UploadSucceeds,
             UploadTimesOut, UploadFails, netVars
    <3>4. CASE WriteStep(g) /\ ~ReportLands(g)
      BY <3>4 DEF WriteStep, SendReport, ReportRejected, ReportAnswered,
                  ReportErrored, netVars
    <3>5. QED
      BY <2>2, <3>1, <3>2, <3>3, <3>4 DEF RunStep
  <2>3. CASE UserStep
    BY <2>3, UserUntouched
  <2>4. CASE UNCHANGED vars
    BY <2>4 DEF vars, netVars
  <2>5. QED
    BY <2>1, <2>2, <2>3, <2>4 DEF Next
<1>3. CASE report'[g] = report[g]
  BY <1>1, <1>3 DEF AuthorIsWriter
<1>4. CASE ReportLands(g)
  <2>1. report'[g] = Document(g) /\ req[g] = "sent"
    BY <1>4 DEF ReportLands
  <2>2. author[g] = writer[g]
    BY <1>1, <2>1 DEF OneAccount
  <2>3. QED
    BY <2>1, <2>2 DEF Document
<1>5. QED
  BY <1>2, <1>3, <1>4

\* A report is posted by the account it names as its author, unless its page
\* was open when another tab changed the account, for any number of runs,
\* accounts and reloads.
THEOREM AuthorsWrite == Spec => []AuthorIsWriter
<1>1. Init => TypeOK /\ RunShape
  BY InitType
<1>2. Init => OneAccount /\ Begun /\ AuthorIsWriter
  <2>1. Init => ActsFor(session)
    BY DEF Init, ActsFor, RunFor, InFlight, Awaiting, PreGate, PostGate, NoUpload
  <2>2. QED
    BY <2>1 DEF Init, OneAccount, AuthorIsWriter, Begun
<1>3. TypeOK /\ RunShape /\ [Next]_vars => (TypeOK /\ RunShape)'
  BY StepType
<1>4. TypeOK /\ RunShape /\ OneAccount /\ [Next]_vars => OneAccount'
  BY StepAccount
<1>5. TypeOK /\ RunShape /\ Begun /\ [Next]_vars => Begun'
  BY StepBegun
<1>6. TypeOK /\ OneAccount /\ Begun /\ AuthorIsWriter /\ [Next]_vars => AuthorIsWriter'
  BY StepWriter
<1>7. QED
  BY <1>1, <1>2, <1>3, <1>4, <1>5, <1>6, PTL DEF Spec

\* A run changes the account only with the answer to a token refresh.
LEMMA RunChangesSession ==
    ASSUME TypeOK, NEW h \in Submissions, RunStep(h), session' # session
    PROVE  Refreshed(h)
<1> USE DEF TypeOK, RunTypeOK, NetTypeOK
<1>1. CASE UploadTokenRefreshed(h)
  <2>1. up'[h] = [up[h] EXCEPT !.st = "sent"] /\ up[h].st = "refresh"
    BY <1>1 DEF UploadTokenRefreshed
  <2>2. QED
    BY <2>1 DEF Upload, Refreshed
<1>2. ASSUME NEW ok \in BOOLEAN, SendReport(h, ok)
      PROVE  Refreshed(h)
  BY <1>2 DEF SendReport, Refreshed
<1>3. CASE Submit(h)
  BY <1>3 DEF Submit, SubmitProhibitedText, SubmitRefused, SubmitIncomplete, SubmitAccepted
<1>4. CASE ModerationSafe(h) \/ ModerationUnsafe(h)
  BY <1>4 DEF ModerationSafe, ModerationUnsafe
<1>5. CASE UploadStep(h) /\ ~UploadTokenRefreshed(h)
  BY <1>5 DEF UploadStep, CompressedOnce, UploadCancelled, StartUpload,
         UploadRefused, UploadLands, UploadSucceeds, UploadTimesOut,
         UploadFails, pageVars
<1>6. CASE WriteStep(h) /\ \A ok \in BOOLEAN : ~SendReport(h, ok)
  BY <1>6 DEF WriteStep, ReportLands, ReportRejected, ReportAnswered, ReportErrored, pageVars
<1>7. QED
  BY <1>1, <1>2, <1>3, <1>4, <1>5, <1>6 DEF RunStep

\* On a page that acts for one account a run never makes one account out of
\* another; on an estranged page, what answers is estranged.
LEMMA StepSwap ==
    ASSUME TypeOK, OneAccount, [Next]_vars,
           session' \notin {session, NoUser}, session # NoUser
    PROVE  \E h \in estranged : Refreshed(h)
<1>1. ASSUME NEW h \in Submissions, RunStep(h), NEW a \in Users \cup {NoUser}, ActsFor(a)
      PROVE  FALSE
  BY <1>1, RunSession DEF ActsFor
<1>2. ASSUME NEW h \in Submissions, RunStep(h), EstrangedPage
      PROVE  \E g \in estranged : Refreshed(g)
  <2>1. Refreshed(h)
    BY <1>2, RunChangesSession
  <2>2. Acting(h)
    BY <2>1 DEF Refreshed, Acting, InFlight, Awaiting, PostGate
  <2>3. QED
    BY <1>2, <2>1, <2>2 DEF EstrangedPage
<1>3. CASE UserStep
  BY <1>3 DEF UserStep, CancelClick, PickFiles, ClearForm, SignIn, SignOut,
              OtherTab, Reload
<1>4. CASE UNCHANGED vars
  BY <1>4 DEF vars, pageVars
<1>5. QED
  BY <1>1, <1>2, <1>3, <1>4 DEF Next, OneAccount

\* The refreshes write back a user read long before.  Still no account takes
\* the place of another in localStorage without a sign-out, but on a page that
\* was open when another tab changed the account.
THEOREM NoAccountIsSwapped == Spec => AccountsDoNotSwap
<1>1. Init => TypeOK /\ RunShape
  BY InitType
<1>2. Init => OneAccount
  <2>1. Init => ActsFor(session)
    BY DEF Init, ActsFor, RunFor, InFlight, Awaiting, PreGate, PostGate, NoUpload
  <2>2. QED
    BY <2>1 DEF Init, OneAccount
<1>3. TypeOK /\ RunShape /\ [Next]_vars => (TypeOK /\ RunShape)'
  BY StepType
<1>4. TypeOK /\ RunShape /\ OneAccount /\ [Next]_vars => OneAccount'
  BY StepAccount
<1>5. TypeOK /\ OneAccount /\ [Next]_vars =>
         [ session' \notin {session, NoUser} /\ session # NoUser =>
             \E h \in estranged : Refreshed(h) ]_vars
  BY StepSwap
<1>6. QED
  BY <1>1, <1>2, <1>3, <1>4, <1>5, PTL DEF Spec, AccountsDoNotSwap

-----------------------------------------------------------------------------
(***************************************************************************)
(* The page is given back.  PageIsGivenBack is inductive: a step of a run  *)
(* frees the page, leaves the run in flight, is the click on an incomplete *)
(* form, or moves neither the runs nor the popup.                          *)
(***************************************************************************)

KeepsOrFrees(h) ==
    \/ ~busy'
    \/ InFlight(h)'
    \/ outcome'[h] = "incomplete"
    \/ UNCHANGED <<pc, outcome, busy>>

\* The way to the write leaves the run in flight or frees the page.
LEMMA EnterWriteFrees ==
    ASSUME TypeOK, NEW h \in Submissions, NEW url, NEW freed,
           EnterWrite(h, url, freed)
    PROVE  KeepsOrFrees(h)
BY DEF EnterWrite, FreePage, KeepsOrFrees, InFlight, Awaiting, PostGate,
       TypeOK, RunTypeOK

LEMMA RunGivesBack ==
    ASSUME TypeOK, NEW h \in Submissions, RunStep(h)
    PROVE  KeepsOrFrees(h)
<1> USE DEF TypeOK, RunTypeOK, KeepsOrFrees
<1>1. CASE Submit(h)
  BY <1>1 DEF Submit, SubmitProhibitedText, SubmitRefused, SubmitIncomplete,
              SubmitAccepted, CanSubmit, Finish, FreePage, InFlight, Awaiting,
              PreGate, PostGate
<1>2. CASE ModerationSafe(h)
  <2>1. CASE EndUploads(h, <<>>)
    BY <2>1, EnterWriteFrees DEF EndUploads
  <2>2. CASE pc' \in {pc, [pc EXCEPT ![h] = "compress"]}
    BY <1>2, <2>2 DEF ModerationSafe, InFlight, Awaiting, PreGate
  <2>3. QED
    BY <1>2, <2>1, <2>2 DEF ModerationSafe
<1>3. CASE ModerationUnsafe(h)
  BY <1>3 DEF ModerationUnsafe, FreePage
<1>4. CASE CompressedOnce(h) \/ StartUpload(h)
  BY <1>4 DEF CompressedOnce, StartUpload, InFlight, Awaiting, PreGate
<1>5. CASE ImagesFailed(h)
  BY <1>5, EnterWriteFrees DEF ImagesFailed
<1>6. CASE UploadTokenRefreshed(h) \/ UploadLands(h)
  BY <1>6 DEF UploadTokenRefreshed, UploadLands, runVars, pageVars
<1>7. CASE UploadSucceeds(h)
  <2>1. ASSUME NEW list, EndUploads(h, list)
        PROVE  KeepsOrFrees(h)
    BY <2>1, EnterWriteFrees DEF EndUploads
  <2>2. CASE pc' = [pc EXCEPT ![h] = "compress"]
    BY <2>2 DEF InFlight, Awaiting, PreGate
  <2>3. QED
    BY <1>7, <2>1, <2>2 DEF UploadSucceeds
<1>8. CASE UNCHANGED <<runVars, busy>>
  BY <1>8 DEF runVars
<1>9. CASE UploadStep(h)
  BY <1>4, <1>5, <1>6, <1>7, <1>8, <1>9
  DEF UploadStep, UploadCancelled, UploadRefused, UploadTimesOut, UploadFails
<1>10. CASE WriteStep(h)
  BY <1>10 DEF WriteStep, SendReport, ReportLands, ReportRejected,
               ReportAnswered, ReportErrored, FreePage, runVars, pageVars,
               InFlight, Awaiting, PostGate
<1>11. QED
  BY <1>1, <1>2, <1>3, <1>9, <1>10 DEF RunStep

LEMMA StepGivesBack ==
    ASSUME TypeOK, PageIsGivenBack, [Next]_vars
    PROVE  PageIsGivenBack'
<1>1. ASSUME NEW h \in Submissions, RunStep(h)
      PROVE  PageIsGivenBack'
  BY <1>1, RunGivesBack DEF KeepsOrFrees, PageIsGivenBack, InFlight
<1>2. CASE CancelClick \/ Reload
  BY <1>2 DEF CancelClick, Reload, FreePage, PageIsGivenBack
<1>3. CASE UserStep /\ ~CancelClick /\ ~Reload
  <2>1. UNCHANGED <<pc, outcome, busy>>
    BY <1>3 DEF UserStep, PickFiles, ClearForm, SignIn, SignOut, OtherTab,
                runVars
  <2>2. QED
    BY <2>1 DEF PageIsGivenBack, InFlight
<1>4. CASE UNCHANGED vars
  BY <1>4 DEF vars, runVars, pageVars, PageIsGivenBack, InFlight
<1>5. QED
  BY <1>1, <1>2, <1>3, <1>4 DEF Next

\* Of the many ways out of the handler only the one for an empty required
\* field (reports.js:2496) leaves the popup on the page and the submit button
\* off without a run behind them, for any number of submissions and images.
THEOREM PageNotForgotten == Spec => []PageIsGivenBack
<1>1. Init => PageIsGivenBack
  BY DEF Init, PageIsGivenBack
<1>2. TypeOK /\ PageIsGivenBack /\ [Next]_vars => PageIsGivenBack'
  BY StepGivesBack
<1>3. QED
  BY <1>1, <1>2, TypeCorrect, PTL DEF Spec

-----------------------------------------------------------------------------
(***************************************************************************)
(* A run only moves forward.  Forward lists the ways from one await to the *)
(* next; WithinSelection bounds the counter of the loops.                  *)
(***************************************************************************)

\* How far a run is: the images moderated, three stages for each image
\* uploaded, the write.
Progress(h) ==
    CASE pc[h] = "idle"       -> 0
      [] pc[h] = "moderate"   -> idx[h]
      [] pc[h] = "compress"   -> MaxSelection + 3 * idx[h]
      [] pc[h] = "recompress" -> MaxSelection + 3 * idx[h] + 1
      [] pc[h] = "upload"     -> MaxSelection + 3 * idx[h] + 2
      [] pc[h] = "refresh"    -> 4 * MaxSelection + 3
      [] pc[h] = "post"       -> 4 * MaxSelection + 4
      [] OTHER                -> 4 * MaxSelection + 5

\* A run only moves forward, by one of a bounded number of steps, although its
\* loops read the length of the live file input in every iteration, which the
\* user may change while a run is alive that no popup covers any more.
RunsAdvance ==
    [][ \A h \in Submissions :
            <<pc[h], idx[h]>>' # <<pc[h], idx[h]>> =>
                Progress(h)' \in Progress(h) + 1 .. 4 * MaxSelection + 5 ]_vars

Forward(h) ==
    \/ pc'[h] = pc[h] /\ idx'[h] = idx[h]
    \/ pc[h] \in Awaiting \cup {"idle"} /\ pc'[h] = "done"
    \/ pc[h] \in PreGate \cup {"idle"} /\ pc'[h] = "refresh"
    \/ pc[h] = "refresh" /\ pc'[h] = "post"
    \/ /\ pc[h] = "compress" /\ pc'[h] = "recompress"
       /\ idx'[h] = idx[h]
    \/ /\ pc[h] = "recompress" /\ pc'[h] = "upload"
       /\ idx'[h] = idx[h]
    \/ /\ \/ pc[h] = "idle" /\ pc'[h] = "moderate"
          \/ pc[h] = "moderate" /\ pc'[h] = "compress"
       /\ idx'[h] = 1 /\ Len(files) >= 1
    \/ /\ \/ pc[h] = "moderate" /\ pc'[h] = "moderate"
          \/ pc[h] = "upload" /\ pc'[h] = "compress"
       /\ idx'[h] = idx[h] + 1 /\ idx[h] < Len(files)

\* The ways into the write.
LEMMA EnterWriteForward ==
    ASSUME TypeOK, NEW h \in Submissions, NEW url, NEW freed \in BOOLEAN,
           EnterWrite(h, url, freed), pc[h] \in PreGate
    PROVE  Forward(h)
<1>1. pc'[h] \in {"refresh", "done"}
  BY DEF EnterWrite, Finish, TypeOK, RunTypeOK
<1>2. QED
  BY <1>1 DEF Forward, Awaiting

\* What the prover has to know of a file input that is not empty.
LEMMA SomeFiles ==
    ASSUME TypeOK, files # <<>>
    PROVE  Len(files) \in Nat /\ Len(files) >= 1
BY DEF TypeOK, PageTypeOK

LEMMA RunForward ==
    ASSUME TypeOK, NEW h \in Submissions, RunStep(h)
    PROVE  Forward(h) /\ files' = files /\ \A g \in Submissions \ {h} : idx'[g] = idx[g]
<1> USE DEF TypeOK, RunTypeOK
<1>1. CASE SubmitAccepted(h)
  <2>1. pc[h] = "idle" /\ files' = files
    BY <1>1 DEF SubmitAccepted, CanSubmit
  <2>2. CASE files # <<>> /\ pc' = [pc EXCEPT ![h] = "moderate"]
               /\ idx' = [idx EXCEPT ![h] = 1]
    BY <2>1, <2>2, SomeFiles DEF Forward
  <2>3. CASE pc' = [pc EXCEPT ![h] = "refresh"] /\ idx' = idx
    BY <2>1, <2>3 DEF Forward
  <2>4. QED
    BY <1>1, <2>2, <2>3 DEF SubmitAccepted
<1>2. CASE SubmitProhibitedText(h) \/ SubmitRefused(h) \/ SubmitIncomplete(h)
  BY <1>2 DEF SubmitProhibitedText, SubmitRefused, SubmitIncomplete, CanSubmit,
              Finish, Forward
<1>3. CASE ModerationSafe(h)
  <2>1. pc[h] = "moderate" /\ files' = files
    BY <1>3 DEF ModerationSafe
  <2>2. CASE /\ idx[h] < Len(files)
             /\ idx' = [idx EXCEPT ![h] = @ + 1] /\ pc' = pc
    BY <2>1, <2>2 DEF Forward
  <2>3. CASE /\ files # <<>>
             /\ pc' = [pc EXCEPT ![h] = "compress"]
             /\ idx' = [idx EXCEPT ![h] = 1]
    BY <2>1, <2>3, SomeFiles DEF Forward
  <2>4. CASE EndUploads(h, <<>>) /\ idx' = idx
    BY <2>1, <2>4, EnterWriteForward DEF EndUploads, PreGate
  <2>5. QED
    BY <1>3, <2>1, <2>2, <2>3, <2>4 DEF ModerationSafe
<1>4. CASE \/ ModerationUnsafe(h) \/ ReportAnswered(h) \/ ReportErrored(h)
           \/ SendReport(h, TRUE) \/ SendReport(h, FALSE)
  BY <1>4 DEF ModerationUnsafe, ReportAnswered, ReportErrored, SendReport,
              Finish, Forward, Awaiting, PreGate, PostGate
<1>5. CASE CompressedOnce(h) \/ StartUpload(h)
  BY <1>5 DEF CompressedOnce, StartUpload, pageVars, Forward
<1>6. CASE UploadCancelled(h) \/ UploadRefused(h) \/ UploadTimesOut(h)
  <2>1. /\ ImagesFailed(h) /\ pc[h] \in PreGate
        /\ files' = files /\ idx' = idx
    BY <1>6 DEF UploadCancelled, UploadRefused, UploadTimesOut, UploadTimer, PreGate
  <2>2. QED
    BY <2>1, EnterWriteForward DEF ImagesFailed
<1>7. CASE UploadFails(h)
  <2>1. files' = files /\ idx' = idx
    BY <1>7 DEF UploadFails, runVars
  <2>2. CASE pc[h] = "upload" /\ ImagesFailed(h)
    BY <2>1, <2>2, EnterWriteForward DEF ImagesFailed, PreGate
  <2>3. CASE pc' = pc
    BY <2>1, <2>3 DEF Forward
  <2>4. QED
    BY <1>7, <2>1, <2>2, <2>3 DEF UploadFails, runVars
<1>8. CASE UploadSucceeds(h)
  <2> DEFINE list == Append(urls[h], [by |-> h, at |-> up[h].at, img |-> up[h].img])
  <2>1. pc[h] = "upload" /\ files' = files
    BY <1>8 DEF UploadSucceeds
  <2>2. CASE /\ idx[h] < Len(files)
             /\ pc' = [pc EXCEPT ![h] = "compress"]
             /\ idx' = [idx EXCEPT ![h] = @ + 1]
    BY <2>1, <2>2 DEF Forward
  <2>3. CASE EndUploads(h, list) /\ idx' = idx
    BY <2>1, <2>3, EnterWriteForward DEF EndUploads, PreGate
  <2>4. QED
    BY <1>8, <2>1, <2>2, <2>3 DEF UploadSucceeds
<1>9. CASE \/ UploadTokenRefreshed(h) \/ UploadLands(h)
           \/ ReportLands(h) \/ ReportRejected(h)
  BY <1>9 DEF UploadTokenRefreshed, UploadLands, ReportLands, ReportRejected,
              runVars, pageVars, Forward
<1>10. QED
  BY <1>1, <1>2, <1>3, <1>4, <1>5, <1>6, <1>7, <1>8, <1>9
     DEF RunStep, Submit, UploadStep, WriteStep

\* What a way forward does to the rank of a run.
LEMMA ForwardAdvances ==
    ASSUME TypeOK, TypeOK', WithinSelection, NEW h \in Submissions, Forward(h)
    PROVE  /\ pc'[h] \in PreGate => idx'[h] \in 1..MaxSelection
           /\ <<pc[h], idx[h]>>' # <<pc[h], idx[h]>> =>
                Progress(h)' \in Progress(h) + 1 .. 4 * MaxSelection + 5
<1>1. /\ MaxSelection \in Nat /\ Len(files) \in Nat /\ Len(files) <= MaxSelection
      /\ idx[h] \in Nat /\ idx'[h] \in Nat
      /\ pc[h] \in PreGate => idx[h] \in 1..MaxSelection
  BY LimitsAssumption DEF TypeOK, RunTypeOK, PageTypeOK, WithinSelection
<1>2. CASE pc'[h] = pc[h] /\ idx'[h] = idx[h]
  BY <1>1, <1>2
<1>3. CASE pc[h] \in Awaiting \cup {"idle"} /\ pc'[h] = "done"
  BY <1>1, <1>3 DEF Progress, Awaiting, PreGate, PostGate
<1>4. CASE pc[h] \in PreGate \cup {"idle"} /\ pc'[h] = "refresh"
  BY <1>1, <1>4 DEF Progress, PreGate
<1>5. CASE pc[h] = "refresh" /\ pc'[h] = "post"
  BY <1>1, <1>5 DEF Progress, PreGate
<1>6. CASE /\ \/ pc[h] = "compress" /\ pc'[h] = "recompress"
              \/ pc[h] = "recompress" /\ pc'[h] = "upload"
           /\ idx'[h] = idx[h]
  BY <1>1, <1>6 DEF Progress, PreGate
<1>7. CASE /\ \/ pc[h] = "idle" /\ pc'[h] = "moderate"
              \/ pc[h] = "moderate" /\ pc'[h] = "compress"
           /\ idx'[h] = 1 /\ Len(files) >= 1
  BY <1>1, <1>7 DEF Progress, PreGate
<1>8. CASE /\ \/ pc[h] = "moderate" /\ pc'[h] = "moderate"
              \/ pc[h] = "upload" /\ pc'[h] = "compress"
           /\ idx'[h] = idx[h] + 1 /\ idx[h] < Len(files)
  BY <1>1, <1>8 DEF Progress, PreGate
<1>9. QED
  BY <1>2, <1>3, <1>4, <1>5, <1>6, <1>7, <1>8 DEF Forward

\* The user leaves the counters alone, and picks no longer selection.
LEMMA UserAdvances ==
    ASSUME TypeOK, UserStep, WithinSelection
    PROVE  /\ Len(files') <= MaxSelection
           /\ \A g \in Submissions :
                /\ pc'[g] \in PreGate => pc'[g] = pc[g]
                /\ idx'[g] = idx[g]
                /\ pc'[g] # pc[g] => InFlight(g) /\ pc'[g] = "gone"
<1>1. ASSUME NEW s \in Selections
      PROVE  Len(s) <= MaxSelection
  BY LimitsAssumption DEF Selections
<1>2. Len(<<>>) <= MaxSelection
  BY LimitsAssumption
<1>3. CASE Reload
  BY <1>2, <1>3 DEF Reload, PreGate, InFlight, TypeOK, RunTypeOK
<1>4. ASSUME NEW s \in Selections, PickFiles(s)
      PROVE  files' = s /\ UNCHANGED <<pc, idx>>
  BY <1>4 DEF PickFiles, runVars
<1>5. CASE ClearForm
  BY <1>2, <1>5 DEF ClearForm, runVars
<1>6. CASE CancelClick \/ SignOut \/ (\E u \in Users : SignIn(u))
             \/ \E u \in Users \cup {NoUser} : OtherTab(u)
  BY <1>6 DEF CancelClick, SignOut, SignIn, OtherTab, runVars, WithinSelection
<1>7. QED
  BY <1>1, <1>3, <1>4, <1>5, <1>6 DEF UserStep

LEMMA StepAdvances ==
    ASSUME TypeOK, TypeOK', WithinSelection, [Next]_vars
    PROVE  /\ WithinSelection'
           /\ \A h \in Submissions :
                <<pc[h], idx[h]>>' # <<pc[h], idx[h]>> =>
                    Progress(h)' \in Progress(h) + 1 .. 4 * MaxSelection + 5
<1>1. ASSUME NEW h \in Submissions, RunStep(h)
      PROVE  /\ WithinSelection'
             /\ \A g \in Submissions :
                  <<pc[g], idx[g]>>' # <<pc[g], idx[g]>> =>
                      Progress(g)' \in Progress(g) + 1 .. 4 * MaxSelection + 5
  <2>1. files' = files
    BY <1>1, RunForward
  <2>2. ASSUME NEW g \in Submissions, g # h
        PROVE  pc'[g] = pc[g] /\ idx'[g] = idx[g]
    BY <1>1, <2>2, RunForward, OthersUntouched
  <2>3. /\ pc'[h] \in PreGate => idx'[h] \in 1..MaxSelection
        /\ <<pc[h], idx[h]>>' # <<pc[h], idx[h]>> =>
              Progress(h)' \in Progress(h) + 1 .. 4 * MaxSelection + 5
    BY <1>1, RunForward, ForwardAdvances
  <2>4. QED
    BY <2>1, <2>2, <2>3 DEF WithinSelection
<1>2. CASE UserStep
  <2>1. ASSUME NEW g \in Submissions, <<pc[g], idx[g]>>' # <<pc[g], idx[g]>>
        PROVE  Progress(g)' \in Progress(g) + 1 .. 4 * MaxSelection + 5
    <3>1. InFlight(g) /\ pc'[g] = "gone"
      BY <1>2, <2>1, UserAdvances
    <3>2. /\ MaxSelection \in Nat /\ idx[g] \in Nat
          /\ pc[g] \in PreGate => idx[g] \in 1..MaxSelection
      BY LimitsAssumption DEF WithinSelection, TypeOK, RunTypeOK
    <3>3. QED
      BY <3>1, <3>2 DEF Progress, InFlight, Awaiting, PreGate, PostGate
  <2>2. QED
    BY <1>2, <2>1, UserAdvances DEF WithinSelection
<1>3. CASE UNCHANGED vars
  BY <1>3 DEF vars, runVars, pageVars, WithinSelection
<1>4. QED
  BY <1>1, <1>2, <1>3 DEF Next

\* Every step of a run takes it further on a way of bounded length, for any
\* number of runs and images: the safety half of RunsEnd.
THEOREM EveryStepAdvances == Spec => RunsAdvance
<1>1. Init => TypeOK /\ RunShape
  BY InitType
<1>2. Init => WithinSelection
  BY LimitsAssumption DEF Init, WithinSelection, PreGate
<1>3. TypeOK /\ RunShape /\ [Next]_vars => (TypeOK /\ RunShape)'
  BY StepType
<1>4. TypeOK /\ TypeOK' /\ WithinSelection /\ [Next]_vars =>
         /\ WithinSelection'
         /\ [ \A h \in Submissions :
                <<pc[h], idx[h]>>' # <<pc[h], idx[h]>> =>
                    Progress(h)' \in Progress(h) + 1 .. 4 * MaxSelection + 5 ]_vars
  BY StepAdvances
<1>5. QED
  BY <1>1, <1>2, <1>3, <1>4, PTL DEF Spec, RunsAdvance

-----------------------------------------------------------------------------
(***************************************************************************)
(* Submitting implements ReportBoard.  ToldTrue says what a message and    *)
(* the request have to do with each other; with it a step of a run         *)
(* publishes, tells, or does neither.                                      *)
(***************************************************************************)

SameOnBoard(h) == report'[h] # NoReport <=> report[h] # NoReport

\* The three kinds of steps of the abstract board.
Quiet(h)     == outcome'[h] = outcome[h] /\ SameOnBoard(h)
Publishes(h) == /\ outcome'[h] = outcome[h] /\ Told(outcome[h]) # "refused"
                /\ report[h] = NoReport /\ report'[h] # NoReport
Tells(h)     == /\ outcome[h] = "none" /\ outcome'[h] \in Outcomes \ {"none"}
                /\ SameOnBoard(h)
                /\ Told(outcome'[h]) = "published" => report[h] # NoReport
                /\ Told(outcome'[h]) = "refused" => report[h] = NoReport

BoardStep(h) == Quiet(h) \/ Publishes(h) \/ Tells(h)

\* A run that goes on in silence.
LEMMA SilentTold ==
    ASSUME NEW h \in Submissions, ToldOf(h),
           outcome'[h] = outcome[h], report'[h] = report[h],
           req'[h] = req[h], pc[h] = "done" => pc'[h] = "done"
    PROVE  ToldOf(h)' /\ BoardStep(h)
BY DEF ToldOf, BoardStep, Quiet, SameOnBoard

\* A run that ends with a message.
LEMMA FinishTold ==
    ASSUME TypeOK, NEW h \in Submissions, ToldOf(h), pc[h] # "done",
           NEW o \in Outcomes \ {"none"}, Finish(h, o), UNCHANGED <<req, report>>,
           o = "success" => req[h] = "committed",
           o \notin {"success", "error"} => req[h] = "none"
    PROVE  ToldOf(h)' /\ BoardStep(h)
<1>1. pc'[h] = "done" /\ outcome'[h] = o /\ outcome[h] = "none"
  BY DEF Finish, TypeOK, RunTypeOK, ToldOf
<1>2. /\ Told(o) = "published" => o = "success"
      /\ Told(o) = "refused" => o \notin {"success", "error"}
  BY DEF Told
<1>3. ToldOf(h)'
  BY <1>1, <1>2 DEF ToldOf
<1>4. Tells(h)
  BY <1>1, <1>2 DEF ToldOf, Tells, SameOnBoard
<1>5. QED
  BY <1>3, <1>4 DEF BoardStep

\* The way to the write: on to the request, or a message before it.
LEMMA EnterWriteTold ==
    ASSUME TypeOK, RunShape, NEW h \in Submissions, ToldOf(h), NEW url, NEW freed,
           EnterWrite(h, url, freed), pc[h] \in PreGate, UNCHANGED <<req, report>>
    PROVE  ToldOf(h)' /\ BoardStep(h)
<1>1. pc[h] # "done" /\ req[h] = "none"
  BY DEF RunShape, RunShapeOf, PreGate
<1>2. CASE MayWrite
  BY <1>1, <1>2, SilentTold DEF EnterWrite
<1>3. CASE ~MayWrite
  <2> DEFINE o == IF cancelled THEN "cancelled" ELSE "error"
  <2>1. Finish(h, o) /\ o \in Outcomes \ {"none", "success"}
    BY <1>3 DEF EnterWrite, Outcomes
  <2> HIDE DEF o
  <2>2. QED
    BY <1>1, <2>1, FinishTold
<1>4. QED
  BY <1>2, <1>3

LEMMA SubmitTold ==
    ASSUME TypeOK, RunShape, NEW h \in Submissions, ToldOf(h), Submit(h)
    PROVE  ToldOf(h)' /\ BoardStep(h)
<1>1. pc[h] = "idle" /\ UNCHANGED <<req, report>>
  BY DEF Submit, SubmitProhibitedText, SubmitRefused, SubmitIncomplete,
         SubmitAccepted, CanSubmit, netVars
<1>2. req[h] = "none"
  BY <1>1 DEF RunShape, RunShapeOf
<1>3. CASE SubmitAccepted(h)
  BY <1>1, <1>3, SilentTold DEF SubmitAccepted
<1>4. CASE ~SubmitAccepted(h)
  <2>1. \E o \in Outcomes \ {"none", "success", "error"} : Finish(h, o)
    <3>1. CASE SubmitProhibitedText(h)
      BY <3>1 DEF SubmitProhibitedText, Outcomes
    <3>2. CASE SubmitIncomplete(h)
      BY <3>2 DEF SubmitIncomplete, Outcomes
    <3>3. CASE SubmitRefused(h)
      <4>1. PICK o \in Outcomes : Refusal(o) /\ Finish(h, o)
        BY <3>3 DEF SubmitRefused
      <4>2. o \in {"signedOut", "notPremium", "tooMany", "badName"}
        BY <4>1 DEF Refusal
      <4>3. QED
        BY <4>1, <4>2
    <3>4. QED
      BY <1>4, <3>1, <3>2, <3>3 DEF Submit
  <2>2. PICK o \in Outcomes \ {"none", "success", "error"} : Finish(h, o)
    BY <2>1
  <2>3. QED
    BY <1>1, <1>2, <2>2, FinishTold
<1>5. QED
  BY <1>3, <1>4

LEMMA UploadTold ==
    ASSUME TypeOK, RunShape, NEW h \in Submissions, ToldOf(h),
           ModerationSafe(h) \/ ModerationUnsafe(h) \/ UploadStep(h)
    PROVE  ToldOf(h)' /\ BoardStep(h)
<1> USE DEF TypeOK, RunTypeOK
<1>1. UNCHANGED <<req, report>>
  BY DEF ModerationSafe, ModerationUnsafe, UploadStep, CompressedOnce,
         UploadCancelled, StartUpload, UploadRefused, UploadTokenRefreshed,
         UploadLands, UploadSucceeds, UploadTimesOut, UploadFails, netVars
<1>2. ASSUME pc[h] \in PreGate, NEW url, NEW freed, EnterWrite(h, url, freed)
      PROVE  ToldOf(h)' /\ BoardStep(h)
  BY <1>1, <1>2, EnterWriteTold
<1>3. CASE ModerationUnsafe(h)
  <2>1. /\ pc[h] = "moderate" /\ Finish(h, "imageBlocked")
        /\ req[h] = "none"
    BY <1>3 DEF ModerationUnsafe, RunShape, RunShapeOf, PreGate
  <2>2. QED
    BY <1>1, <2>1, FinishTold DEF Outcomes
<1>4. CASE pc[h] \in PreGate /\ UNCHANGED outcome /\ pc'[h] # "idle"
  BY <1>1, <1>4, SilentTold DEF PreGate
<1>5. CASE UNCHANGED <<pc, outcome>>
  BY <1>1, <1>5, SilentTold
<1>6. CASE ModerationSafe(h)
  <2>1. pc[h] \in PreGate /\ pc[h] = "moderate"
    BY <1>6 DEF ModerationSafe, PreGate
  <2>2. CASE EndUploads(h, <<>>)
    BY <1>2, <2>1, <2>2 DEF EndUploads
  <2>3. CASE UNCHANGED outcome /\ pc' \in {pc, [pc EXCEPT ![h] = "compress"]}
    BY <1>4, <2>1, <2>3
  <2>4. QED
    BY <1>6, <2>2, <2>3 DEF ModerationSafe
<1>7. CASE CompressedOnce(h) \/ StartUpload(h)
  BY <1>4, <1>7 DEF CompressedOnce, StartUpload, PreGate
<1>8. CASE UploadCancelled(h) \/ UploadRefused(h) \/ UploadTimesOut(h)
  <2>1. pc[h] \in PreGate /\ ImagesFailed(h)
    BY <1>8 DEF UploadCancelled, UploadRefused, UploadTimesOut, UploadTimer,
                PreGate
  <2>2. QED
    BY <1>2, <2>1 DEF ImagesFailed
<1>9. CASE UploadTokenRefreshed(h) \/ UploadLands(h)
  BY <1>5, <1>9 DEF UploadTokenRefreshed, UploadLands, runVars
<1>10. CASE UploadSucceeds(h)
  <2>1. pc[h] \in PreGate
    BY <1>10 DEF UploadSucceeds, PreGate
  <2>2. ASSUME NEW list, EndUploads(h, list)
        PROVE  ToldOf(h)' /\ BoardStep(h)
    BY <1>2, <2>1, <2>2 DEF EndUploads
  <2>3. CASE UNCHANGED outcome /\ pc' = [pc EXCEPT ![h] = "compress"]
    BY <1>4, <2>1, <2>3
  <2>4. QED
    BY <1>10, <2>2, <2>3 DEF UploadSucceeds
<1>11. CASE UploadFails(h)
  <2>1. CASE pc[h] = "upload" /\ ImagesFailed(h)
    BY <1>2, <2>1 DEF ImagesFailed, PreGate
  <2>2. CASE UNCHANGED runVars
    BY <1>5, <2>2 DEF runVars
  <2>3. QED
    BY <1>11, <2>1, <2>2 DEF UploadFails
<1>12. QED
  BY <1>3, <1>6, <1>7, <1>8, <1>9, <1>10, <1>11 DEF UploadStep

LEMMA WriteTold ==
    ASSUME TypeOK, RunShape, NEW h \in Submissions, ToldOf(h), WriteStep(h)
    PROVE  ToldOf(h)' /\ BoardStep(h)
<1> USE DEF TypeOK, RunTypeOK, NetTypeOK
<1>1. ASSUME NEW ok \in BOOLEAN, SendReport(h, ok)
      PROVE  ToldOf(h)' /\ BoardStep(h)
  <2>1. /\ pc[h] = "refresh" /\ pc'[h] = "post" /\ req'[h] = "sent"
        /\ UNCHANGED <<outcome, report>>
    BY <1>1 DEF SendReport
  <2>2. req[h] = "none" /\ outcome[h] = "none" /\ report[h] = NoReport
    BY <2>1 DEF ToldOf, RunShape, RunShapeOf
  <2>3. QED
    BY <2>1, <2>2 DEF ToldOf, Told, BoardStep, Quiet, SameOnBoard
<1>2. CASE ReportLands(h)
  <2>1. /\ req[h] = "sent" /\ req'[h] = "committed"
        /\ report'[h] = Document(h) /\ UNCHANGED <<pc, outcome>>
    BY <1>2 DEF ReportLands, runVars
  <2>2. Document(h) # NoReport
    <3>1. author[h] \in Users /\ writer[h] \in Users
      BY <2>1 DEF RunShape, RunShapeOf
    <3>2. Document(h) \in Documents
      BY <3>1 DEF Document, Documents
    <3>3. QED
      BY <3>2, ReportAssumption
  <2>3. report[h] = NoReport /\ Told(outcome[h]) # "refused"
    BY <2>1 DEF ToldOf
  <2>4. QED
    BY <2>1, <2>2, <2>3 DEF ToldOf, BoardStep, Publishes
<1>3. CASE ReportRejected(h)
  <2>1. /\ req[h] = "sent" /\ req'[h] = "gone"
        /\ UNCHANGED <<pc, outcome, report>>
    BY <1>3 DEF ReportRejected, runVars
  <2>2. QED
    BY <2>1 DEF ToldOf, BoardStep, Quiet, SameOnBoard
<1>4. CASE ReportAnswered(h)
  <2>1. /\ pc[h] = "post" /\ Finish(h, "success") /\ req[h] = "committed"
        /\ UNCHANGED <<req, report>>
    BY <1>4 DEF ReportAnswered, ResponseOk, netVars
  <2>2. QED
    BY <2>1, FinishTold DEF Outcomes
<1>5. CASE ReportErrored(h)
  <2>1. /\ pc[h] = "post" /\ Finish(h, "error")
        /\ UNCHANGED <<req, report>>
    BY <1>5 DEF ReportErrored, netVars
  <2>2. QED
    BY <2>1, FinishTold DEF Outcomes
<1>6. QED
  BY <1>1, <1>2, <1>3, <1>4, <1>5 DEF WriteStep

\* Whatever a run does, the board sees one of its three steps.
LEMMA RunTold ==
    ASSUME TypeOK, RunShape, NEW h \in Submissions, ToldOf(h), RunStep(h)
    PROVE  ToldOf(h)' /\ BoardStep(h)
BY SubmitTold, UploadTold, WriteTold DEF RunStep

\* The user's own steps are not seen on the board.
LEMMA UserTold ==
    ASSUME UserStep \/ UNCHANGED vars, NEW h \in Submissions, ToldOf(h)
    PROVE  ToldOf(h)'
<1>1. CASE UserStep
  <2>1. pc[h] = "done" => pc'[h] = "done"
    BY <1>1, UserUntouched DEF Reload, InFlight, Awaiting, PreGate, PostGate
  <2>2. QED
    BY <1>1, <2>1, UserUntouched, SilentTold
<1>2. CASE UNCHANGED vars
  BY <1>2, SilentTold DEF vars, runVars, netVars
<1>3. QED
  BY <1>1, <1>2

LEMMA StepTold ==
    ASSUME TypeOK, RunShape, ToldTrue, [Next]_vars
    PROVE  ToldTrue'
<1> SUFFICES ASSUME NEW g \in Submissions
             PROVE  ToldOf(g)'
  BY DEF ToldTrue
<1>1. ToldOf(g)
  BY DEF ToldTrue
<1>2. ASSUME NEW h \in Submissions, RunStep(h)
      PROVE  ToldOf(g)'
  <2>1. CASE g = h
    BY <1>1, <1>2, <2>1, RunTold
  <2>2. CASE g # h
    BY <1>1, <1>2, <2>2, OthersUntouched, SilentTold
  <2>3. QED
    BY <2>1, <2>2
<1>3. QED
  BY <1>1, <1>2, UserTold DEF Next

\* One run moves the board as its kind of step says.
LEMMA BoardMoves ==
    ASSUME TypeOK, TypeOK', NEW h \in Submissions, BoardStep(h),
           \A g \in Submissions : g # h =>
              outcome'[g] = outcome[g] /\ report'[g] = report[g]
    PROVE  [Board!Next]_(Board!vars)
<1> DEFINE board == {g \in Submissions : report[g] # NoReport}
           told  == [g \in Submissions |-> Told(outcome[g])]
<1>1. CASE Quiet(h)
  <2>1. board' = board /\ told' = told
    BY <1>1 DEF Quiet, SameOnBoard
  <2>2. QED
    BY <2>1 DEF Board!vars
<1>2. CASE Publishes(h)
  <2>1. told' = told
    BY <1>2 DEF Publishes
  <2>2. board' = board \cup {h} /\ h \notin board
    BY <1>2 DEF Publishes
  <2>3. told[h] # "refused"
    BY <1>2 DEF Publishes
  <2>4. Board!Publish(h)
    BY <2>1, <2>2, <2>3 DEF Board!Publish
  <2>5. QED
    BY <2>4 DEF Board!Next
<1>3. CASE Tells(h)
  <2> DEFINE v == Told(outcome'[h])
  <2>1. v \in Board!Verdicts \ {"nothing"}
    BY <1>3 DEF Tells, Told, Board!Verdicts
  <2>2. told[h] = "nothing"
    BY <1>3 DEF Tells, Told
  <2>3. told' = [told EXCEPT ![h] = v]
    OBVIOUS
  <2>4. board' = board /\ (v = "published" => h \in board)
                      /\ (v = "refused" => h \notin board)
    BY <1>3 DEF Tells, SameOnBoard
  <2>5. Board!Tell(h, v)
    BY <2>2, <2>3, <2>4 DEF Board!Tell
  <2> HIDE DEF v
  <2>6. QED
    BY <2>1, <2>5 DEF Board!Next
<1>4. QED
  BY <1>1, <1>2, <1>3 DEF BoardStep

LEMMA StepBoard ==
    ASSUME TypeOK, TypeOK', RunShape, ToldTrue, [Next]_vars
    PROVE  [Board!Next]_(Board!vars)
<1>1. ASSUME NEW h \in Submissions, RunStep(h)
      PROVE  [Board!Next]_(Board!vars)
  <2>1. BoardStep(h)
    BY <1>1, RunTold DEF ToldTrue
  <2>2. \A g \in Submissions : g # h =>
           outcome'[g] = outcome[g] /\ report'[g] = report[g]
    BY <1>1, OthersUntouched
  <2>3. QED
    BY <2>1, <2>2, BoardMoves
<1>2. CASE UserStep \/ UNCHANGED vars
  <2>1. UNCHANGED <<report, outcome>>
    BY <1>2, UserUntouched DEF vars, runVars, netVars
  <2>2. QED
    BY <2>1 DEF Board!vars
<1>3. QED
  BY <1>1, <1>2 DEF Next

\* Submitting reports implements ReportBoard: a report appears at most once,
\* the user hears at most one message about it, "published" is said of what is
\* on the board and "refused" of what never gets there.
THEOREM BoardKept == Spec => MessagesAreTrue
<1>1. Init => TypeOK /\ RunShape
  BY InitType
<1>2. Init => ToldTrue
  BY DEF Init, ToldTrue, ToldOf, Told
<1>3. Init => Board!Init
  BY DEF Init, Board!Init, Told
<1>4. TypeOK /\ RunShape /\ [Next]_vars => (TypeOK /\ RunShape)'
  BY StepType
<1>5. TypeOK /\ RunShape /\ ToldTrue /\ [Next]_vars => ToldTrue'
  BY StepTold
<1>6. TypeOK /\ TypeOK' /\ RunShape /\ ToldTrue /\ [Next]_vars
        => [Board!Next]_(Board!vars)
  BY StepBoard
<1>7. QED
  BY <1>1, <1>2, <1>3, <1>4, <1>5, <1>6, PTL
  DEF Spec, MessagesAreTrue, Board!Spec
=============================================================================
