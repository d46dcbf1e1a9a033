-------------------------- MODULE PassCodesProofs --------------------------
(***************************************************************************)
(* Proofs about PassCodes, for any number of attempts, accounts and codes. *)
(***************************************************************************)
EXTENDS PassCodes, TLAPS

-----------------------------------------------------------------------------
(***************************************************************************)
(* Types, and how far each attempt has come.                               *)
(***************************************************************************)

\* The last conjunct of TypeOK follows from Shape.
Typed == TypeOK /\ Shape

LEMMA InitTyped == Init => Typed
BY AttemptsAssumption, AccountsAssumption, CodesAssumption
   DEF Init, Typed, TypeOK, Shape, ShapeOf, Attempts, Accounts, Awaiting,
       Redeeming, SigningUp, InFlight, Messages, TurnedAway, Requests, Doc,
       NoDoc

\* Only the owner's SDK session makes up for a missing user, so that an
\* attempt that starts has an account.
LEMMA CurrentUserType ==
    ASSUME Typed, NEW a \in Redemptions
    PROVE  CurrentUser(a) \in Users \cup {NoUser}
BY AccountsAssumption DEF Typed, Shape, ShapeOf, Attempts, CurrentUser

\* An attempt that has not been written to by this step stays as it is.
Untouched(a) ==
    /\ pc'[a] = pc[a] /\ told'[a] = told[a] /\ code'[a] = code[a]
    /\ who'[a] = who[a] /\ token'[a] = token[a]
    /\ mark'[a] = mark[a] /\ credit'[a] = credit[a]
    /\ session'[a] = session[a]
    /\ (a \in accepted') = (a \in accepted)
    /\ (a \in unlocked') = (a \in unlocked)
    /\ (a \in mishaps') = (a \in mishaps)

LEMMA OthersUntouched ==
    ASSUME Typed, NEW a \in Attempts, NEW b \in Attempts, a # b,
           Redeem(a) \/ SignUp(a) \/ Firestore(a)
    PROVE  Untouched(b)
<1>1. CASE Redeem(a)
  BY <1>1 DEF Typed, TypeOK, Untouched, Redeem, RedeemSignedOut, ClickRedeem,
          Begin, ReadRefused, ReadFails, ReadGood, TokenSettles, SendMark,
          CreditNext, Redeemed, Conclude, Tell, SendCredit, Unanswered,
          runVars, netVars, pageVars, histVars
<1>2. CASE SignUp(a)
  BY <1>2 DEF Typed, TypeOK, Untouched, SignUp, ClickSignUp, ValidateRefused,
          ValidateGood, AccountRefused, AccountCreated, MarkUsedNext,
          ProfileWritten, SignedUp, Tell, SendCredit, Unanswered, runVars,
          netVars, pageVars, histVars
<1>3. CASE Firestore(a)
  BY <1>3 DEF Typed, TypeOK, Untouched, Firestore, MarkLands, MarkFails,
          CreditLands, CreditFails, runVars, netVars, pageVars, histVars
<1>4. QED
  BY <1>1, <1>2, <1>3

LEMMA ShapeStays ==
    ASSUME NEW a \in Attempts, ShapeOf(a), Untouched(a)
    PROVE  ShapeOf(a)'
BY DEF ShapeOf, Untouched, InFlight

\* A step of one attempt only has to keep the shape of this one.
LEMMA ShapeOfOne ==
    ASSUME Typed, NEW a \in Attempts, ShapeOf(a)',
           Redeem(a) \/ SignUp(a) \/ Firestore(a)
    PROVE  Shape'
<1>1. SUFFICES ASSUME NEW b \in Attempts PROVE ShapeOf(b)'
  BY DEF Shape
<1>2. CASE b = a
  BY <1>2
<1>3. CASE b # a
  BY <1>3, OthersUntouched, ShapeStays DEF Typed, Shape
<1>4. QED
  BY <1>2, <1>3

\* The types without the conjunct that Shape implies.
PlainType ==
    /\ pc \in [Attempts -> Awaiting \cup {"idle", "done", "closed"}]
    /\ told \in [Attempts -> Messages]
    /\ code \in [Attempts -> Codes \cup {NoCode}]
    /\ who \in [Attempts -> Accounts \cup {NoUser}]
    /\ token \in [Attempts -> Accounts \cup {NoUser}]
    /\ accepted \subseteq Attempts
    /\ mark \in [Attempts -> Requests]
    /\ credit \in [Attempts -> Requests]
    /\ session \in [Attempts -> Accounts \cup {NoUser}]
    /\ unlocked \subseteq Attempts
    /\ doc \in [Codes -> Doc]
    /\ listed \subseteq Codes
    /\ profile \in [Accounts -> Codes \cup {NoCode}]
    /\ contested \subseteq Codes
    /\ mishaps \subseteq Attempts

LEMMA TypedFromParts ==
    ASSUME PlainType, Shape PROVE Typed
BY AttemptsAssumption
   DEF PlainType, Shape, ShapeOf, Typed, TypeOK, Attempts, Awaiting,
       Redeeming, SigningUp, InFlight

LEMMA TypedNext ==
    ASSUME PlainType', Shape' PROVE Typed'
BY AttemptsAssumption
   DEF PlainType, Shape, ShapeOf, Typed, TypeOK, Attempts, Awaiting,
       Redeeming, SigningUp, InFlight

LEMMA RedeemType ==
    ASSUME Typed, NEW a \in Redemptions, Redeem(a)
    PROVE  PlainType' /\ ShapeOf(a)'
<1>0. a \in Attempts /\ a \notin SignUps /\ ShapeOf(a) /\ TypeOK
  BY AttemptsAssumption DEF Typed, Shape, Attempts
<1> USE <1>0, AccountsAssumption, CodesAssumption
<1>1. CASE RedeemSignedOut(a)
  <2>1. PlainType'
    BY <1>1
       DEF PlainType, TypeOK, Accounts, Awaiting, Redeeming, Messages,
           TurnedAway, Requests, RedeemSignedOut, Tell, netVars, pageVars,
           dataVars, histVars
  <2>2. ShapeOf(a)'
    BY <1>1
       DEF ShapeOf, TypeOK, InFlight, Awaiting, Redeeming, SigningUp,
           TurnedAway, RedeemSignedOut, Tell, netVars, pageVars, dataVars,
           histVars
  <2>3. QED
    BY <2>1, <2>2
<1>2. ASSUME NEW c \in Codes, ClickRedeem(a, c)
      PROVE  PlainType' /\ ShapeOf(a)'
  <2>1. PlainType'
    BY <1>2, CurrentUserType
       DEF PlainType, TypeOK, Accounts, Awaiting, Redeeming, Messages,
           TurnedAway, Requests, ClickRedeem, Begin, netVars, pageVars,
           dataVars
  <2>2. ShapeOf(a)'
    BY <1>2, CurrentUserType
       DEF ShapeOf, TypeOK, InFlight, Awaiting, Redeeming, SigningUp,
           TurnedAway, ClickRedeem, Begin, netVars, pageVars, dataVars
  <2>3. QED
    BY <2>1, <2>2
<1>3. CASE ReadRefused(a)
  <2>1. PlainType'
    BY <1>3
       DEF PlainType, TypeOK, Accounts, Awaiting, Redeeming, Messages,
           TurnedAway, Requests, ReadRefused, Tell, netVars, pageVars,
           dataVars, histVars
  <2>2. ShapeOf(a)'
    BY <1>3
       DEF ShapeOf, TypeOK, InFlight, Awaiting, Redeeming, SigningUp,
           TurnedAway, ReadRefused, Tell, netVars, pageVars, dataVars, histVars
  <2>3. QED
    BY <2>1, <2>2
<1>4. CASE ReadFails(a)
  <2>1. PlainType'
    BY <1>4
       DEF PlainType, TypeOK, Accounts, Awaiting, Redeeming, Messages,
           TurnedAway, Requests, ReadFails, Tell, netVars, dataVars, histVars
  <2>2. ShapeOf(a)'
    BY <1>4
       DEF ShapeOf, TypeOK, InFlight, Awaiting, Redeeming, SigningUp,
           TurnedAway, ReadFails, Tell, netVars, dataVars, histVars
  <2>3. QED
    BY <2>1, <2>2
<1>5. CASE ReadGood(a)
  <2>1. PlainType'
    BY <1>5
       DEF PlainType, TypeOK, Accounts, Awaiting, Redeeming, Messages,
           TurnedAway, Requests, ReadGood, HasToken, Conclude, Tell, netVars,
           dataVars
  <2>2. ShapeOf(a)'
    BY <1>5
       DEF ShapeOf, TypeOK, InFlight, Awaiting, Redeeming, SigningUp,
           TurnedAway, ReadGood, HasToken, Conclude, Tell, netVars, dataVars
  <2>3. QED
    BY <2>1, <2>2
<1>6. CASE TokenSettles(a)
  <2>1. PlainType'
    BY <1>6
       DEF PlainType, TypeOK, Accounts, Awaiting, Redeeming, Messages,
           TurnedAway, Requests, TokenSettles, SendMark, HasToken, Conclude,
           Tell, dataVars
  <2>2. ShapeOf(a)'
    BY <1>6
       DEF ShapeOf, TypeOK, InFlight, Awaiting, Redeeming, SigningUp,
           TurnedAway, TokenSettles, SendMark, HasToken, Conclude, Tell,
           dataVars
  <2>3. QED
    BY <2>1, <2>2
<1>7. CASE CreditNext(a)
  <2>1. PlainType'
    BY <1>7
       DEF PlainType, TypeOK, Accounts, Awaiting, Redeeming, Messages,
           TurnedAway, Requests, CreditNext, SendCredit, Unanswered, pageVars,
           dataVars
  <2>2. ShapeOf(a)'
    BY <1>7
       DEF ShapeOf, TypeOK, InFlight, Awaiting, Redeeming, SigningUp,
           TurnedAway, CreditNext, SendCredit, Unanswered, pageVars, dataVars
  <2>3. QED
    BY <2>1, <2>2
<1>8. CASE Redeemed(a)
  <2>1. PlainType'
    BY <1>8
       DEF PlainType, TypeOK, Accounts, Awaiting, Redeeming, Messages,
           TurnedAway, Requests, Redeemed, Conclude, Tell, Unanswered, netVars,
           dataVars
  <2>2. ShapeOf(a)'
    BY <1>8
       DEF ShapeOf, TypeOK, InFlight, Awaiting, Redeeming, SigningUp,
           TurnedAway, Redeemed, Conclude, Tell, Unanswered, netVars, dataVars
  <2>3. QED
    BY <2>1, <2>2
<1>9. QED
  BY <1>1, <1>2, <1>3, <1>4, <1>5, <1>6, <1>7, <1>8 DEF Redeem

LEMMA SignUpType ==
    ASSUME Typed, NEW a \in SignUps, SignUp(a)
    PROVE  PlainType' /\ ShapeOf(a)'
<1>0. a \in Attempts /\ a \notin Redemptions /\ ShapeOf(a) /\ TypeOK
  BY AttemptsAssumption DEF Typed, Shape, Attempts
<1> USE <1>0, AccountsAssumption, CodesAssumption
<1>1. ASSUME NEW c \in Codes, ClickSignUp(a, c)
      PROVE  PlainType' /\ ShapeOf(a)'
  <2>1. PlainType'
    BY <1>1
       DEF PlainType, TypeOK, Accounts, Awaiting, SigningUp, Messages,
           TurnedAway, Requests, Doc, ClickSignUp, netVars, pageVars, dataVars
  <2>2. ShapeOf(a)'
    BY <1>1
       DEF ShapeOf, TypeOK, InFlight, Awaiting, Redeeming, SigningUp,
           TurnedAway, ClickSignUp, netVars, pageVars, dataVars
  <2>3. QED
    BY <2>1, <2>2
<1>2. CASE ValidateRefused(a)
  <2>1. PlainType'
    BY <1>2
       DEF PlainType, TypeOK, Accounts, Awaiting, SigningUp, Messages,
           TurnedAway, Requests, Doc, ValidateRefused, Tell, netVars, pageVars,
           dataVars, histVars
  <2>2. ShapeOf(a)'
    BY <1>2
       DEF ShapeOf, TypeOK, InFlight, Awaiting, Redeeming, SigningUp,
           TurnedAway, ValidateRefused, Tell, netVars, pageVars, dataVars,
           histVars
  <2>3. QED
    BY <2>1, <2>2
<1>3. CASE ValidateGood(a)
  <2>1. PlainType'
    BY <1>3
       DEF PlainType, TypeOK, Accounts, Awaiting, SigningUp, Messages,
           TurnedAway, Requests, Doc, ValidateGood, netVars, pageVars,
           dataVars, histVars
  <2>2. ShapeOf(a)'
    BY <1>3
       DEF ShapeOf, TypeOK, InFlight, Awaiting, Redeeming, SigningUp,
           TurnedAway, ValidateGood, netVars, pageVars, dataVars, histVars
  <2>3. QED
    BY <2>1, <2>2
<1>4. CASE AccountRefused(a)
  <2>1. PlainType'
    BY <1>4
       DEF PlainType, TypeOK, Accounts, Awaiting, SigningUp, Messages,
           TurnedAway, Requests, Doc, AccountRefused, Tell, netVars, pageVars,
           dataVars, histVars
  <2>2. ShapeOf(a)'
    BY <1>4
       DEF ShapeOf, TypeOK, InFlight, Awaiting, Redeeming, SigningUp,
           TurnedAway, AccountRefused, Tell, netVars, pageVars, dataVars,
           histVars
  <2>3. QED
    BY <2>1, <2>2
<1>5. CASE AccountCreated(a)
  <2>1. PlainType'
    BY <1>5
       DEF PlainType, TypeOK, Accounts, Awaiting, SigningUp, Messages,
           TurnedAway, Requests, Doc, AccountCreated, SendCredit, dataVars,
           histVars
  <2>2. ShapeOf(a)'
    BY <1>5
       DEF ShapeOf, TypeOK, InFlight, Awaiting, Redeeming, SigningUp,
           TurnedAway, AccountCreated, SendCredit, dataVars, histVars
  <2>3. QED
    BY <2>1, <2>2
<1>6. CASE MarkUsedNext(a)
  <2>1. PlainType'
    BY <1>6
       DEF PlainType, TypeOK, Accounts, Awaiting, SigningUp, Messages,
           TurnedAway, Requests, Doc, MarkUsedNext, Unanswered, pageVars,
           dataVars
  <2>2. ShapeOf(a)'
    BY <1>6
       DEF ShapeOf, TypeOK, InFlight, Awaiting, Redeeming, SigningUp,
           TurnedAway, MarkUsedNext, Unanswered, pageVars, dataVars
  <2>3. QED
    BY <2>1, <2>2
<1>7. CASE ProfileWritten(a)
  <2>1. PlainType'
    BY <1>7
       DEF PlainType, TypeOK, Accounts, Awaiting, SigningUp, Messages,
           TurnedAway, Requests, Doc, ProfileWritten, runVars, netVars,
           dataVars, histVars
  <2>2. ShapeOf(a)'
    BY <1>7
       DEF ShapeOf, TypeOK, InFlight, Awaiting, Redeeming, SigningUp,
           TurnedAway, ProfileWritten, runVars, netVars, dataVars, histVars
  <2>3. QED
    BY <2>1, <2>2
<1>8. CASE SignedUp(a)
  <2>1. PlainType'
    BY <1>8
       DEF PlainType, TypeOK, Accounts, Awaiting, SigningUp, Messages,
           TurnedAway, Requests, Doc, SignedUp, Tell, netVars, pageVars,
           dataVars, histVars
  <2>2. ShapeOf(a)'
    BY <1>8
       DEF ShapeOf, TypeOK, InFlight, Awaiting, Redeeming, SigningUp,
           TurnedAway, SignedUp, Tell, netVars, pageVars, dataVars, histVars
  <2>3. QED
    BY <2>1, <2>2
<1>9. QED
  BY <1>1, <1>2, <1>3, <1>4, <1>5, <1>6, <1>7, <1>8 DEF SignUp

LEMMA FirestoreType ==
    ASSUME Typed, NEW a \in Attempts, Firestore(a)
    PROVE  PlainType' /\ ShapeOf(a)'
<1>0. ShapeOf(a) /\ TypeOK
  BY DEF Typed, Shape
<1> USE <1>0, AccountsAssumption, CodesAssumption
<1>1. CASE MarkLands(a)
  <2>1. PlainType'
    BY <1>1
       DEF PlainType, TypeOK, Accounts, Awaiting, SigningUp, Redeeming,
           Messages, TurnedAway, Requests, Doc, MarkLands, MarkArrives,
           runVars, pageVars, histVars
  <2>2. ShapeOf(a)'
    BY <1>1
       DEF ShapeOf, TypeOK, InFlight, Awaiting, Redeeming, SigningUp,
           TurnedAway, MarkLands, MarkArrives, runVars, pageVars, histVars
  <2>3. QED
    BY <2>1, <2>2
<1>2. CASE MarkFails(a)
  <2>1. PlainType'
    BY <1>2
       DEF PlainType, TypeOK, Accounts, Awaiting, SigningUp, Redeeming,
           Messages, TurnedAway, Requests, Doc, MarkFails, MarkArrives,
           runVars, pageVars, dataVars
  <2>2. ShapeOf(a)'
    BY <1>2
       DEF ShapeOf, TypeOK, InFlight, Awaiting, Redeeming, SigningUp,
           TurnedAway, MarkFails, MarkArrives, runVars, pageVars, dataVars
  <2>3. QED
    BY <2>1, <2>2
<1>3. CASE CreditLands(a)
  <2>1. PlainType'
    BY <1>3
       DEF PlainType, TypeOK, Accounts, Awaiting, SigningUp, Redeeming,
           Messages, TurnedAway, Requests, Doc, CreditLands, runVars, pageVars,
           histVars
  <2>2. ShapeOf(a)'
    BY <1>3
       DEF ShapeOf, TypeOK, InFlight, Awaiting, Redeeming, SigningUp,
           TurnedAway, CreditLands, runVars, pageVars, histVars
  <2>3. QED
    BY <2>1, <2>2
<1>4. CASE CreditFails(a)
  <2>1. PlainType'
    BY <1>4
       DEF PlainType, TypeOK, Accounts, Awaiting, SigningUp, Redeeming,
           Messages, TurnedAway, Requests, Doc, CreditFails, runVars, pageVars,
           dataVars
  <2>2. ShapeOf(a)'
    BY <1>4
       DEF ShapeOf, TypeOK, InFlight, Awaiting, Redeeming, SigningUp,
           TurnedAway, CreditFails, runVars, pageVars, dataVars
  <2>3. QED
    BY <2>1, <2>2
<1>5. QED
  BY <1>1, <1>2, <1>3, <1>4 DEF Firestore

\* The owner, the clock, other tabs and closed pages.
LEMMA SurroundingsType ==
    ASSUME Typed, Surroundings
    PROVE  PlainType' /\ Shape'
<1> USE DEF Typed
<1>1. ASSUME NEW c \in Codes, GenerateStored(c) \/ GenerateFailed(c) \/ Expire(c)
      PROVE  PlainType' /\ Shape'
  <2>0. doc \in [Codes -> Doc] /\ doc[c] \in Doc
    BY DEF TypeOK
  <2>1. PlainType'
    <3>1. CASE GenerateStored(c)
      BY <3>1, <2>0 DEF PlainType, TypeOK, Doc, GenerateStored, runVars,
              netVars, pageVars, histVars
    <3>2. CASE GenerateFailed(c)
      BY <3>2 DEF PlainType, TypeOK, GenerateFailed, runVars, netVars,
              pageVars, histVars
    <3>3. CASE Expire(c)
      BY <3>3, <2>0 DEF PlainType, TypeOK, Doc, Expire, runVars, netVars,
              pageVars, histVars
    <3>4. QED
      BY <1>1, <3>1, <3>2, <3>3
  <2>2. \A b \in Attempts : Untouched(b)
    BY <1>1 DEF Untouched, GenerateStored, GenerateFailed, Expire, runVars,
            netVars, pageVars, histVars
  <2>3. QED
    BY <2>1, <2>2, ShapeStays DEF Shape
<1>2. ASSUME NEW a \in Attempts, NEW u \in Users \cup {NoUser}, OtherTab(a, u)
      PROVE  PlainType' /\ Shape'
  <2>1. PlainType'
    BY <1>2 DEF PlainType, TypeOK, Accounts, OtherTab, runVars, netVars,
            dataVars
  <2>2. ASSUME NEW b \in Attempts PROVE ShapeOf(b)'
    BY <1>2, <2>2 DEF Shape, ShapeOf, InFlight, TypeOK, OtherTab, runVars,
            netVars
  <2>3. QED
    BY <2>1, <2>2 DEF Shape
<1>3. ASSUME NEW a \in Attempts, ClosePage(a)
      PROVE  PlainType' /\ Shape'
  <2>1. PlainType'
    BY <1>3 DEF PlainType, TypeOK, ClosePage, netVars, pageVars, dataVars
  <2>2. ASSUME NEW b \in Attempts PROVE ShapeOf(b)'
    <3>1. /\ pc' = [pc EXCEPT ![a] = "closed"]
          /\ pc \in [Attempts -> Awaiting \cup {"idle", "done", "closed"}]
      BY <1>3 DEF ClosePage, TypeOK
    <3>2. ShapeOf(b) /\ InFlight(a) /\ ShapeOf(a)
      BY <1>3 DEF Shape, ClosePage
    <3>3. CASE b = a
      BY <1>3, <3>1, <3>2, <3>3
         DEF ShapeOf, InFlight, Awaiting, Redeeming, SigningUp, ClosePage,
             netVars, pageVars
    <3>4. CASE b # a
      BY <1>3, <3>1, <3>2, <3>4
         DEF ShapeOf, InFlight, ClosePage, netVars, pageVars
    <3>5. QED
      BY <3>3, <3>4
  <2>3. QED
    BY <2>1, <2>2 DEF Shape
<1>4. QED
  BY <1>1, <1>2, <1>3 DEF Surroundings

LEMMA StepTyped ==
    ASSUME Typed, [Next]_vars
    PROVE  Typed'
<1>1. ASSUME NEW a \in Redemptions, Redeem(a) PROVE Typed'
  BY <1>1, RedeemType, ShapeOfOne, TypedNext DEF Attempts
<1>2. ASSUME NEW a \in SignUps, SignUp(a) PROVE Typed'
  BY <1>2, SignUpType, ShapeOfOne, TypedNext DEF Attempts
<1>3. ASSUME NEW a \in Attempts, Firestore(a) PROVE Typed'
  BY <1>3, FirestoreType, ShapeOfOne, TypedNext
<1>4. CASE Surroundings
  BY <1>4, SurroundingsType, TypedNext
<1>5. CASE UNCHANGED vars
  BY <1>5 DEF vars, runVars, netVars, pageVars, dataVars, histVars, Typed,
          TypeOK, Shape, ShapeOf, InFlight
<1>6. QED
  BY <1>1, <1>2, <1>3, <1>4, <1>5 DEF Next

LEMMA AlwaysTyped == Spec => []Typed
<1>1. Init => Typed
  BY InitTyped
<1>2. Typed /\ [Next]_vars => Typed'
  BY StepTyped
<1>3. QED
  BY <1>1, <1>2, PTL DEF Spec

\* Every variable of PassCodes keeps its type, and a redemption that writes
\* knows the code, the account and whose token it uses.
THEOREM TypeCorrect == Spec => []TypeOK
<1>1. Typed => TypeOK
  BY DEF Typed
<1>2. QED
  BY <1>1, AlwaysTyped, PTL

-----------------------------------------------------------------------------
(***************************************************************************)
(* What stays: codes are listed once, and never become unspent again.      *)
(***************************************************************************)

\* An attempt never changes the code it began with.
LEMMA CodeStays ==
    ASSUME Typed, [Next]_vars, NEW a \in Attempts, code[a] # NoCode
    PROVE  code'[a] = code[a]
<1>1. ShapeOf(a) /\ TypeOK
  BY DEF Typed, Shape
<1>2. ASSUME NEW b \in Redemptions, Redeem(b) PROVE code'[a] = code[a]
  BY <1>1, <1>2
     DEF ShapeOf, TypeOK, Redeem, RedeemSignedOut, ClickRedeem, Begin,
         ReadRefused, ReadFails, ReadGood, TokenSettles, SendMark, CreditNext,
         Redeemed, Conclude, Tell, SendCredit, Unanswered
<1>3. ASSUME NEW b \in SignUps, SignUp(b) PROVE code'[a] = code[a]
  BY <1>1, <1>3
     DEF ShapeOf, TypeOK, runVars, SignUp, ClickSignUp, ValidateRefused,
         ValidateGood, AccountRefused, AccountCreated, MarkUsedNext,
         ProfileWritten, SignedUp, Tell, SendCredit, Unanswered
<1>4. ASSUME NEW b \in Attempts, Firestore(b) PROVE code'[a] = code[a]
  BY <1>4
     DEF runVars, Firestore, MarkLands, MarkFails, CreditLands, CreditFails
<1>5. CASE Surroundings \/ UNCHANGED vars
  BY <1>5
     DEF vars, runVars, Surroundings, GenerateStored, GenerateFailed, Expire,
         OtherTab, ClosePage
<1>6. QED
  BY <1>2, <1>3, <1>4, <1>5 DEF Next

\* Who writes to the collection of codes.
LEMMA DocSteps ==
    ASSUME Typed, [Next]_vars
    PROVE  \/ doc' = doc
           \/ \E c \in Codes :
                GenerateStored(c) \/ Expire(c)
           \/ \E a \in Attempts : MarkLands(a)
<1>1. ASSUME NEW b \in Redemptions, Redeem(b) PROVE doc' = doc
  BY <1>1
     DEF dataVars, Redeem, RedeemSignedOut, ClickRedeem, Begin, ReadRefused,
         ReadFails, ReadGood, TokenSettles, SendMark, CreditNext, Redeemed,
         Conclude, Tell, SendCredit, Unanswered
<1>2. ASSUME NEW b \in SignUps, SignUp(b) PROVE doc' = doc
  BY <1>2
     DEF dataVars, SignUp, ClickSignUp, ValidateRefused, ValidateGood,
         AccountRefused, AccountCreated, MarkUsedNext, ProfileWritten,
         SignedUp, Tell, SendCredit, Unanswered
<1>3. ASSUME NEW b \in Attempts, Firestore(b)
      PROVE  doc' = doc \/ MarkLands(b)
  BY <1>3 DEF Firestore, MarkFails, CreditLands, CreditFails, dataVars
<1>4. CASE Surroundings
  BY <1>4 DEF Surroundings, GenerateFailed, OtherTab, ClosePage, dataVars
<1>5. CASE UNCHANGED vars
  BY <1>5 DEF vars, dataVars
<1>6. QED
  BY <1>1, <1>2, <1>3, <1>4, <1>5 DEF Next

LEMMA SpentStays ==
    ASSUME Typed, Known, [Next]_vars, NEW c \in Codes, doc[c].st = "used"
    PROVE  doc'[c].st = "used"
<1>0. doc \in [Codes -> Doc]
  BY DEF Typed, TypeOK
<1>1. ASSUME NEW d \in Codes, GenerateStored(d) PROVE doc'[c].st = "used"
  BY <1>0, <1>1 DEF GenerateStored, Known, Doc
<1>2. ASSUME NEW d \in Codes, Expire(d) PROVE doc'[c].st = "used"
  BY <1>0, <1>2 DEF Expire, Doc
<1>3. ASSUME NEW a \in Attempts, MarkLands(a) PROVE doc'[c].st = "used"
  BY <1>0, <1>3 DEF MarkLands, Doc
<1>4. QED
  BY <1>1, <1>2, <1>3, DocSteps

\* What is accepted by this step is in the collection.
LEMMA AcceptSteps ==
    ASSUME Typed, [Next]_vars, NEW a \in accepted'
    PROVE  \/ a \in accepted
           \/ Redeemable(code[a]) /\ code[a] \in Codes /\ InFlight(a)
<1>0. \A b \in Attempts : ShapeOf(b)
  BY DEF Typed, Shape
<1>1. ASSUME NEW b \in Redemptions, Redeem(b)
      PROVE  a \in accepted \/ (a = b /\ ReadGood(b))
  <2>1. CASE ReadGood(b)
    <3>1. accepted' = accepted \cup {b}
      BY <2>1 DEF ReadGood
    <3>2. QED
      BY <2>1, <3>1
  <2>2. CASE ~ReadGood(b)
    BY <1>1, <2>2
       DEF Redeem, RedeemSignedOut, ClickRedeem, ReadRefused, ReadFails,
           TokenSettles, CreditNext, Redeemed
  <2>3. QED
    BY <2>1, <2>2
<1>2. ASSUME NEW b \in SignUps, SignUp(b)
      PROVE  a \in accepted \/ (a = b /\ ValidateGood(b))
  BY <1>2
     DEF runVars, ValidateGood, SignUp, ClickSignUp, ValidateRefused,
         AccountRefused, AccountCreated, MarkUsedNext, ProfileWritten,
         SignedUp, Tell, SendCredit, Unanswered
<1>3. ASSUME NEW b \in Attempts, Firestore(b) PROVE a \in accepted
  BY <1>3
     DEF runVars, Firestore, MarkLands, MarkFails, CreditLands, CreditFails
<1>4. CASE Surroundings \/ UNCHANGED vars
  BY <1>4
     DEF vars, runVars, Surroundings, GenerateStored, GenerateFailed, Expire,
         OtherTab, ClosePage
<1>5. QED
  BY <1>0, <1>1, <1>2, <1>3, <1>4
     DEF Next, ReadGood, ValidateGood, ShapeOf, InFlight, Awaiting, Redeeming,
         SigningUp, Attempts

LEMMA StepKnown ==
    ASSUME Typed, Known, [Next]_vars
    PROVE  Known'
<1>0. /\ doc \in [Codes -> Doc] /\ doc' \in [Codes -> Doc]
      /\ listed \subseteq Codes /\ accepted \subseteq Attempts
      /\ \A a \in Attempts : ShapeOf(a)
  BY StepTyped DEF Typed, TypeOK, Shape
<1>1. listed \subseteq listed'
  <2>1. ASSUME NEW b \in Redemptions, Redeem(b) PROVE listed' = listed
    BY <2>1
       DEF dataVars, Redeem, RedeemSignedOut, ClickRedeem, Begin, ReadRefused,
           ReadFails, ReadGood, TokenSettles, SendMark, CreditNext, Redeemed,
           Conclude, Tell, SendCredit, Unanswered
  <2>2. ASSUME NEW b \in SignUps, SignUp(b) PROVE listed' = listed
    BY <2>2
       DEF dataVars, SignUp, ClickSignUp, ValidateRefused, ValidateGood,
           AccountRefused, AccountCreated, MarkUsedNext, ProfileWritten,
           SignedUp, Tell, SendCredit, Unanswered
  <2>3. ASSUME NEW b \in Attempts, Firestore(b) PROVE listed' = listed
    BY <2>3
       DEF dataVars, Firestore, MarkLands, MarkFails, CreditLands, CreditFails
  <2>4. CASE Surroundings \/ UNCHANGED vars
    BY <2>4
       DEF vars, dataVars, Surroundings, GenerateStored, GenerateFailed,
           Expire, OtherTab, ClosePage
  <2>5. QED
    BY <2>1, <2>2, <2>3, <2>4 DEF Next
<1>2. ASSUME NEW c \in Codes, doc'[c].st # "none" PROVE c \in listed'
  <2>1. CASE doc' = doc
    BY <1>1, <1>2, <2>1 DEF Known
  <2>2. ASSUME NEW d \in Codes, GenerateStored(d) PROVE c \in listed'
    BY <1>0, <1>1, <1>2, <2>2 DEF GenerateStored, Known
  <2>3. ASSUME NEW d \in Codes, Expire(d) PROVE c \in listed'
    BY <1>0, <1>1, <1>2, <2>3 DEF Expire, Known, Doc
  <2>4. ASSUME NEW a \in Attempts, MarkLands(a) PROVE c \in listed'
    <3>1. a \in accepted /\ code[a] \in Codes
      BY <1>0, <2>4 DEF MarkLands, MarkArrives, ShapeOf
    <3>2. QED
      BY <1>0, <1>1, <1>2, <2>4, <3>1 DEF MarkLands, Known, Doc
  <2>5. QED
    BY <2>1, <2>2, <2>3, <2>4, DocSteps
<1>3. ASSUME NEW a \in accepted' PROVE code'[a] \in listed'
  <2>1. a \in accepted \/ (Redeemable(code[a]) /\ code[a] \in Codes)
    BY AcceptSteps
  <2>2. a \in Attempts
    BY StepTyped DEF Typed, TypeOK
  <2>3. code[a] \in Codes
    BY <1>0, <2>1, <2>2 DEF ShapeOf
  <2>4. code'[a] = code[a]
    BY <2>2, <2>3, CodeStays, CodesAssumption
  <2>5. code[a] \in listed
    BY <2>1, <2>3 DEF Known, Redeemable, NotUsed
  <2>6. QED
    BY <1>1, <2>4, <2>5
<1>4. QED
  BY <1>2, <1>3 DEF Known

LEMMA InitKnown == Init => Known
BY DEF Init, Known, NoDoc

-----------------------------------------------------------------------------
(***************************************************************************)
(* How the two writes of an attempt follow each other.                     *)
(***************************************************************************)

LEMMA WritesStay ==
    ASSUME NEW a \in Attempts, WritesOf(a), Untouched(a)
    PROVE  WritesOf(a)'
BY DEF WritesOf, Untouched

LEMMA RedeemWrites ==
    ASSUME Typed, Writes, NEW a \in Redemptions, Redeem(a), a \notin mishaps'
    PROVE  WritesOf(a)'
<1>0. /\ a \in Attempts /\ a \notin SignUps /\ ShapeOf(a) /\ TypeOK
      /\ a \notin mishaps /\ WritesOf(a)
  BY AttemptsAssumption
     DEF Typed, Shape, Writes, Attempts, Redeem, RedeemSignedOut, ClickRedeem,
         ReadRefused, ReadFails, ReadGood, TokenSettles, CreditNext, Redeemed,
         Unanswered, histVars
<1> USE <1>0
<1>1. CASE RedeemSignedOut(a)
  BY <1>1
     DEF WritesOf, ShapeOf, TypeOK, InFlight, Awaiting, Redeeming, SigningUp,
         Requests, RedeemSignedOut, Tell, netVars, pageVars
<1>2. ASSUME NEW c \in Codes, ClickRedeem(a, c) PROVE WritesOf(a)'
  BY <1>2
     DEF WritesOf, ShapeOf, TypeOK, InFlight, Awaiting, Redeeming, SigningUp,
         Requests, ClickRedeem, Begin, netVars, pageVars
<1>3. CASE ReadRefused(a)
  BY <1>3
     DEF WritesOf, ShapeOf, TypeOK, InFlight, Awaiting, Redeeming, SigningUp,
         Requests, ReadRefused, Tell, netVars, pageVars
<1>4. CASE ReadFails(a)
  BY <1>4
     DEF WritesOf, ShapeOf, TypeOK, InFlight, Awaiting, Redeeming, SigningUp,
         Requests, ReadFails, Tell, netVars
<1>5. CASE ReadGood(a)
  BY <1>5
     DEF WritesOf, ShapeOf, TypeOK, InFlight, Awaiting, Redeeming, SigningUp,
         Requests, ReadGood, HasToken, Conclude, Tell, netVars
<1>6. CASE TokenSettles(a)
  BY <1>6
     DEF WritesOf, ShapeOf, TypeOK, InFlight, Awaiting, Redeeming, SigningUp,
         Requests, TokenSettles, SendMark, HasToken, Conclude, Tell, netVars
<1>7. CASE CreditNext(a)
  BY <1>7
     DEF WritesOf, ShapeOf, TypeOK, InFlight, Awaiting, Redeeming, SigningUp,
         Requests, CreditNext, SendCredit, Unanswered, pageVars
<1>8. CASE Redeemed(a)
  BY <1>8
     DEF WritesOf, ShapeOf, TypeOK, InFlight, Awaiting, Redeeming, SigningUp,
         Requests, Redeemed, Conclude, Tell, Unanswered, netVars
<1>9. QED
  BY <1>1, <1>2, <1>3, <1>4, <1>5, <1>6, <1>7, <1>8 DEF Redeem

LEMMA SignUpWrites ==
    ASSUME Typed, Writes, NEW a \in SignUps, SignUp(a), a \notin mishaps'
    PROVE  WritesOf(a)'
<1>0. /\ a \in Attempts /\ a \notin Redemptions /\ ShapeOf(a) /\ TypeOK
      /\ a \notin mishaps /\ WritesOf(a)
  BY AttemptsAssumption
     DEF Typed, Shape, Writes, Attempts, SignUp, ClickSignUp, ValidateRefused,
         ValidateGood, AccountRefused, AccountCreated, MarkUsedNext,
         ProfileWritten, SignedUp, Unanswered, histVars
<1> USE <1>0
<1>1. ASSUME NEW c \in Codes, ClickSignUp(a, c) PROVE WritesOf(a)'
  BY <1>1
     DEF WritesOf, ShapeOf, TypeOK, InFlight, Awaiting, Redeeming, SigningUp,
         Requests, ClickSignUp, netVars, pageVars
<1>2. CASE ValidateRefused(a)
  BY <1>2
     DEF WritesOf, ShapeOf, TypeOK, InFlight, Awaiting, Redeeming, SigningUp,
         Requests, ValidateRefused, Tell, netVars, pageVars
<1>3. CASE ValidateGood(a)
  BY <1>3
     DEF WritesOf, ShapeOf, TypeOK, InFlight, Awaiting, Redeeming, SigningUp,
         Requests, ValidateGood, netVars, pageVars
<1>4. CASE AccountRefused(a)
  BY <1>4
     DEF WritesOf, ShapeOf, TypeOK, InFlight, Awaiting, Redeeming, SigningUp,
         Requests, AccountRefused, Tell, netVars, pageVars
<1>5. CASE AccountCreated(a)
  BY <1>5
     DEF WritesOf, ShapeOf, TypeOK, InFlight, Awaiting, Redeeming, SigningUp,
         Requests, AccountCreated, SendCredit, histVars
<1>6. CASE MarkUsedNext(a)
  BY <1>6
     DEF WritesOf, ShapeOf, TypeOK, InFlight, Awaiting, Redeeming, SigningUp,
         Requests, MarkUsedNext, Unanswered, pageVars
<1>7. CASE ProfileWritten(a)
  BY <1>7
     DEF WritesOf, ShapeOf, TypeOK, InFlight, Awaiting, Redeeming, SigningUp,
         Requests, ProfileWritten, runVars, netVars
<1>8. CASE SignedUp(a)
  BY <1>8
     DEF WritesOf, ShapeOf, TypeOK, InFlight, Awaiting, Redeeming, SigningUp,
         Requests, SignedUp, Tell, netVars, pageVars
<1>9. QED
  BY <1>1, <1>2, <1>3, <1>4, <1>5, <1>6, <1>7, <1>8 DEF SignUp

LEMMA FirestoreWrites ==
    ASSUME Typed, Writes, NEW a \in Attempts, Firestore(a), a \notin mishaps'
    PROVE  WritesOf(a)'
<1>0. /\ ShapeOf(a) /\ TypeOK /\ a \notin mishaps /\ WritesOf(a)
      /\ (a \in Redemptions <=> a \notin SignUps)
  BY AttemptsAssumption
     DEF Typed, Shape, Writes, Attempts, Firestore, MarkLands, MarkFails,
         CreditLands, CreditFails, histVars
<1> USE <1>0
<1>1. CASE MarkLands(a)
  BY <1>1
     DEF WritesOf, ShapeOf, TypeOK, InFlight, Awaiting, Redeeming, SigningUp,
         Requests, MarkLands, MarkArrives, runVars, pageVars
<1>2. CASE MarkFails(a)
  BY <1>2
     DEF WritesOf, ShapeOf, TypeOK, InFlight, Awaiting, Redeeming, SigningUp,
         Requests, MarkFails, runVars
<1>3. CASE CreditLands(a)
  BY <1>3
     DEF WritesOf, ShapeOf, TypeOK, InFlight, Awaiting, Redeeming, SigningUp,
         Requests, CreditLands, runVars, pageVars
<1>4. CASE CreditFails(a)
  BY <1>4
     DEF WritesOf, ShapeOf, TypeOK, InFlight, Awaiting, Redeeming, SigningUp,
         Requests, CreditFails, runVars
<1>5. QED
  BY <1>1, <1>2, <1>3, <1>4 DEF Firestore

LEMMA StepWrites ==
    ASSUME Typed, Known, Writes, [Next]_vars
    PROVE  Writes'
<1>0. TypeOK /\ (\A a \in Attempts : ShapeOf(a)) /\ Redemptions \subseteq Attempts
  BY DEF Typed, Shape, Attempts
<1>1. ASSUME NEW a \in Attempts, a \notin mishaps' PROVE WritesOf(a)'
  <2>1. ASSUME NEW b \in Attempts, Redeem(b) \/ SignUp(b) \/ Firestore(b), b # a
        PROVE  WritesOf(a)'
    BY <1>1, <2>1, OthersUntouched, WritesStay DEF Untouched, Writes
  <2>2. CASE a \in Redemptions /\ Redeem(a)
    BY <1>1, <2>2, RedeemWrites
  <2>3. CASE a \in SignUps /\ SignUp(a)
    BY <1>1, <2>3, SignUpWrites
  <2>4. CASE Firestore(a)
    BY <1>1, <2>4, FirestoreWrites
  <2>5. CASE Surroundings \/ UNCHANGED vars
    <3>1. /\ a \notin mishaps
          /\ pc'[a] = pc[a] /\ mark'[a] = mark[a] /\ credit'[a] = credit[a]
          /\ (a \in accepted') = (a \in accepted)
          /\ (a \in unlocked') = (a \in unlocked)
      BY <1>0, <1>1, <2>5
         DEF TypeOK, Surroundings, GenerateStored, GenerateFailed, Expire,
             OtherTab, ClosePage, vars, runVars, netVars, pageVars, histVars
    <3>2. QED
      BY <3>1 DEF Writes, WritesOf
  <2>6. QED
    BY <2>1, <2>2, <2>3, <2>4, <2>5 DEF Next, Attempts
<1>2. ASSUME NEW a \in Redemptions, mark'[a] = "landed"
      PROVE  doc'[code'[a]].st = "used"
  <2>0. a \in Attempts /\ a \notin SignUps
    BY AttemptsAssumption DEF Attempts
  <2>1. CASE mark[a] = "landed"
    <3>1. code[a] \in Codes /\ doc[code[a]].st = "used"
      BY <1>0, <2>0, <2>1 DEF ShapeOf, Writes
    <3>2. QED
      BY <2>0, <3>1, CodeStays, SpentStays, CodesAssumption
  <2>2. CASE mark[a] # "landed"
    <3>1. MarkLands(a)
      <4>1. ASSUME NEW b \in Attempts, Redeem(b) \/ SignUp(b) \/ Firestore(b), b # a
            PROVE  FALSE
        BY <1>2, <2>0, <2>2, <4>1, OthersUntouched DEF Untouched
      <4>2. CASE Redeem(a)
        BY <1>0, <1>2, <2>0, <2>2, <4>2
           DEF TypeOK, Redeem, RedeemSignedOut, ClickRedeem, ReadRefused,
               ReadFails, ReadGood, TokenSettles, SendMark, CreditNext,
               Redeemed, netVars
      <4>3. CASE Firestore(a)
        BY <1>0, <1>2, <2>0, <2>2, <4>3
           DEF TypeOK, Firestore, MarkFails, CreditLands, CreditFails
      <4>4. CASE Surroundings \/ UNCHANGED vars
        BY <1>2, <2>2, <4>4
           DEF Surroundings, GenerateStored, GenerateFailed, Expire, OtherTab,
               ClosePage, vars, netVars
      <4>5. QED
        BY <2>0, <4>1, <4>2, <4>3, <4>4 DEF Next, Attempts
    <3>2. code[a] \in Codes /\ doc \in [Codes -> Doc] /\ code' = code
      BY <1>0, <2>0, <3>1 DEF ShapeOf, TypeOK, MarkLands, MarkArrives, runVars
    <3>3. QED
      BY <1>2, <2>0, <3>1, <3>2 DEF MarkLands, Doc
  <2>3. QED
    BY <2>1, <2>2
<1>3. QED
  BY <1>1, <1>2 DEF Writes

LEMMA InitWrites == Init => Writes
BY AttemptsAssumption DEF Init, Writes, WritesOf, Attempts

\* What the next theorems rest on.
Basis == Typed /\ Known /\ Writes

LEMMA AlwaysBasis == Spec => []Basis
<1>1. Init => Basis
  BY InitTyped, InitKnown, InitWrites DEF Basis
<1>2. Basis /\ [Next]_vars => Basis'
  BY StepTyped, StepKnown, StepWrites DEF Basis
<1>3. QED
  BY <1>1, <1>2, PTL DEF Spec

\* A user does not lose a code: an attempt that ended with its code marked has
\* credited its account, in Firestore and in the browser, unless a write of it
\* was refused or unanswered, its page was closed or another tab changed the
\* account.
THEOREM NothingLost == Spec => []SpentIsCredited
<1>1. Basis => SpentIsCredited
  BY DEF Basis, Typed, Shape, ShapeOf, Writes, WritesOf, SpentIsCredited,
         Attempts
<1>2. QED
  BY <1>1, AlwaysBasis, PTL

\* A redemption that credited its account, with no write refused or
\* unanswered, has spent its code.
THEOREM NothingFree == Spec => []CreditedIsSpent
<1>1. Basis => CreditedIsSpent
  BY DEF Basis, Writes, WritesOf, CreditedIsSpent, Attempts
<1>2. QED
  BY <1>1, AlwaysBasis, PTL

-----------------------------------------------------------------------------
(***************************************************************************)
(* One use at a time means one use.                                        *)
(***************************************************************************)

\* Only a click starts an attempt or gives it a code.
LEMMA ClickSteps ==
    ASSUME Typed, [Next]_vars, NEW a \in Attempts,
           code'[a] # code[a] \/ (InFlight(a)' /\ ~InFlight(a))
    PROVE  \E c \in Codes :
              \/ a \in Redemptions /\ ClickRedeem(a, c)
              \/ a \in SignUps /\ ClickSignUp(a, c)
<1>0. TypeOK
  BY DEF Typed
<1>1. ASSUME NEW b \in Attempts, Redeem(b) \/ SignUp(b) \/ Firestore(b), b # a
      PROVE  FALSE
  BY <1>1, OthersUntouched DEF Untouched, InFlight
<1>2. CASE a \in Redemptions /\ Redeem(a)
  <2>1. CASE \E c \in Codes : ClickRedeem(a, c)
    BY <1>2, <2>1
  <2>2. CASE ~\E c \in Codes : ClickRedeem(a, c)
    <3>1. code' = code
      BY <1>2, <2>2
         DEF Redeem, RedeemSignedOut, ReadRefused, ReadFails, ReadGood,
             TokenSettles, CreditNext, Redeemed
    <3>2. InFlight(a) \/ RedeemSignedOut(a)
      BY <1>2, <2>2
         DEF InFlight, Awaiting, Redeeming, Redeem, ReadRefused, ReadFails,
             ReadGood, TokenSettles, CreditNext, Redeemed
    <3>3. RedeemSignedOut(a) => pc'[a] = "done"
      BY <1>0 DEF RedeemSignedOut, Tell, TypeOK
    <3>4. QED
      BY <3>1, <3>2, <3>3 DEF InFlight, Awaiting, Redeeming, SigningUp
  <2>3. QED
    BY <2>1, <2>2
<1>3. CASE a \in SignUps /\ SignUp(a)
  <2>1. CASE \E c \in Codes : ClickSignUp(a, c)
    BY <1>3, <2>1
  <2>2. CASE ~\E c \in Codes : ClickSignUp(a, c)
    BY <1>0, <1>3, <2>2
       DEF TypeOK, InFlight, Awaiting, SigningUp, runVars, SignUp,
           ValidateRefused, ValidateGood, AccountRefused, AccountCreated,
           MarkUsedNext, ProfileWritten, SignedUp, Tell, SendCredit, Unanswered
  <2>3. QED
    BY <2>1, <2>2
<1>4. CASE Firestore(a)
  BY <1>4
     DEF InFlight, runVars, Firestore, MarkLands, MarkFails, CreditLands,
         CreditFails
<1>5. CASE Surroundings \/ UNCHANGED vars
  BY <1>0, <1>5
     DEF TypeOK, InFlight, Awaiting, Redeeming, SigningUp, vars, runVars,
         Surroundings, GenerateStored, GenerateFailed, Expire, OtherTab,
         ClosePage
<1>6. QED
  BY <1>1, <1>2, <1>3, <1>4, <1>5 DEF Next, Attempts

LEMMA MishapsStay ==
    ASSUME Typed, [Next]_vars
    PROVE  contested \subseteq contested' /\ mishaps \subseteq mishaps'
<1>1. ASSUME NEW b \in Redemptions, Redeem(b)
      PROVE  contested \subseteq contested' /\ mishaps \subseteq mishaps'
  BY <1>1
     DEF histVars, Redeem, RedeemSignedOut, ClickRedeem, Begin, ReadRefused,
         ReadFails, ReadGood, TokenSettles, SendMark, CreditNext, Redeemed,
         Conclude, Tell, SendCredit, Unanswered
<1>2. ASSUME NEW b \in SignUps, SignUp(b)
      PROVE  contested \subseteq contested' /\ mishaps \subseteq mishaps'
  BY <1>2
     DEF histVars, SignUp, ClickSignUp, ValidateRefused, ValidateGood,
         AccountRefused, AccountCreated, MarkUsedNext, ProfileWritten,
         SignedUp, Tell, SendCredit, Unanswered
<1>3. ASSUME NEW b \in Attempts, Firestore(b)
      PROVE  contested \subseteq contested' /\ mishaps \subseteq mishaps'
  BY <1>3
     DEF histVars, Firestore, MarkLands, MarkFails, CreditLands, CreditFails
<1>4. CASE Surroundings \/ UNCHANGED vars
  BY <1>4
     DEF vars, histVars, Surroundings, GenerateStored, GenerateFailed, Expire,
         OtherTab, ClosePage
<1>5. QED
  BY <1>1, <1>2, <1>3, <1>4 DEF Next

LEMMA DisturbedStays ==
    ASSUME Typed, [Next]_vars, NEW c \in Codes, Undisturbed(c)'
    PROVE  Undisturbed(c)
<1>1. mishaps \subseteq Attempts
  BY DEF Typed, TypeOK
<1>2. ASSUME NEW a \in mishaps, code[a] = c PROVE FALSE
  BY <1>1, <1>2, CodeStays, MishapsStay, CodesAssumption DEF Undisturbed
<1>3. QED
  BY <1>2, MishapsStay DEF Undisturbed

\* An undisturbed attempt that found its code good is still under way or has
\* spent the code.
LEMMA AcceptedAndDone ==
    ASSUME Basis, NEW a \in Redemptions, a \in accepted, a \notin mishaps,
           ~InFlight(a)
    PROVE  doc[code[a]].st = "used"
BY DEF Basis, Typed, TypeOK, Shape, ShapeOf, InFlight, Writes, WritesOf,
       Attempts

LEMMA StepInTurn ==
    ASSUME Basis, InTurn, [Next]_vars
    PROVE  InTurn'
<1>0. Typed /\ TypeOK /\ \A d \in Attempts : ShapeOf(d)
  BY DEF Basis, Typed, Shape
<1> USE <1>0
<1>1. SUFFICES ASSUME NEW a \in Attempts, NEW b \in Attempts, NEW c \in Codes,
                      code'[a] = c, code'[b] = c, Undisturbed(c)'
               PROVE  /\ a \in Redemptions
                      /\ InFlight(a)' /\ InFlight(b)' => a = b
                      /\ a \in accepted' /\ b \in accepted' => a = b
  BY DEF InTurn, InFlight
<1>2. Undisturbed(c)
  BY <1>1, DisturbedStays
\* An attempt that starts on c in this step is a redemption, and nobody else
\* is under way.
<1>3. ASSUME NEW d \in Attempts, code'[d] = c, code[d] # c
      PROVE  /\ d \in Redemptions /\ d \notin accepted'
             /\ \A e \in Attempts : e # d /\ code'[e] = c =>
                  code[e] = c /\ ~InFlight(e) /\ ~InFlight(e)'
  <2>1. PICK k \in Codes : \/ d \in Redemptions /\ ClickRedeem(d, k)
                           \/ d \in SignUps /\ ClickSignUp(d, k)
    BY <1>3, ClickSteps
  <2>2. d \notin accepted'
    BY <2>1 DEF ClickRedeem, ClickSignUp, ShapeOf
  <2>3. k = c
    BY <1>3, <2>1 DEF ClickRedeem, ClickSignUp, Begin, TypeOK
  <2>4. d \in Redemptions /\ ClickRedeem(d, c)
    BY <1>1, <2>1, <2>3 DEF ClickSignUp, Undisturbed
  <2>5. ~\E e \in Attempts : e # d /\ code[e] = c /\ Active(e)
    BY <1>1, <2>4 DEF ClickRedeem, Begin, Undisturbed
  <2>6. ASSUME NEW e \in Attempts, e # d, code'[e] = c
        PROVE  code[e] = c /\ ~InFlight(e) /\ ~InFlight(e)'
    <3>1. code'[e] = code[e] /\ pc'[e] = pc[e]
      BY <2>4, <2>6 DEF ClickRedeem, Begin, TypeOK
    <3>2. QED
      BY <2>5, <2>6, <3>1 DEF Active, InFlight
  <2>7. QED
    BY <2>2, <2>4, <2>6
<1>4. CASE code[a] # c \/ code[b] # c
  <2>1. a \in Redemptions
    <3>1. CASE code[a] # c
      BY <1>1, <1>3, <3>1
    <3>2. CASE code[a] = c
      BY <1>1, <1>2, <3>2 DEF InTurn
    <3>3. QED
      BY <3>1, <3>2
  <2>2. QED
    BY <1>1, <1>3, <1>4, <2>1
<1>5. CASE code[a] = c /\ code[b] = c
  <2>1. /\ a \in Redemptions /\ b \in Redemptions
        /\ InFlight(a) /\ InFlight(b) => a = b
        /\ a \in accepted /\ b \in accepted => a = b
    BY <1>2, <1>5 DEF InTurn
  <2>2. ASSUME NEW d \in Attempts, code[d] = c, code'[d] = c, InFlight(d)'
        PROVE  InFlight(d)
    <3>1. ASSUME NEW k \in Codes, ClickRedeem(d, k) \/ ClickSignUp(d, k)
          PROVE  FALSE
      BY <2>2, <3>1, CodesAssumption DEF ClickRedeem, ClickSignUp, ShapeOf
    <3>2. QED
      BY <2>2, <3>1, ClickSteps
  <2>3. a \notin mishaps /\ b \notin mishaps
    BY <1>2, <1>5 DEF Undisturbed
  \* The second one to find c good would find it used.
  <2>4. ASSUME NEW d \in Redemptions, NEW e \in Redemptions, code[d] = c,
               code[e] = c, e \notin mishaps, d \in accepted', e \in accepted,
               InFlight(d) /\ InFlight(e) => d = e
        PROVE  d \in accepted \/ d = e
    <3>1. CASE d \in accepted
      BY <3>1
    <3>2. CASE d \notin accepted
      <4>1. Redeemable(c) /\ InFlight(d)
        BY <2>4, <3>2, AcceptSteps
      <4>2. CASE InFlight(e)
        BY <2>4, <4>1, <4>2
      <4>3. CASE ~InFlight(e)
        <5>1. doc[c].st = "used"
          BY <2>4, <4>3, AcceptedAndDone
        <5>2. QED
          BY <4>1, <5>1 DEF Redeemable, NotUsed
      <4>4. QED
        BY <4>2, <4>3
    <3>3. QED
      BY <3>1, <3>2
  <2>5. a \in accepted' /\ b \in accepted' => a = b
    <3>1. CASE a \in accepted /\ b \in accepted
      BY <2>1, <3>1
    <3>2. CASE a \notin accepted /\ b \notin accepted
      BY <2>1, <3>2, AcceptSteps
    <3>3. CASE a \notin accepted /\ b \in accepted
      BY <1>5, <2>1, <2>3, <2>4, <3>3
    <3>4. CASE a \in accepted /\ b \notin accepted
      BY <1>5, <2>1, <2>3, <2>4, <3>4
    <3>5. QED
      BY <3>1, <3>2, <3>3, <3>4
  <2>6. QED
    BY <1>1, <1>5, <2>1, <2>2, <2>5
<1>6. QED
  BY <1>4, <1>5

\* What an accepted attempt is about does not change.
LEMMA AcceptedStays ==
    ASSUME Typed, [Next]_vars, NEW a \in accepted
    PROVE  a \in accepted' /\ code'[a] = code[a] /\ who'[a] = who[a]
<1>0. a \in Attempts /\ TypeOK /\ ShapeOf(a) /\ code[a] # NoCode
  BY CodesAssumption DEF Typed, TypeOK, Shape, ShapeOf
<1>1. code'[a] = code[a]
  BY <1>0, CodeStays
<1>2. ASSUME NEW b \in Attempts, Redeem(b) \/ SignUp(b) \/ Firestore(b), b # a
      PROVE  a \in accepted' /\ who'[a] = who[a]
  BY <1>0, <1>2, OthersUntouched DEF Untouched
<1>3. CASE Redeem(a)
  BY <1>0, <1>3
     DEF ShapeOf, Redeem, RedeemSignedOut, ClickRedeem, ReadRefused, ReadFails,
         ReadGood, TokenSettles, CreditNext, Redeemed
<1>4. CASE SignUp(a)
  BY <1>0, <1>4
     DEF ShapeOf, SignUp, ClickSignUp, ValidateRefused, ValidateGood,
         AccountRefused, AccountCreated, MarkUsedNext, ProfileWritten,
         SignedUp, runVars
<1>5. CASE Firestore(a)
  BY <1>5 DEF Firestore, MarkLands, MarkFails, CreditLands, CreditFails, runVars
<1>6. CASE Surroundings \/ UNCHANGED vars
  BY <1>6 DEF Surroundings, GenerateStored, GenerateFailed, Expire, OtherTab,
          ClosePage, vars, runVars
<1>7. QED
  BY <1>0, <1>1, <1>2, <1>3, <1>4, <1>5, <1>6 DEF Next, Attempts

LEMMA ProfileSteps ==
    ASSUME Typed, [Next]_vars
    PROVE  profile' = profile \/ \E a \in Attempts : CreditLands(a)
<1>1. ASSUME NEW b \in Redemptions, Redeem(b) PROVE profile' = profile
  BY <1>1
     DEF dataVars, Redeem, RedeemSignedOut, ClickRedeem, ReadRefused,
         ReadFails, ReadGood, TokenSettles, CreditNext, Redeemed
<1>2. ASSUME NEW b \in SignUps, SignUp(b) PROVE profile' = profile
  BY <1>2
     DEF dataVars, SignUp, ClickSignUp, ValidateRefused, ValidateGood,
         AccountRefused, AccountCreated, MarkUsedNext, ProfileWritten, SignedUp
<1>3. ASSUME NEW b \in Attempts, Firestore(b)
      PROVE  profile' = profile \/ CreditLands(b)
  BY <1>3 DEF Firestore, MarkLands, MarkFails, CreditFails, dataVars
<1>4. CASE Surroundings \/ UNCHANGED vars
  BY <1>4 DEF Surroundings, GenerateStored, GenerateFailed, Expire, OtherTab,
          ClosePage, vars, dataVars
<1>5. QED
  BY <1>1, <1>2, <1>3, <1>4 DEF Next

LEMMA StepProfiles ==
    ASSUME Typed, ProfilesAreCredited, [Next]_vars
    PROVE  ProfilesAreCredited'
<1>1. SUFFICES ASSUME NEW u \in Accounts, profile'[u] # NoCode
               PROVE  \E a \in Attempts : /\ a \in accepted' /\ who'[a] = u
                                          /\ code'[a] = profile'[u]
  BY DEF ProfilesAreCredited
<1>2. CASE profile'[u] = profile[u]
  <2>1. PICK a \in Attempts :
            a \in accepted /\ who[a] = u /\ code[a] = profile[u]
    BY <1>1, <1>2 DEF ProfilesAreCredited
  <2>2. QED
    BY <1>2, <2>1, AcceptedStays
<1>3. CASE profile'[u] # profile[u]
  <2>1. PICK a \in Attempts : CreditLands(a)
    BY <1>3, ProfileSteps
  <2>2. a \in accepted
    BY <2>1 DEF CreditLands, Typed, Shape, ShapeOf
  <2>3. who[a] = u /\ profile'[u] = code[a]
    BY <1>3, <2>1 DEF CreditLands, Typed, TypeOK
  <2>4. QED
    BY <2>2, <2>3, AcceptedStays
<1>4. QED
  BY <1>2, <1>3

\* A code that two attempts never used at the same time, that no sign-up used
\* and whose writes all arrived makes at most one account premium, however
\* many attempts there are.
THEOREM OneUseInTurn == Spec => []OneTimeUseInTurn
<1>1. Init => InTurn /\ ProfilesAreCredited
  BY CodesAssumption DEF Init, InTurn, ProfilesAreCredited
<1>2. Basis /\ InTurn /\ ProfilesAreCredited /\ [Next]_vars
         => InTurn' /\ ProfilesAreCredited'
  BY StepInTurn, StepProfiles DEF Basis
<1>3. InTurn /\ ProfilesAreCredited => OneTimeUseInTurn
  BY CodesAssumption DEF InTurn, ProfilesAreCredited, OneTimeUseInTurn
<1>4. QED
  BY <1>1, <1>2, <1>3, AlwaysBasis, PTL DEF Spec

\* Nothing is ever taken out of the collection.
LEMMA StoredStays ==
    ASSUME Typed, Known, [Next]_vars, NEW c \in Codes, doc[c].st # "none"
    PROVE  doc'[c].st # "none"
<1>0. doc \in [Codes -> Doc]
  BY DEF Typed, TypeOK
<1>1. ASSUME NEW d \in Codes, GenerateStored(d) \/ Expire(d)
      PROVE  doc'[c].st # "none"
  BY <1>0, <1>1 DEF GenerateStored, Expire, Doc
<1>2. ASSUME NEW a \in Attempts, MarkLands(a) PROVE doc'[c].st # "none"
  BY <1>0, <1>2 DEF MarkLands, Doc
<1>3. QED
  BY <1>1, <1>2, DocSteps

LEMMA StepStored ==
    ASSUME Typed, Known, AcceptedStored, [Next]_vars
    PROVE  AcceptedStored'
<1>1. ASSUME NEW a \in accepted' PROVE doc'[code'[a]].st # "none"
  <2>1. a \in Attempts /\ ShapeOf(a)
    BY StepTyped DEF Typed, TypeOK, Shape
  <2>2. code[a] \in Codes /\ doc[code[a]].st # "none"
    BY <2>1, AcceptSteps DEF AcceptedStored, ShapeOf, Redeemable, NotUsed
  <2>3. QED
    BY <2>1, <2>2, CodeStays, StoredStays, CodesAssumption
<1>2. QED
  BY <1>1 DEF AcceptedStored

\* Nobody is sponsored by an attempt for somebody else, or on a code that the
\* owner never stored, however many attempts overlap and fail.
THEOREM NobodyElseSponsors == Spec => []SponsoredOnRequest
<1>1. Init => AcceptedStored /\ ProfilesAreCredited
  BY DEF Init, AcceptedStored, ProfilesAreCredited
<1>2. Basis /\ AcceptedStored /\ ProfilesAreCredited /\ [Next]_vars
         => AcceptedStored' /\ ProfilesAreCredited'
  BY StepStored, StepProfiles DEF Basis
<1>3. AcceptedStored /\ ProfilesAreCredited => SponsoredOnRequest
  <2> SUFFICES ASSUME AcceptedStored, ProfilesAreCredited,
                      NEW u \in Accounts, profile[u] # NoCode
               PROVE  /\ doc[profile[u]].st # "none"
                      /\ \E a \in accepted : who[a] = u /\ code[a] = profile[u]
    BY DEF SponsoredOnRequest
  <2>1. PICK a \in Attempts : a \in accepted /\ who[a] = u /\ code[a] = profile[u]
    BY DEF ProfilesAreCredited
  <2>2. QED
    BY <2>1 DEF AcceptedStored
<1>4. QED
  BY <1>1, <1>2, <1>3, AlwaysBasis, PTL DEF Spec

-----------------------------------------------------------------------------
(***************************************************************************)
(* PassCodes implements PassCodeLedger.                                    *)
(***************************************************************************)
Spent   == {c \in Codes : doc[c].st = "used"}
Open    == [a \in Attempts |-> IF a \in accepted THEN code[a] ELSE NoCode]
Granted == {a \in Attempts : credit[a] = "landed"}
Turned  == {a \in Attempts : told[a] \in TurnedAway}

\* Nothing that the ledger shows has changed.
Quiet == Spent' = Spent /\ Open' = Open /\ Granted' = Granted /\ Turned' = Turned

LEMMA QuietStep == Quiet => UNCHANGED Ledger!vars
BY DEF Quiet, Spent, Open, Granted, Turned, Ledger!vars

LEMMA OpenStays ==
    ASSUME Typed, [Next]_vars, accepted' = accepted
    PROVE  Open' = Open
BY AcceptedStays DEF Open

\* A message that does not turn an attempt away, to one that has heard none.
LEMMA TurnedStays ==
    ASSUME Typed, NEW a \in Attempts, NEW msg, Tell(a, msg),
           msg \notin TurnedAway, pc[a] # "done"
    PROVE  Turned' = Turned
BY DEF Turned, Tell, Typed, TypeOK, Shape, ShapeOf

LEMMA RedeemRefines ==
    ASSUME Typed, [Next]_vars, NEW a \in Redemptions, Redeem(a)
    PROVE  [Ledger!Next]_(Ledger!vars)
<1>0. a \in Attempts /\ TypeOK /\ ShapeOf(a)
  BY DEF Typed, TypeOK, Shape, Attempts
<1>1. Spent' = Spent
  BY DEF Spent, dataVars, Redeem, RedeemSignedOut, ClickRedeem, ReadRefused,
         ReadFails, ReadGood, TokenSettles, CreditNext, Redeemed
<1>2. Granted' = Granted
  BY <1>0
     DEF TypeOK, ShapeOf, Granted, netVars, Redeem, RedeemSignedOut,
         ClickRedeem, ReadRefused, ReadFails, ReadGood, TokenSettles, SendMark,
         CreditNext, SendCredit, Redeemed
<1>3. CASE RedeemSignedOut(a) \/ ReadRefused(a)
  <2>1. a \notin accepted /\ accepted' = accepted
    BY <1>0, <1>3 DEF ShapeOf, RedeemSignedOut, ReadRefused
  <2>2. PICK msg \in TurnedAway : Tell(a, msg)
    BY <1>3 DEF RedeemSignedOut, ReadRefused, TurnedAway
  <2>3. Turned' = Turned \cup {a}
    BY <1>0, <2>2 DEF Turned, Tell, TypeOK
  <2>4. Open' = Open /\ Open[a] = NoCode
    BY <1>0, <2>1, OpenStays DEF Open
  <2>5. Ledger!TurnAway(a)
    BY <1>1, <1>2, <2>3, <2>4
       DEF Ledger!TurnAway, Spent, Open, Granted, Turned
  <2>6. QED
    BY <1>0, <2>5 DEF Ledger!Next
<1>4. CASE ReadGood(a)
  <2>1. /\ a \notin accepted /\ accepted' = accepted \cup {a}
        /\ code' = code /\ code[a] \in Codes /\ pc[a] = "read"
    BY <1>0, <1>4
       DEF ShapeOf, ReadGood, InFlight, Awaiting, Redeeming
  <2>2. Turned' = Turned
    <3>1. CASE told' = told
      BY <3>1 DEF Turned
    <3>2. CASE Tell(a, "error")
      BY <1>0, <2>1, <3>2, TurnedStays DEF TurnedAway
    <3>3. QED
      BY <1>4, <3>1, <3>2 DEF ReadGood, Conclude
  <2>3. Open' = [Open EXCEPT ![a] = code[a]]
    BY <2>1 DEF Open
  <2>4. Open[a] = NoCode /\ a \notin Turned /\ code[a] \notin Spent
    BY <1>0, <1>4, <2>1
       DEF Open, Turned, Spent, ShapeOf, ReadGood, Redeemable, NotUsed
  <2>5. PICK c \in Codes : c = code[a]
    BY <2>1
  <2>6. Ledger!Open(a, c)
    BY <1>1, <1>2, <2>2, <2>3, <2>4, <2>5
       DEF Ledger!Open, Spent, Open, Granted, Turned
  <2>7. QED
    BY <1>0, <2>6 DEF Ledger!Next
<1>5. CASE ~(RedeemSignedOut(a) \/ ReadRefused(a) \/ ReadGood(a))
  <2>1. accepted' = accepted
    BY <1>5
       DEF Redeem, ClickRedeem, ReadFails, TokenSettles, CreditNext, Redeemed
  <2>2. Turned' = Turned
    <3>1. CASE told' = told
      BY <3>1 DEF Turned
    <3>2. CASE Tell(a, "error") /\ pc[a] # "done"
      BY <1>0, <3>2, TurnedStays DEF TurnedAway
    <3>3. QED
      BY <1>5, <3>1, <3>2
         DEF Redeem, ClickRedeem, ReadFails, TokenSettles, CreditNext,
             Redeemed, Conclude
  <2>3. QED
    BY <1>1, <1>2, <2>1, <2>2, OpenStays, QuietStep DEF Quiet
<1>6. QED
  BY <1>3, <1>4, <1>5

LEMMA SignUpRefines ==
    ASSUME Typed, [Next]_vars, NEW a \in SignUps, SignUp(a)
    PROVE  [Ledger!Next]_(Ledger!vars)
<1>0. a \in Attempts /\ TypeOK /\ ShapeOf(a)
  BY DEF Typed, TypeOK, Shape, Attempts
<1>1. Spent' = Spent
  BY DEF Spent, dataVars, SignUp, ClickSignUp, ValidateRefused, ValidateGood,
         AccountRefused, AccountCreated, MarkUsedNext, ProfileWritten, SignedUp
<1>2. Granted' = Granted
  BY <1>0
     DEF TypeOK, ShapeOf, Granted, netVars, SignUp, ClickSignUp,
         ValidateRefused, ValidateGood, AccountRefused, AccountCreated,
         SendCredit, MarkUsedNext, ProfileWritten, SignedUp
<1>3. CASE ValidateRefused(a)
  <2>1. a \notin accepted /\ accepted' = accepted /\ Tell(a, "badCode")
    BY <1>0, <1>3 DEF ShapeOf, ValidateRefused
  <2>2. Turned' = Turned \cup {a}
    BY <1>0, <2>1 DEF Turned, TurnedAway, Tell, TypeOK
  <2>3. Open' = Open /\ Open[a] = NoCode
    BY <1>0, <2>1, OpenStays DEF Open
  <2>4. Ledger!TurnAway(a)
    BY <1>1, <1>2, <2>2, <2>3
       DEF Ledger!TurnAway, Spent, Open, Granted, Turned
  <2>5. QED
    BY <1>0, <2>4 DEF Ledger!Next
<1>4. CASE ValidateGood(a)
  <2>1. /\ a \notin accepted /\ accepted' = accepted \cup {a}
        /\ code' = code /\ told' = told /\ code[a] \in Codes
        /\ pc[a] = "validate"
    BY <1>0, <1>4
       DEF ShapeOf, ValidateGood, InFlight, Awaiting, SigningUp
  <2>2. Open' = [Open EXCEPT ![a] = code[a]] /\ Turned' = Turned
    BY <2>1 DEF Open, Turned
  <2>3. Open[a] = NoCode /\ a \notin Turned /\ code[a] \notin Spent
    BY <1>0, <1>4, <2>1
       DEF Open, Turned, Spent, ShapeOf, ValidateGood, Redeemable, NotUsed
  <2>4. PICK c \in Codes : c = code[a]
    BY <2>1
  <2>5. Ledger!Open(a, c)
    BY <1>1, <1>2, <2>2, <2>3, <2>4
       DEF Ledger!Open, Spent, Open, Granted, Turned
  <2>6. QED
    BY <1>0, <2>5 DEF Ledger!Next
<1>5. CASE ~(ValidateRefused(a) \/ ValidateGood(a))
  <2>1. accepted' = accepted
    BY <1>5
       DEF SignUp, ClickSignUp, AccountRefused, AccountCreated, MarkUsedNext,
           ProfileWritten, SignedUp, runVars
  <2>2. Turned' = Turned
    <3>1. CASE told' = told
      BY <3>1 DEF Turned
    <3>2. ASSUME NEW msg \in {"failed", "welcome"}, Tell(a, msg), pc[a] # "done"
          PROVE  Turned' = Turned
      BY <1>0, <3>2, TurnedStays DEF TurnedAway
    <3>3. QED
      BY <1>5, <3>1, <3>2
         DEF SignUp, ClickSignUp, AccountRefused, AccountCreated, MarkUsedNext,
             ProfileWritten, SignedUp, runVars
  <2>3. QED
    BY <1>1, <1>2, <2>1, <2>2, OpenStays, QuietStep DEF Quiet
<1>6. QED
  BY <1>3, <1>4, <1>5

LEMMA FirestoreRefines ==
    ASSUME Typed, [Next]_vars, NEW a \in Attempts, Firestore(a)
    PROVE  [Ledger!Next]_(Ledger!vars)
<1>0. TypeOK /\ ShapeOf(a)
  BY DEF Typed, Shape
<1>1. Open' = Open /\ Turned' = Turned
  <2>1. accepted' = accepted /\ told' = told
    BY DEF Firestore, MarkLands, MarkFails, CreditLands, CreditFails, runVars
  <2>2. QED
    BY <2>1, OpenStays DEF Turned
<1>2. CASE MarkLands(a)
  <2>1. Granted' = Granted
    BY <1>2 DEF MarkLands, Granted
  <2>2. code[a] \in Codes /\ Open[a] = code[a]
    BY <1>0, <1>2 DEF ShapeOf, MarkLands, MarkArrives, Open
  <2>3. CASE a \in Redemptions
    <3>1. Spent' = Spent \cup {code[a]}
      BY <1>0, <1>2, <2>2, <2>3 DEF MarkLands, Spent, TypeOK, Doc
    <3>2. PICK c \in Codes : c = code[a]
      BY <2>2
    <3>3. Ledger!Spend(c)
      BY <1>1, <2>1, <2>2, <3>1, <3>2
         DEF Ledger!Spend, Spent, Open, Granted, Turned
    <3>4. QED
      BY <3>3 DEF Ledger!Next
  <2>4. CASE a \notin Redemptions
    <3>1. Spent' = Spent
      BY <1>0, <1>2, <2>2, <2>4 DEF MarkLands, Spent, TypeOK, Doc
    <3>2. QED
      BY <1>1, <2>1, <3>1, QuietStep DEF Quiet
  <2>5. QED
    BY <2>3, <2>4
<1>3. CASE CreditLands(a)
  <2>1. Spent' = Spent /\ Granted' = Granted \cup {a}
    BY <1>0, <1>3 DEF CreditLands, Spent, Granted, TypeOK
  <2>2. Open[a] # NoCode
    BY <1>0, <1>3, CodesAssumption DEF ShapeOf, CreditLands, Open
  <2>3. Ledger!Grant(a)
    BY <1>1, <2>1, <2>2 DEF Ledger!Grant, Spent, Open, Granted, Turned
  <2>4. QED
    BY <2>3 DEF Ledger!Next
<1>4. CASE MarkFails(a) \/ CreditFails(a)
  <2>1. Spent' = Spent /\ Granted' = Granted
    BY <1>0, <1>4
       DEF MarkFails, CreditFails, Spent, Granted, TypeOK, dataVars
  <2>2. QED
    BY <1>1, <2>1, QuietStep DEF Quiet
<1>5. QED
  BY <1>2, <1>3, <1>4 DEF Firestore

LEMMA SurroundingsRefine ==
    ASSUME Typed, Known, [Next]_vars, Surroundings
    PROVE  UNCHANGED Ledger!vars
<1>1. Open' = Open /\ Turned' = Turned /\ Granted' = Granted
  <2>1. accepted' = accepted /\ told' = told /\ credit' = credit
    BY DEF Surroundings, GenerateStored, GenerateFailed, Expire, OtherTab,
           ClosePage, runVars, netVars
  <2>2. QED
    BY <2>1, OpenStays DEF Turned, Granted
<1>2. ASSUME NEW c \in Codes, GenerateStored(c) \/ Expire(c)
      PROVE  Spent' = Spent
  <2>1. doc \in [Codes -> Doc] /\ doc[c] \in Doc
    BY DEF Typed, TypeOK
  <2>2. CASE GenerateStored(c)
    BY <2>1, <2>2 DEF GenerateStored, Known, Spent, Doc
  <2>3. CASE Expire(c)
    BY <2>1, <2>3 DEF Expire, Spent, Doc
  <2>4. QED
    BY <1>2, <2>2, <2>3
<1>3. CASE doc' = doc
  BY <1>1, <1>3, QuietStep DEF Quiet, Spent
<1>4. QED
  BY <1>1, <1>2, <1>3, QuietStep
     DEF Surroundings, GenerateFailed, OtherTab, ClosePage, dataVars, Quiet

\* However attempts overlap and whatever gets lost, a spent code stays spent,
\* only an attempt that found its code unspent is credited, and one that was
\* turned away never is.
THEOREM LedgerKept == Spec => SpentStaysSpent
<1>1. Init => Ledger!Init
  BY DEF Init, Ledger!Init, NoDoc, TurnedAway
<1>2. Basis /\ [Next]_vars => [Ledger!Next]_(Ledger!vars)
  <2>1. SUFFICES ASSUME Typed, Known, [Next]_vars
                 PROVE  [Ledger!Next]_(Ledger!vars)
    BY DEF Basis
  <2>2. CASE UNCHANGED vars
    BY <2>2 DEF vars, runVars, netVars, pageVars, dataVars, histVars,
            Ledger!vars
  <2>3. CASE Surroundings
    BY <2>1, <2>3, SurroundingsRefine
  <2>4. QED
    BY <2>1, <2>2, <2>3, RedeemRefines, SignUpRefines, FirestoreRefines
       DEF Next
<1>3. QED
  BY <1>1, <1>2, AlwaysBasis, PTL DEF Spec, SpentStaysSpent, Ledger!Spec
=============================================================================
