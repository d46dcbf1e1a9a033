----------------------------- MODULE PassCodes -----------------------------
(***************************************************************************)
(* Pass codes for sponsored accounts: the owner generates them             *)
(* (dashboard.html), a user redeems one on the subscription page           *)
(* (premium-iap.html) or signs up with one (js/users-auth.js).             *)
(*                                                                         *)
(* An attempt is one run of the redemption or of the sign-up handler, in a *)
(* browser of its own.  Reading the code, marking it and crediting the     *)
(* account are separate requests without a precondition: attempts meet in  *)
(* the pass_codes and users collections between them.                      *)
(***************************************************************************)
EXTENDS Integers

CONSTANTS
    Redemptions,   \* clicks on Redeem
    SignUps,       \* sign-ups with a pass code; each is a new account, too
    Users,         \* accounts that exist
    Owner,         \* the owner's account
    OwnerBrowsers, \* attempts in a browser whose SDK session is the owner's
    Codes,
    NoUser, NoCode

Attempts == Redemptions \cup SignUps
Accounts == Users \cup SignUps

ASSUME AttemptsAssumption ==
    Redemptions \cap SignUps = {} /\ OwnerBrowsers \subseteq Attempts
ASSUME AccountsAssumption ==
    Users \cap SignUps = {} /\ Owner \in Users /\ NoUser \notin Accounts
ASSUME CodesAssumption == NoCode \notin Codes

VARIABLES
    pc,        \* where each attempt awaits
    told,      \* what the user was told about it
    code,      \* the code that was typed in
    who,       \* userId: the account to credit
    token,     \* whose token the writes carry
    accepted,  \* attempts that found their code good
    mark,      \* the write of each attempt to pass_codes/<code>
    credit,    \* its write to users/<userId>
    session,   \* localStorage.user of each attempt's browser
    unlocked,  \* attempts whose browser has premium_<userId> = "true"
    doc,       \* the collection pass_codes
    listed,    \* codes shown as generated
    profile,   \* passcodeId in users/<userId>
    contested, \* history: codes that two attempts used at the same time
    mishaps    \* history: attempts with a write refused or unanswered, a
               \* closed page or a change of account

runVars  == <<pc, told, code, who, token, accepted>>
netVars  == <<mark, credit>>
pageVars == <<session, unlocked>>
dataVars == <<doc, listed, profile>>
histVars == <<contested, mishaps>>
vars     == <<runVars, netVars, pageVars, dataVars, histVars>>

-----------------------------------------------------------------------------
NoDoc == [st |-> "none", isUsed |-> FALSE, expired |-> FALSE]

\* st follows the field "used"; isUsed and expired are fields of their own.
Doc == [st : {"none", "unused", "used"}, isUsed : BOOLEAN, expired : BOOLEAN]

Redeeming == {"read", "token", "mark", "credit"}
SigningUp == {"validate", "account", "profile", "markUsed"}
Awaiting  == Redeeming \cup SigningUp

InFlight(a) == pc[a] \in Awaiting

\* An attempt that still may change something.
Active(a) == InFlight(a) \/ mark[a] = "sent" \/ credit[a] = "sent"

Requests == {"none", "sent", "landed", "refused"}

TurnedAway == {"signIn", "invalid", "alreadyUsed", "expired", "badCode"}
Messages == TurnedAway \cup {"none", "error", "failed", "welcome"}

Init ==
    /\ pc = [a \in Attempts |-> "idle"]
    /\ told = [a \in Attempts |-> "none"]
    /\ code = [a \in Attempts |-> NoCode]
    /\ who = [a \in Attempts |-> NoUser]
    /\ token = [a \in Attempts |-> NoUser]
    /\ accepted = {}
    /\ mark = [a \in Attempts |-> "none"]
    /\ credit = [a \in Attempts |-> "none"]
    /\ session \in {f \in [Attempts -> Users \cup {NoUser}] :
                      \A a \in SignUps : f[a] = NoUser}
    /\ unlocked = {}
    /\ doc = [c \in Codes |-> NoDoc]
    /\ listed = {}
    /\ profile = [u \in Accounts |-> NoCode]
    /\ contested = {}
    /\ mishaps = {}

-----------------------------------------------------------------------------
(***************************************************************************)
(* The owner generates codes.  Each is a POST of its own; all codes are    *)
(* listed as generated in the end, those whose POST failed included.       *)
(***************************************************************************)
GenerateStored(c) ==
    /\ c \notin listed
    /\ listed' = listed \cup {c}
    /\ doc' = [doc EXCEPT ![c].st = "unused"]
    /\ UNCHANGED <<runVars, netVars, pageVars, profile, histVars>>

GenerateFailed(c) ==
    /\ c \notin listed
    /\ listed' = listed \cup {c}
    /\ UNCHANGED <<runVars, netVars, pageVars, doc, profile, histVars>>

\* expiresAt goes by.
Expire(c) ==
    /\ doc[c].st # "none" /\ ~doc[c].expired
    /\ doc' = [doc EXCEPT ![c].expired = TRUE]
    /\ UNCHANGED <<runVars, netVars, pageVars, listed, profile, histVars>>

-----------------------------------------------------------------------------
Tell(a, msg) ==
    /\ pc' = [pc EXCEPT ![a] = "done"]
    /\ told' = [told EXCEPT ![a] = msg]

\* An attempt starts to use a code that another one may be using.
Begin(a, c) ==
    /\ code' = [code EXCEPT ![a] = c]
    /\ contested' = IF \E b \in Attempts : b # a /\ code[b] = c /\ Active(b)
                    THEN contested \cup {c} ELSE contested

(***************************************************************************)
(* Redemption.  The account comes from localStorage or else from the SDK,  *)
(* which only the owner has a session with.                                *)
(***************************************************************************)
CurrentUser(a) ==
    IF session[a] # NoUser THEN session[a]
    ELSE IF a \in OwnerBrowsers THEN Owner ELSE NoUser

RedeemSignedOut(a) ==
    /\ pc[a] = "idle"
    /\ CurrentUser(a) = NoUser
    /\ Tell(a, "signIn")
    /\ UNCHANGED <<code, who, token, accepted, netVars, pageVars, dataVars,
                   histVars>>

ClickRedeem(a, c) ==
    /\ pc[a] = "idle"
    /\ CurrentUser(a) # NoUser
    /\ pc' = [pc EXCEPT ![a] = "read"]
    /\ who' = [who EXCEPT ![a] = CurrentUser(a)]
    /\ Begin(a, c)
    /\ UNCHANGED <<told, token, accepted, netVars, pageVars, dataVars, mishaps>>

\* Mutant: a code that was used is not turned away.
Unspent(c) == doc[c].st # "none"

\* Mutant: a code that is not in the collection is not used either.
NotMarked(c) == doc[c].st # "used"

\* f.used ?? f.isUsed: every generated code has the field used, so that the
\* redemption never looks at isUsed.
NotUsed(c) == doc[c].st = "unused"

\* Not used and not expired.
Redeemable(c) == NotUsed(c) /\ ~doc[c].expired

\* No such code, used, or expired; any error status reads as "invalid".
ReadRefused(a) ==
    /\ pc[a] = "read"
    /\ \/ Tell(a, "invalid")
       \/ doc[code[a]].st = "used" /\ Tell(a, "alreadyUsed")
       \/ NotUsed(code[a]) /\ doc[code[a]].expired /\ Tell(a, "expired")
    /\ UNCHANGED <<code, who, token, accepted, netVars, pageVars, dataVars,
                   histVars>>

\* The inner catch shows the error, and the handler goes on to sections 9 and
\* 10: the local flags and another error.
ReadFails(a) ==
    /\ pc[a] = "read"
    /\ Tell(a, "error")
    /\ unlocked' = unlocked \cup {a}
    /\ UNCHANGED <<code, who, token, accepted, netVars, session, dataVars,
                   histVars>>

\* Mutant: the local flags are forgotten.
ConcludeLocked(a) == Tell(a, "error") /\ UNCHANGED unlocked

\* The local flags and "Subscription activated".  The handler does not return
\* there: section 10 reads data, which is out of scope, throws, and its catch
\* shows "Error: data is not defined" instead.
Conclude(a) ==
    /\ Tell(a, "error")
    /\ unlocked' = unlocked \cup {a}

\* Mutant: whoever is signed in has a token, even if nobody is.
HasTokenAlways(a) == TRUE

\* The stored user has a refresh token and an idToken.
HasToken(a) == session[a] # NoUser

\* A good code: refresh the token of whoever is signed in by now.  Without a
\* user there is no token, and without a token nothing is written.
ReadGood(a) ==
    /\ pc[a] = "read"
    /\ Redeemable(code[a])
    /\ accepted' = accepted \cup {a}
    /\ \/ /\ HasToken(a)
          /\ pc' = [pc EXCEPT ![a] = "token"]
          /\ token' = [token EXCEPT ![a] = session[a]]
          /\ UNCHANGED <<told, unlocked, mishaps>>
       \/ /\ ~HasToken(a)
          /\ Conclude(a)
          /\ mishaps' = mishaps \cup {a}
          /\ UNCHANGED token
    /\ UNCHANGED <<code, who, netVars, session, dataVars, contested>>

\* Mutant: the code is not marked.
SkipMark(a, u) ==
    /\ pc' = [pc EXCEPT ![a] = "mark"]
    /\ token' = [token EXCEPT ![a] = u]
    /\ UNCHANGED mark

SendMark(a, u) ==
    /\ pc' = [pc EXCEPT ![a] = "mark"]
    /\ token' = [token EXCEPT ![a] = u]
    /\ mark' = [mark EXCEPT ![a] = "sent"]

\* The refresh settles.  When it failed the stored idToken is used, if it is
\* still there.
TokenSettles(a) ==
    /\ pc[a] = "token"
    /\ \/ /\ SendMark(a, token[a])
          /\ UNCHANGED <<told, unlocked, mishaps>>
       \/ /\ HasToken(a)
          /\ SendMark(a, session[a])
          /\ UNCHANGED <<told, unlocked, mishaps>>
       \/ /\ ~HasToken(a)
          /\ Conclude(a)
          /\ mishaps' = mishaps \cup {a}
          /\ UNCHANGED <<token, mark>>
    /\ UNCHANGED <<code, who, accepted, credit, session, dataVars, contested>>

\* Mutant: the account is forgotten.
SkipCredit(a) == UNCHANGED credit

SendCredit(a) == credit' = [credit EXCEPT ![a] = "sent"]

\* Nobody knows whether a write without an answer lands.
Unanswered(a, request) ==
    mishaps' = IF request = "sent" THEN mishaps \cup {a} ELSE mishaps

\* The PATCH of the code is answered, whatever the status, or fetch throws,
\* after which it may still land.
CreditNext(a) ==
    /\ pc[a] = "mark"
    /\ Unanswered(a, mark[a])
    /\ pc' = [pc EXCEPT ![a] = "credit"]
    /\ SendCredit(a)
    /\ UNCHANGED <<told, code, who, token, accepted, mark, pageVars, dataVars,
                   contested>>

\* Likewise the PATCH of the account.
Redeemed(a) ==
    /\ pc[a] = "credit"
    /\ Conclude(a)
    /\ Unanswered(a, credit[a])
    /\ UNCHANGED <<code, who, token, accepted, netVars, session, dataVars,
                   contested>>

-----------------------------------------------------------------------------
(***************************************************************************)
(* Sign-up with a pass code.  The writes go through the SDK, one after the *)
(* other, with the SDK's session: the new account, created over REST, has  *)
(* none.  Where the SDK hangs a write is never answered.                   *)
(***************************************************************************)
ClickSignUp(a, c) ==
    /\ pc[a] = "idle"
    /\ pc' = [pc EXCEPT ![a] = "validate"]
    /\ code' = [code EXCEPT ![a] = c]
    /\ who' = [who EXCEPT ![a] = a]
    /\ contested' = contested \cup {c}
    /\ UNCHANGED <<told, token, accepted, netVars, pageVars, dataVars, mishaps>>

\* validatePasscode looks at used and at isUsed; a failed fetch is as bad as a
\* bad code.
ValidateRefused(a) ==
    /\ pc[a] = "validate"
    /\ Tell(a, "badCode")
    /\ UNCHANGED <<code, who, token, accepted, netVars, pageVars, dataVars,
                   histVars>>

ValidateGood(a) ==
    /\ pc[a] = "validate"
    /\ Redeemable(code[a])
    /\ ~doc[code[a]].isUsed
    /\ pc' = [pc EXCEPT ![a] = "account"]
    /\ accepted' = accepted \cup {a}
    /\ UNCHANGED <<told, code, who, token, netVars, pageVars, dataVars,
                   histVars>>

AccountRefused(a) ==
    /\ pc[a] = "account"
    /\ Tell(a, "failed")
    /\ UNCHANGED <<code, who, token, accepted, netVars, pageVars, dataVars,
                   histVars>>

\* The answer of signUp, the display name, localStorage.user and the individual
\* profile, for which the handler waits up to 4 seconds, are one step: nothing
\* reads the session of a sign-up in between, and the sponsored profile, which
\* is written next, replaces the individual one.
AccountCreated(a) ==
    /\ pc[a] = "account"
    /\ pc' = [pc EXCEPT ![a] = "profile"]
    /\ session' = [session EXCEPT ![a] = a]
    /\ SendCredit(a)
    /\ UNCHANGED <<told, code, who, token, accepted, mark, unlocked, dataVars,
                   histVars>>

\* The profile is written, refused, or the 3 seconds are over: mark the code.
MarkUsedNext(a) ==
    /\ pc[a] = "profile"
    /\ pc' = [pc EXCEPT ![a] = "markUsed"]
    /\ mark' = [mark EXCEPT ![a] = "sent"]
    /\ Unanswered(a, credit[a])
    /\ UNCHANGED <<told, code, who, token, accepted, credit, pageVars,
                   dataVars, contested>>

\* createUserProfile sets the local flags once its write is acknowledged,
\* whether or not the sign-up still waits for it.
ProfileWritten(a) ==
    /\ pc[a] \in {"profile", "markUsed"}
    /\ credit[a] = "landed"
    /\ a \notin unlocked
    /\ unlocked' = unlocked \cup {a}
    /\ UNCHANGED <<runVars, netVars, session, dataVars, histVars>>

\* There is no time limit for this write.  Answers come in the order of the
\* writes.
SignedUp(a) ==
    /\ pc[a] = "markUsed"
    /\ mark[a] \in {"landed", "refused"}
    /\ credit[a] = "landed" => a \in unlocked
    /\ Tell(a, "welcome")
    /\ UNCHANGED <<code, who, token, accepted, netVars, pageVars, dataVars,
                   histVars>>

-----------------------------------------------------------------------------
(***************************************************************************)
(* Firestore.  pass_codes takes an update from any account, users/<uid>    *)
(* only from that account or the owner.                                    *)
(***************************************************************************)

\* The SDK sends the writes of a sign-up in their order.
MarkArrives(a) == mark[a] = "sent" /\ (a \in SignUps => credit[a] # "sent")

MarkAllowed(a) == a \in Redemptions \/ a \in OwnerBrowsers

MarkLands(a) ==
    /\ MarkArrives(a)
    /\ MarkAllowed(a)
    /\ mark' = [mark EXCEPT ![a] = "landed"]
    /\ doc' = IF a \in Redemptions THEN [doc EXCEPT ![code[a]].st = "used"]
              ELSE [doc EXCEPT ![code[a]].isUsed = TRUE]
    /\ UNCHANGED <<runVars, credit, pageVars, listed, profile, histVars>>

CreditAllowed(a) ==
    \/ a \in Redemptions /\ token[a] \in {who[a], Owner}
    \/ a \in SignUps /\ a \in OwnerBrowsers

CreditLands(a) ==
    /\ credit[a] = "sent"
    /\ CreditAllowed(a)
    /\ credit' = [credit EXCEPT ![a] = "landed"]
    /\ profile' = [profile EXCEPT ![who[a]] = code[a]]
    /\ UNCHANGED <<runVars, mark, pageVars, doc, listed, histVars>>

\* Refused, for an expired token too, or lost on the way.
MarkFails(a) ==
    /\ MarkArrives(a)
    /\ mark' = [mark EXCEPT ![a] = "refused"]
    /\ mishaps' = mishaps \cup {a}
    /\ UNCHANGED <<runVars, credit, pageVars, dataVars, contested>>

CreditFails(a) ==
    /\ credit[a] = "sent"
    /\ credit' = [credit EXCEPT ![a] = "refused"]
    /\ mishaps' = mishaps \cup {a}
    /\ UNCHANGED <<runVars, mark, pageVars, dataVars, contested>>

-----------------------------------------------------------------------------
\* Sign-in or sign-out in another tab of the same browser.
OtherTab(a, u) ==
    /\ a \in Redemptions
    /\ session[a] # u
    /\ session' = [session EXCEPT ![a] = u]
    /\ mishaps' = IF InFlight(a) THEN mishaps \cup {a} ELSE mishaps
    /\ UNCHANGED <<runVars, netVars, unlocked, dataVars, contested>>

\* The page is closed or left; a write on its way may still land.
ClosePage(a) ==
    /\ InFlight(a)
    /\ pc' = [pc EXCEPT ![a] = "closed"]
    /\ mishaps' = mishaps \cup {a}
    /\ UNCHANGED <<told, code, who, token, accepted, netVars, pageVars,
                   dataVars, contested>>

-----------------------------------------------------------------------------
Redeem(a) ==
    \/ RedeemSignedOut(a)
    \/ \E c \in Codes : ClickRedeem(a, c)
    \/ ReadRefused(a)
    \/ ReadFails(a)
    \/ ReadGood(a)
    \/ TokenSettles(a)
    \/ CreditNext(a)
    \/ Redeemed(a)

SignUp(a) ==
    \/ \E c \in Codes : ClickSignUp(a, c)
    \/ ValidateRefused(a)
    \/ ValidateGood(a)
    \/ AccountRefused(a)
    \/ AccountCreated(a)
    \/ MarkUsedNext(a)
    \/ ProfileWritten(a)
    \/ SignedUp(a)

Firestore(a) ==
    \/ MarkLands(a)
    \/ MarkFails(a)
    \/ CreditLands(a)
    \/ CreditFails(a)

Surroundings ==
    \/ \E c \in Codes : GenerateStored(c) \/ GenerateFailed(c) \/ Expire(c)
    \/ \E a \in Attempts, u \in Users \cup {NoUser} : OtherTab(a, u)
    \/ \E a \in Attempts : ClosePage(a)

Next ==
    \/ \E a \in Redemptions : Redeem(a)
    \/ \E a \in SignUps : SignUp(a)
    \/ \E a \in Attempts : Firestore(a)
    \/ Surroundings

Spec == Init /\ [][Next]_vars

\* Fetches settle and the 3 s timer of the sign-up fires; Firestore owes the
\* SDK nothing.
Settling(a) ==
    \/ ReadRefused(a) \/ ReadFails(a) \/ ReadGood(a)
    \/ TokenSettles(a) \/ CreditNext(a) \/ Redeemed(a)
    \/ ValidateRefused(a) \/ ValidateGood(a)
    \/ AccountRefused(a) \/ AccountCreated(a)
    \/ MarkUsedNext(a) \/ ProfileWritten(a) \/ SignedUp(a)

FairSpec == Spec /\ \A a \in Attempts : WF_vars(Settling(a))

-----------------------------------------------------------------------------
(***************************************************************************)
(* Properties.                                                             *)
(***************************************************************************)

\* Every variable has its type, and a redemption that writes knows the code,
\* the account and whose token it uses.
TypeOK ==
    /\ pc \in [Attempts -> Awaiting \cup {"idle", "done", "closed"}]
    /\ told \in [Attempts -> Messages]
    /\ code \in [Attempts -> Codes \cup {NoCode}]
    /\ who \in [Attempts -> Accounts \cup {NoUser}]
    /\ token \in [Attempts -> Accounts \cup {NoUser}]
    /\ accepted \subseteq Attempts
    /\ mark \in [Attempts -> Requests]
    /\ credit \in [Attempts -> Requests]
    /\ session \in [Attempts -> Accounts \cup {NoUser}]
    /\ unlocked \subseteq Attempts
    /\ doc \in [Codes -> Doc]
    /\ listed \subseteq Codes
    /\ profile \in [Accounts -> Codes \cup {NoCode}]
    /\ contested \subseteq Codes
    /\ mishaps \subseteq Attempts
    /\ \A a \in Redemptions :
         pc[a] \in {"mark", "credit"} =>
             code[a] \in Codes /\ who[a] \in Users /\ token[a] \in Users

\* A code of which no two attempts were under way at the same time, which was
\* not used at a sign-up and whose writes all arrived.
Undisturbed(c) ==
    /\ c \notin contested
    /\ \A a \in mishaps : code[a] # c

\* ONE TIME USE, as far as the code goes: an undisturbed code never sponsors
\* two accounts.
OneTimeUseInTurn ==
    \A c \in Codes : Undisturbed(c) =>
        \A u, v \in Accounts : profile[u] = c /\ profile[v] = c => u = v

\* A user does not lose a code: if an attempt ended with its code marked then
\* its account is premium, here and in Firestore, unless there was a mishap.
SpentIsCredited ==
    \A a \in Attempts :
        pc[a] = "done" /\ mark[a] = "landed" /\ a \notin mishaps =>
            credit[a] = "landed" /\ a \in unlocked

\* A redemption that credits an account has spent its code before, unless
\* there was a mishap: nobody is premium on a code that is still good.
CreditedIsSpent ==
    \A a \in Redemptions :
        credit[a] = "landed" /\ a \notin mishaps => doc[code[a]].st = "used"

\* An account is only sponsored by an attempt for that very account, on a code
\* that the owner stored, whoever is signed in when the writes go out and
\* whichever of them get lost.
SponsoredOnRequest ==
    \A u \in Accounts : profile[u] # NoCode =>
        /\ doc[profile[u]].st # "none"
        /\ \E a \in accepted : who[a] = u /\ code[a] = profile[u]

\* However attempts overlap and whatever gets lost, a spent code stays spent
\* and only an attempt that found its code unspent makes an account premium.
Ledger == INSTANCE PassCodeLedger WITH
             spent <- {c \in Codes : doc[c].st = "used"},
             open <- [a \in Attempts |-> IF a \in accepted THEN code[a]
                                         ELSE NoCode],
             granted <- {a \in Attempts : credit[a] = "landed"},
             turned <- {a \in Attempts : told[a] \in TurnedAway}

SpentStaysSpent == Ledger!Spec

\* A redemption that took its code goes on: it sends the account's write,
\* unlocks the browser and ends, unless the page is closed.
TakenIsAnswered ==
    \A a \in Redemptions :
        mark[a] = "landed" ~>
            \/ credit[a] # "none" /\ a \in unlocked /\ pc[a] = "done"
            \/ pc[a] = "closed"

-----------------------------------------------------------------------------
(***************************************************************************)
(* The inductive invariants behind the properties.                         *)
(***************************************************************************)

\* How far an attempt has come, and what it has at hand there.
ShapeOf(a) ==
    /\ a \in Redemptions =>
         pc[a] \notin SigningUp /\ session[a] \in Users \cup {NoUser}
    /\ a \in SignUps => pc[a] \notin Redeeming
    /\ pc[a] = "idle" => code[a] = NoCode
    /\ InFlight(a) \/ a \in accepted =>
         code[a] \in Codes /\ who[a] \in (IF a \in SignUps THEN {a} ELSE Users)
    /\ pc[a] \in {"idle", "read", "validate"} => a \notin accepted
    /\ pc[a] \in Awaiting \ {"read", "validate"} => a \in accepted
    /\ pc[a] \in {"idle", "read", "token", "validate", "account"} => mark[a] = "none"
    /\ pc[a] \in {"idle", "read", "token", "mark", "validate", "account"} =>
         credit[a] = "none"
    /\ pc[a] \in {"token", "mark", "credit"} => token[a] \in Users
    /\ mark[a] # "none" \/ credit[a] # "none" => a \in accepted
    /\ told[a] \in TurnedAway => a \notin accepted /\ pc[a] = "done"

Shape == \A a \in Attempts : ShapeOf(a)

\* A code that is in the collection, or was once, is on the owner's list.
Known ==
    /\ \A c \in Codes : doc[c].st # "none" => c \in listed
    /\ \A a \in accepted : code[a] \in listed

\* How the two writes of an attempt without a mishap follow each other.
WritesOf(a) ==
    /\ mark[a] # "refused" /\ credit[a] # "refused"
    /\ pc[a] # "closed"
    /\ a \in Redemptions =>
         /\ credit[a] # "none" => mark[a] = "landed"
         /\ pc[a] = "mark" => mark[a] \in {"sent", "landed"}
         /\ pc[a] = "credit" => mark[a] = "landed" /\ credit[a] # "none"
         /\ pc[a] = "done" /\ a \in accepted =>
              mark[a] = "landed" /\ credit[a] = "landed" /\ a \in unlocked
    /\ a \in SignUps =>
         /\ pc[a] = "profile" => credit[a] # "none"
         /\ pc[a] = "markUsed" => credit[a] = "landed"
         /\ pc[a] = "done" => mark[a] # "sent"
         /\ pc[a] = "done" /\ mark[a] = "landed" =>
              credit[a] = "landed" /\ a \in unlocked

Writes ==
    /\ \A a \in Attempts : a \notin mishaps => WritesOf(a)
    /\ \A a \in Redemptions : mark[a] = "landed" => doc[code[a]].st = "used"

\* Of the attempts on an undisturbed code one at a time is under way, and only
\* one finds it good: a later one finds it used.
InTurn ==
    \A a, b \in Attempts :
        code[a] = code[b] /\ code[a] \in Codes /\ Undisturbed(code[a]) =>
            /\ a \in Redemptions
            /\ InFlight(a) /\ InFlight(b) => a = b
            /\ a \in accepted /\ b \in accepted => a = b

\* What was found good is in the collection for ever.
AcceptedStored == \A a \in accepted : doc[code[a]].st # "none"

\* Whatever a profile names was credited by an attempt.
ProfilesAreCredited ==
    \A u \in Accounts : profile[u] # NoCode =>
        \E a \in Attempts :
            a \in accepted /\ who[a] = u /\ code[a] = profile[u]
=============================================================================
