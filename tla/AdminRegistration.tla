------------------------- MODULE AdminRegistration -------------------------
(***************************************************************************)
(* Registering as an operator: the login page's two steps (LoginPage.tsx)  *)
(* and the pending registration the API keeps in Redis until the code that *)
(* was mailed is entered (admin_auth.py).  One person registers one        *)
(* address.  Every handler reads the pending registration and writes it    *)
(* back in two steps, and the page lets a verification and a resend be in  *)
(* flight together.                                                        *)
(***************************************************************************)
EXTENDS Naturals

CONSTANTS
    MaxAttempts,    \* five
    MaxCodes,       \* how many codes are mailed in a behaviour
    Lifetime        \* the ticks of ten minutes

VARIABLES
    dialog,     \* the code dialog is open
    digits,     \* what has been entered there: the number of a code, or 0 for a wrong one
    countdown,  \* the ticks the dialog still shows
    pending,    \* reg:pending: the code, the attempts made, the ticks left; or NoPending
    mailed,     \* how many codes have been mailed
    verify,     \* the verification: its step, its code, and what it has read
    resend,     \* the same for the resend
    guesses,    \* how many wrong codes have been compared with each mailed code
    account     \* the registration has become an account

regVars == <<dialog, digits, countdown, pending, mailed, verify, resend, guesses, account>>

NoPending == [code |-> 0, attempts |-> 0, ttl |-> 0]
NoCall == [step |-> "none", code |-> 0, read |-> NoPending]

TypeOK ==
    /\ dialog \in BOOLEAN /\ account \in BOOLEAN
    /\ digits \in 0..MaxCodes /\ mailed \in 0..MaxCodes
    /\ countdown \in 0..Lifetime
    /\ pending.code \in 0..MaxCodes /\ pending.attempts \in 0..MaxAttempts
    /\ pending.ttl \in 0..Lifetime
    /\ verify.step \in {"none", "sent", "read", "accepted", "rejected"}
    /\ resend.step \in {"none", "sent", "read", "accepted", "rejected"}
    /\ guesses \in [1..MaxCodes -> Nat]

Init ==
    /\ dialog = FALSE /\ account = FALSE
    /\ digits = 0 /\ mailed = 0 /\ countdown = 0
    /\ pending = NoPending
    /\ verify = NoCall /\ resend = NoCall
    /\ guesses = [c \in 1..MaxCodes |-> 0]

-----------------------------------------------------------------------------

\* The form of the first step is under the dialog while that is open.
RegisterForm == ~dialog /\ ~account

\* The form of the first step; the address must not have an account.  Starting again
\* replaces what is pending.  Register request and answer are one step: nothing else is
\* open on the page meanwhile.
Initiate ==
    /\ RegisterForm /\ mailed < MaxCodes
    /\ mailed' = mailed + 1
    /\ pending' = [code |-> mailed', attempts |-> 0, ttl |-> Lifetime]
    /\ countdown' = Lifetime
    /\ digits' = 0
    /\ dialog' = TRUE
    /\ UNCHANGED <<verify, resend, guesses, account>>

\* handleOtpChange: the six digits, right or wrong.
EnterDigits(c) ==
    /\ dialog /\ digits # c /\ c <= mailed
    /\ digits' = c
    /\ UNCHANGED <<dialog, countdown, pending, mailed, verify, resend, guesses, account>>

CloseDialog ==
    /\ dialog
    /\ dialog' = FALSE
    /\ UNCHANGED <<digits, countdown, pending, mailed, verify, resend, guesses, account>>

\* Time passes: the dialog counts down while it is open, the key expires.
Tick ==
    /\ pending.ttl > 0 \/ (dialog /\ countdown > 0)
    /\ countdown' = IF dialog /\ countdown > 0 THEN countdown - 1 ELSE countdown
    /\ pending' = IF pending.ttl <= 1 THEN NoPending ELSE [pending EXCEPT !.ttl = @ - 1]
    /\ UNCHANGED <<dialog, digits, mailed, verify, resend, guesses, account>>

-----------------------------------------------------------------------------
(* handleVerifyOtp and register_verify *)

SendVerify ==
    /\ dialog /\ verify = NoCall
    /\ verify' = [step |-> "sent", code |-> digits, read |-> NoPending]
    /\ UNCHANGED <<dialog, digits, countdown, pending, mailed, resend, guesses, account>>

\* The registration is read; an expired one is refused.
ReadVerify ==
    /\ verify.step = "sent"
    /\ verify' = IF pending = NoPending
                 THEN [verify EXCEPT !.step = "rejected"]
                 ELSE [verify EXCEPT !.step = "read", !.read = pending]
    /\ UNCHANGED <<dialog, digits, countdown, pending, mailed, resend, guesses, account>>

\* Too many attempts: the registration is deleted without comparing.
Exhausted ==
    /\ verify.step = "read" /\ verify.read.attempts >= MaxAttempts
    /\ pending' = NoPending
    /\ verify' = [verify EXCEPT !.step = "rejected"]
    /\ UNCHANGED <<dialog, digits, countdown, mailed, resend, guesses, account>>

\* The operators named Wrong... are what a slip in the definition that follows
\* would make of it; the specification does not use them.

\* The attempts are not counted.
WrongAttempt(read) == [read EXCEPT !.ttl = Lifetime]

\* What a wrong code writes back: what was read, with one attempt more and a new
\* lifetime.
Attempt(read) == [code |-> read.code, attempts |-> read.attempts + 1, ttl |-> Lifetime]

WrongCode ==
    /\ verify.step = "read" /\ verify.read.attempts < MaxAttempts
    /\ verify.code # verify.read.code
    /\ pending' = Attempt(verify.read)
    /\ guesses' = [guesses EXCEPT ![verify.read.code] = @ + 1]
    /\ verify' = [verify EXCEPT !.step = "rejected"]
    /\ UNCHANGED <<dialog, digits, countdown, mailed, resend, account>>

\* The account is made, in Keycloak if that answers, and the registration deleted.
RightCode ==
    /\ verify.step = "read" /\ verify.read.attempts < MaxAttempts
    /\ verify.code = verify.read.code
    /\ account' = TRUE
    /\ pending' = NoPending
    /\ verify' = [verify EXCEPT !.step = "accepted"]
    /\ UNCHANGED <<dialog, digits, countdown, mailed, resend, guesses>>

\* The answer: the console opens, or the dialog shows the error.  A lost answer shows
\* one, too.
VerifyAnswered ==
    /\ verify.step \in {"accepted", "rejected"}
    /\ verify' = NoCall
    /\ dialog' = (dialog /\ verify.step = "rejected")
    /\ UNCHANGED <<digits, countdown, pending, mailed, resend, guesses, account>>

-----------------------------------------------------------------------------
(* handleResendOtp and register_resend *)

\* The button is disabled in the first minute of the countdown.
SendResend ==
    /\ dialog /\ resend = NoCall /\ countdown < Lifetime
    /\ resend' = [step |-> "sent", code |-> 0, read |-> NoPending]
    /\ UNCHANGED <<dialog, digits, countdown, pending, mailed, verify, guesses, account>>

ReadResend ==
    /\ resend.step = "sent"
    /\ resend' = IF pending = NoPending
                 THEN [resend EXCEPT !.step = "rejected"]
                 ELSE [resend EXCEPT !.step = "read", !.read = pending]
    /\ UNCHANGED <<dialog, digits, countdown, pending, mailed, verify, guesses, account>>

\* A new code, no attempts made.
WriteResend ==
    /\ resend.step = "read" /\ mailed < MaxCodes
    /\ mailed' = mailed + 1
    /\ pending' = [code |-> mailed', attempts |-> 0, ttl |-> Lifetime]
    /\ resend' = [resend EXCEPT !.step = "accepted"]
    /\ UNCHANGED <<dialog, digits, countdown, verify, guesses, account>>

ResendAnswered ==
    /\ resend.step \in {"accepted", "rejected"}
    /\ resend' = NoCall
    /\ countdown' = IF resend.step = "accepted" THEN Lifetime ELSE countdown
    /\ UNCHANGED <<dialog, digits, pending, mailed, verify, guesses, account>>

Next ==
    \/ Initiate \/ CloseDialog \/ Tick
    \/ \E c \in 0..MaxCodes : EnterDigits(c)
    \/ SendVerify \/ ReadVerify \/ Exhausted \/ WrongCode \/ RightCode \/ VerifyAnswered
    \/ SendResend \/ ReadResend \/ WriteResend \/ ResendAnswered

Spec == Init /\ [][Next]_regVars

-----------------------------------------------------------------------------
(* Properties *)

\* However verifications and resends overlap, no mailed code is compared with more
\* wrong ones than attempts are allowed, also when a late write brings a replaced code
\* back (attempts, isVerifyingOtp).
GuessesBounded == \A c \in 1..MaxCodes : guesses[c] <= MaxAttempts
==============================================================================
