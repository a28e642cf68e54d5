----------------------- MODULE AdminRegistration_proof -----------------------
(***************************************************************************)
(* Proofs about AdminRegistration, for any number of codes, attempts and   *)
(* ticks: however verifications and resends overlap, no code is compared   *)
(* with more wrong ones than attempts are allowed; and the types.          *)
(***************************************************************************)
EXTENDS AdminRegistration, TLAPS

Calls == {"none", "sent", "read", "accepted", "rejected"}
Keys == [code : 0..MaxCodes, attempts : 0..MaxAttempts, ttl : 0..Lifetime]

Shapes ==
    /\ pending \in Keys
    /\ verify \in [step : Calls, code : 0..MaxCodes, read : Keys]
    /\ digits \in 0..MaxCodes
    /\ mailed \in 0..MaxCodes
    /\ guesses \in [1..MaxCodes -> Nat]

\* Every wrong guess at the code a record holds is among the attempts it counts.  That
\* a verification's copy is behind the key does not matter, as verifications are not in
\* flight together.
Counts(key) ==
    key # NoPending =>
        /\ key.code \in 1..mailed
        /\ guesses[key.code] <= key.attempts

\* A code that was not mailed yet has not been guessed at.
Unmailed == \A c \in 1..MaxCodes : c > mailed => guesses[c] = 0

RegInv ==
    /\ Shapes /\ Unmailed /\ GuessesBounded
    /\ Counts(pending)
    /\ verify.step = "read" => verify.read # NoPending /\ Counts(verify.read)

\* The bounds of the instance.
Bounds == MaxAttempts \in Nat /\ MaxCodes \in Nat /\ Lifetime \in Nat

LEMMA InitReg == Bounds /\ Init => RegInv
<1> SUFFICES ASSUME Bounds, Init PROVE RegInv
  OBVIOUS
<1>1. Shapes
  BY DEF Bounds, Init, Shapes, Calls, Keys, NoCall, NoPending
<1> QED
  BY <1>1 DEF Bounds, Init, RegInv, Unmailed, GuessesBounded, Counts, NoCall

\* A new code: no guesses, no attempts.
LEMMA NewCode ==
    ASSUME Bounds, RegInv, mailed < MaxCodes, mailed' = mailed + 1,
           pending' = [code |-> mailed', attempts |-> 0, ttl |-> Lifetime],
           verify' = verify, guesses' = guesses, digits' \in 0..MaxCodes
    PROVE  RegInv'
<1>0. Shapes /\ Unmailed /\ GuessesBounded
  BY DEF RegInv
<1>1. mailed' \in 1..MaxCodes
  BY <1>0 DEF Bounds, Shapes
<1>2. Shapes'
  BY <1>0, <1>1 DEF Bounds, Shapes, Keys
<1>3. Unmailed' /\ GuessesBounded'
  BY <1>0 DEF Shapes, Unmailed, GuessesBounded
<1>4. Counts(pending)'
  BY <1>0, <1>1 DEF Shapes, Unmailed, Counts
<1>5. (verify.step = "read" => verify.read # NoPending /\ Counts(verify.read))'
  BY <1>0, <1>1 DEF RegInv, Shapes, Counts
<1> QED
  BY <1>2, <1>3, <1>4, <1>5 DEF RegInv

LEMMA StepReg == Bounds /\ RegInv /\ [Next]_regVars => RegInv'
<1> SUFFICES ASSUME Bounds, RegInv, [Next]_regVars PROVE RegInv'
  OBVIOUS
<1>0. Shapes /\ Unmailed /\ GuessesBounded /\ Counts(pending)
  BY DEF RegInv
<1>n. NoPending \in Keys
  BY DEF Bounds, NoPending, Keys
<1>1. CASE UNCHANGED <<digits, pending, mailed, verify, guesses>>
  BY <1>1 DEF RegInv, Shapes, Unmailed, GuessesBounded, Counts
<1>2. CASE Initiate \/ WriteResend
  BY <1>0, <1>2, NewCode DEF Initiate, WriteResend, Shapes, Bounds
<1>3. CASE Tick
  <2>1. pending' \in Keys /\ Counts(pending)'
    <3>1. CASE pending.ttl <= 1
      BY <1>n, <1>3, <3>1 DEF Tick, Counts
    <3>2. CASE pending.ttl > 1
      <4>1. pending' = [pending EXCEPT !.ttl = @ - 1]
        BY <1>0, <1>3, <3>2 DEF Tick, Shapes, Keys, Bounds
      <4>2. pending'.code = pending.code /\ pending'.attempts = pending.attempts
        BY <1>0, <4>1 DEF Shapes, Keys
      <4>3. pending # NoPending
        BY <3>2 DEF NoPending
      <4>4. pending' \in Keys
        <5>1. pending.ttl - 1 \in 0..Lifetime
          BY <1>0, <3>2 DEF Shapes, Keys, Bounds
        <5> QED
          BY <1>0, <4>1, <5>1 DEF Shapes, Keys
      <4>5. Counts(pending)'
        BY <1>0, <1>3, <4>2, <4>3 DEF Tick, Counts
      <4> QED
        BY <4>4, <4>5
    <3>3. pending.ttl \in Nat
      BY <1>0 DEF Shapes, Keys, Bounds
    <3> QED
      BY <3>1, <3>2, <3>3
  <2> QED
    BY <1>0, <1>3, <2>1 DEF Tick, RegInv, Shapes, Unmailed, GuessesBounded, Counts
<1>4. ASSUME NEW c \in 0..MaxCodes, EnterDigits(c) PROVE RegInv'
  BY <1>4 DEF EnterDigits, RegInv, Shapes, Unmailed, GuessesBounded, Counts
<1>5. CASE SendVerify \/ VerifyAnswered
  <2>1. verify' \in [step : Calls, code : 0..MaxCodes, read : Keys] /\ verify'.step # "read"
    BY <1>0, <1>n, <1>5 DEF SendVerify, VerifyAnswered, Shapes, Calls, NoCall, Bounds
  <2> QED
    BY <1>0, <1>5, <2>1
    DEF SendVerify, VerifyAnswered, RegInv, Shapes, Unmailed, GuessesBounded, Counts
<1>6. CASE ReadVerify
  <2>1. CASE pending = NoPending
    <3>1. verify' \in [step : Calls, code : 0..MaxCodes, read : Keys] /\ verify'.step = "rejected"
      BY <1>0, <1>6, <2>1 DEF ReadVerify, Shapes, Calls
    <3> QED
      BY <1>0, <1>6, <3>1 DEF ReadVerify, RegInv, Shapes, Unmailed, GuessesBounded, Counts
  <2>2. CASE pending # NoPending
    <3>1. /\ verify' \in [step : Calls, code : 0..MaxCodes, read : Keys]
          /\ verify'.read = pending
      BY <1>0, <1>6, <2>2 DEF ReadVerify, Shapes, Calls
    <3> QED
      BY <1>0, <1>6, <2>2, <3>1 DEF ReadVerify, RegInv, Shapes, Unmailed, GuessesBounded, Counts
  <2> QED
    BY <2>1, <2>2
<1>7. CASE Exhausted \/ RightCode
  <2>1. verify' \in [step : Calls, code : 0..MaxCodes, read : Keys] /\ verify'.step # "read"
    BY <1>0, <1>7 DEF Exhausted, RightCode, Shapes, Calls
  <2>2. pending' = NoPending /\ UNCHANGED <<guesses, mailed, digits>>
    BY <1>7 DEF Exhausted, RightCode
  <2>3. Shapes' /\ Unmailed' /\ GuessesBounded'
    BY <1>0, <1>n, <2>1, <2>2 DEF Shapes, Unmailed, GuessesBounded
  <2> QED
    BY <2>1, <2>2, <2>3 DEF RegInv, Counts
<1>8. CASE WrongCode
  <2> DEFINE key == verify.read
  <2>1. /\ key \in Keys /\ key # NoPending /\ key.code \in 1..mailed
        /\ guesses[key.code] <= key.attempts /\ key.attempts < MaxAttempts
    BY <1>0, <1>8 DEF WrongCode, RegInv, Shapes, Counts
  <2>2. /\ pending' \in Keys /\ pending'.code = key.code
        /\ pending'.attempts = key.attempts + 1
    BY <1>8, <2>1 DEF WrongCode, Attempt, Keys, Bounds
  <2>3. verify' \in [step : Calls, code : 0..MaxCodes, read : Keys] /\ verify'.step = "rejected"
    BY <1>0, <1>8 DEF WrongCode, Shapes, Calls
  <2>4. key.code \in 1..MaxCodes
    BY <1>0, <2>1 DEF Shapes, Bounds
  <2>5. /\ guesses' \in [1..MaxCodes -> Nat]
        /\ guesses'[key.code] = guesses[key.code] + 1
        /\ \A c \in 1..MaxCodes : c # key.code => guesses'[c] = guesses[c]
    BY <1>0, <1>8, <2>4 DEF WrongCode, Shapes
  <2>6. Shapes'
    BY <1>0, <1>8, <2>2, <2>3, <2>5 DEF WrongCode, Shapes
  <2>7. Unmailed'
    BY <1>0, <1>8, <2>1, <2>4, <2>5 DEF WrongCode, Unmailed, Shapes
  <2>8. GuessesBounded'
    <3>1. guesses'[key.code] <= MaxAttempts
      <4>1. key.attempts \in Nat /\ MaxAttempts \in Nat
        BY <2>1 DEF Keys, Bounds
      <4>2. guesses[key.code] \in Nat
        BY <1>0, <2>4 DEF Shapes
      <4> HIDE DEF key
      <4> QED
        BY <2>1, <2>5, <4>1, <4>2
    <3>2. \A c \in 1..MaxCodes : c # key.code => guesses'[c] <= MaxAttempts
      BY <1>0, <2>5 DEF GuessesBounded
    <3> QED
      BY <3>1, <3>2 DEF GuessesBounded
  <2>9. Counts(pending)'
    BY <1>0, <1>8, <2>1, <2>2, <2>4, <2>5 DEF WrongCode, Counts, Shapes, Keys
  <2> QED
    BY <2>3, <2>6, <2>7, <2>8, <2>9 DEF RegInv
<1> QED
  BY <1>1, <1>2, <1>3, <1>4, <1>5, <1>6, <1>7, <1>8
  DEF Next, regVars, CloseDialog, SendResend, ReadResend, ResendAnswered

\* However verifications, resends, restarts and expiries overlap, no mailed code is
\* compared with more wrong ones than attempts are allowed (register_verify, isVerifyingOtp).
THEOREM GuessesStayBounded ==
    ASSUME Bounds
    PROVE  Spec => []GuessesBounded
<1>1. Init => RegInv
  BY InitReg
<1>2. RegInv /\ [Next]_regVars => RegInv'
  BY StepReg
<1>3. RegInv => GuessesBounded
  BY DEF RegInv
<1> QED
  BY <1>1, <1>2, <1>3, PTL DEF Spec

-----------------------------------------------------------------------------
(* The types *)

\* Besides what RegInv holds of them: the dialog, and what a resend has read.
RegTyped ==
    /\ dialog \in BOOLEAN /\ account \in BOOLEAN
    /\ countdown \in 0..Lifetime
    /\ resend \in [step : Calls, code : {0}, read : Keys]

LEMMA InitTyped == Bounds /\ Init => RegTyped
<1>1. ASSUME Bounds PROVE NoPending \in Keys /\ 0 \in 0..Lifetime
  BY <1>1 DEF Bounds, NoPending, Keys
<1>2. ASSUME Bounds PROVE NoCall \in [step : Calls, code : {0}, read : Keys]
  BY <1>1, <1>2 DEF NoCall, Calls
<1> QED
  BY <1>1, <1>2 DEF Init, RegTyped

LEMMA StepTyped == Bounds /\ RegInv /\ RegTyped /\ [Next]_regVars => RegTyped'
<1> SUFFICES ASSUME Bounds, RegInv, RegTyped, [Next]_regVars PROVE RegTyped'
  OBVIOUS
<1>0. pending \in Keys /\ Lifetime \in 0..Lifetime /\ NoPending \in Keys
  BY DEF RegInv, Shapes, Bounds, NoPending, Keys
<1> USE DEF RegTyped
<1>1. CASE UNCHANGED <<dialog, account, countdown, resend>>
  BY <1>1
<1>2. CASE Initiate \/ CloseDialog
  BY <1>0, <1>2 DEF Initiate, CloseDialog
<1>3. CASE Tick
  <2>1. countdown' \in 0..Lifetime
    BY <1>3 DEF Tick, Bounds
  <2> QED
    BY <1>3, <2>1 DEF Tick
<1>4. CASE RightCode \/ VerifyAnswered
  BY <1>4 DEF RightCode, VerifyAnswered
<1>5. CASE SendResend \/ WriteResend
  BY <1>0, <1>5 DEF SendResend, WriteResend, Calls
<1>6. CASE ReadResend
  <2>1. CASE pending = NoPending
    BY <1>6, <2>1 DEF ReadResend, Calls
  <2>2. CASE pending # NoPending
    BY <1>0, <1>6, <2>2 DEF ReadResend, Calls
  <2> QED
    BY <2>1, <2>2
<1>7. CASE ResendAnswered
  BY <1>0, <1>7 DEF ResendAnswered, NoCall, Calls
<1> QED
  BY <1>1, <1>2, <1>3, <1>4, <1>5, <1>6, <1>7
  DEF Next, regVars, EnterDigits, SendVerify, ReadVerify, Exhausted, WrongCode

LEMMA TypesOf == Bounds /\ RegInv /\ RegTyped => TypeOK
BY DEF RegInv, Shapes, RegTyped, TypeOK, Keys, Calls

\* The dialog, the registration that is pending and the requests have their types; in
\* particular the attempts that are counted never pass the limit, although they are
\* written back as they were read, with one more.
THEOREM RegistrationTypeCorrect ==
    ASSUME Bounds
    PROVE  Spec => []TypeOK
<1>1. Init => RegInv /\ RegTyped
  BY InitReg, InitTyped
<1>2. RegInv /\ RegTyped /\ [Next]_regVars => RegInv' /\ RegTyped'
  BY StepReg, StepTyped
<1>3. RegInv /\ RegTyped => TypeOK
  BY TypesOf
<1> QED
  BY <1>1, <1>2, <1>3, PTL DEF Spec
==============================================================================
