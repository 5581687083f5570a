------------------------ MODULE DeviceCodeFlowProofs ------------------------
(***************************************************************************)
(* The theorems about DeviceCodeFlow, for any interval, lifetime, timeout  *)
(* and delay, and any answers of the identity provider.                    *)
(***************************************************************************)
EXTENDS DeviceCodeFlow, TLAPS

\* The two waits are natural numbers, and so is the shorter one.
LEMMA ShorterIsNat ==
    ASSUME TypeOK
    PROVE  Shorter(expiresIn, PollTimeout) \in Nat
  BY TimeAssumption DEF Shorter, TypeOK

\* Every step preserves the types.
LEMMA TypeStep ==
    ASSUME TypeOK, [Next]_vars
    PROVE  TypeOK'
<1> USE TimeAssumption DEF TypeOK
<1>1. CASE RequestDeviceCode
  BY <1>1 DEF RequestDeviceCode, Goto
<1>2. CASE NoDeviceCode \/ PollLost \/ GiveUp \/ Succeed \/ Fail
  BY <1>2 DEF NoDeviceCode, PollLost, GiveUp, Succeed, Fail, End, Goto, idpVars
<1>3. CASE Prompted
  BY <1>3, ShorterIsNat DEF Prompted, Goto, idpVars
<1>4. CASE SleepAgain \/ Wake \/ KeepPolling
  BY <1>4 DEF SleepAgain, Wake, KeepPolling, Goto, idpVars
<1>5. CASE Receive
  <2>1. Answers \subseteq {"slow_down", "server_error", "expired_token",
                           "authorization_pending", "token", "unreadable", "access_denied"}
    BY DEF Answers
  <2> QED
    BY <1>5, <2>1 DEF Receive
<1>6. CASE Decide
  BY <1>6 DEF Decide
<1>7. CASE Tick
  BY <1>7 DEF Tick, idpVars
<1>8. CASE UNCHANGED vars
  BY <1>8 DEF vars
<1> QED
  BY <1>1, <1>2, <1>3, <1>4, <1>5, <1>6, <1>7, <1>8 DEF Next, Acquire, Done

\* Every step preserves the invariant of the polls.
LEMMA PollStep ==
    ASSUME TypeOK, TypeOK', PollInv, [Next]_vars
    PROVE  PollInv'
<1> USE TimeAssumption
    DEF PollInv, IntervalInv, TimeInv, AskedInv, GivesUpInTime, AskedAtTheEnd, TypeOK
<1>1. CASE RequestDeviceCode
  BY <1>1 DEF RequestDeviceCode, Goto
<1>2. CASE NoDeviceCode \/ PollLost \/ Succeed \/ Fail
  BY <1>2 DEF NoDeviceCode, PollLost, Succeed, Fail, End, Goto, idpVars
<1>3. CASE GiveUp
  BY <1>3 DEF GiveUp, End, Goto, idpVars, Shorter
<1>4. CASE Prompted
  BY <1>4, ShorterIsNat DEF Prompted, Goto, idpVars, Shorter
<1>5. CASE SleepAgain
  BY <1>5, ShorterIsNat DEF SleepAgain, Goto, idpVars, Shorter
<1>6. CASE Wake
  BY <1>6 DEF Wake, Goto, idpVars, Shorter
<1>7. CASE Receive
  BY <1>7 DEF Receive, Goto, Shorter
<1>8. CASE KeepPolling
  BY <1>8 DEF KeepPolling, Goto, idpVars, Shorter
<1>9. CASE Decide
  BY <1>9 DEF Decide, Shorter
<1>10. CASE Tick
  BY <1>10 DEF Tick, idpVars, Shorter
<1>11. CASE UNCHANGED vars
  BY <1>11 DEF vars, Shorter
<1> QED
  BY <1>1, <1>2, <1>3, <1>4, <1>5, <1>6, <1>7, <1>8, <1>9, <1>10, <1>11
     DEF Next, Acquire, Done

\* The types and the invariant of the polls hold in every reachable state.
THEOREM DeviceInvariant == Spec => [](TypeOK /\ PollInv)
<1>1. Init => TypeOK /\ PollInv
  BY TimeAssumption
     DEF Init, TypeOK, PollInv, IntervalInv, TimeInv, AskedInv, GivesUpInTime, AskedAtTheEnd
<1>2. TypeOK /\ PollInv /\ [Next]_vars => TypeOK' /\ PollInv'
  BY TypeStep, PollStep
<1> QED
  BY <1>1, <1>2, PTL DEF Spec

\* Type correctness.
THEOREM DeviceTypeOK == Spec => []TypeOK
  BY DeviceInvariant, PTL

\* "back off by 5s and keep polling" (auth.py:406): no poll comes in before the
\* interval the identity provider has asked for is over.
THEOREM DeviceNeverTooFast == Spec => NeverTooFast
<1>1. TypeOK /\ PollInv /\ [Next]_vars
        => [polls' # polls /\ polls > 0 => now >= lastPoll + demanded]_vars
  <2> SUFFICES ASSUME TypeOK, PollInv, [Next]_vars, polls' # polls, polls > 0
               PROVE  now >= lastPoll + demanded
    OBVIOUS
  <2>1. pc = "poll"
    BY DEF Next, Acquire, RequestDeviceCode, NoDeviceCode, Prompted, SleepAgain, GiveUp, Wake,
           Receive, PollLost, KeepPolling, Succeed, Fail, Decide, Tick, Done, End, idpVars, vars
  <2> QED
    BY <2>1 DEF PollInv, IntervalInv
<1> QED
  BY <1>1, DeviceInvariant, PTL DEF Spec, NeverTooFast

\* The wait is over when the deadline is past by a sleep and a request.
THEOREM DeviceGivesUpInTime == Spec => []GivesUpInTime
<1>1. PollInv => GivesUpInTime
  BY DEF PollInv
<1> QED
  BY <1>1, DeviceInvariant, PTL

\* A login that times out has asked the server at the end.
THEOREM DeviceAskedAtTheEnd == Spec => []AskedAtTheEnd
<1>1. PollInv => AskedAtTheEnd
  BY DEF PollInv
<1> QED
  BY <1>1, DeviceInvariant, PTL
=============================================================================
