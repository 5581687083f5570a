--------------------------- MODULE DeviceCodeFlow ---------------------------
(***************************************************************************)
(* auth.py, DeviceCodeFlow._acquire: the device authorization grant.  The  *)
(* client asks for a device code, shows it to the user, and polls the      *)
(* token endpoint until the user has approved or denied, the code has      *)
(* expired, or its own deadline has passed.  The identity provider answers *)
(* each poll as it likes within RFC 8628; "slow_down" asks for a longer    *)
(* interval.  This is the step "login" of RefreshableAuth in detail.       *)
(*                                                                         *)
(* Time passes while a request or the prompt is under way, for Delay at    *)
(* most, and in time.sleep; not between two statements.                    *)
(***************************************************************************)
EXTENDS Naturals

CONSTANTS
    PollTimeout,   \* poll_timeout
    Intervals,     \* the values of "interval", the default 5 s among them
    Lifetimes,     \* the values of "expires_in", the default poll_timeout among them
    Backoff,       \* the 5 s that slow_down adds
    Delay,         \* longest duration of a request and of the prompt
    MaxTime        \* bound on the clock

ASSUME TimeAssumption ==
    /\ {PollTimeout, Backoff, Delay, MaxTime} \subseteq Nat
    /\ Intervals \subseteq Nat /\ Lifetimes \subseteq Nat

VARIABLES
    pc,         \* where _acquire is
    interval,   \* interval
    expiresIn,  \* expires_in
    deadline,   \* deadline
    since,      \* when the request, the prompt or the sleep under way began
    outcome,    \* what _acquire has returned or raised
    now,        \* time.monotonic()
    approval,   \* identity provider: what the user has decided
    dies,       \* identity provider: when the device code expires
    demanded,   \* identity provider: the interval it has asked for
    lastPoll,   \* identity provider: when the last poll came in
    polls,      \* identity provider: number of polls so far
    answer      \* identity provider: its answer to the last poll

idpVars == <<approval, dies, demanded, lastPoll, polls, answer>>
vars    == <<pc, interval, expiresIn, deadline, since, outcome, now,
             approval, dies, demanded, lastPoll, polls, answer>>

Init ==
    /\ pc = "start"
    /\ interval = 0 /\ expiresIn = 0 /\ deadline = 0 /\ since = 0
    /\ outcome = "none"
    /\ now = 0
    /\ approval = "pending" /\ dies = 0
    /\ demanded = 0 /\ lastPoll = 0 /\ polls = 0 /\ answer = "none"

Goto(from, to) == pc = from /\ pc' = to /\ since' = now

\* _acquire returns or raises.
End(from, how) ==
    /\ Goto(from, "done")
    /\ outcome' = how
    /\ UNCHANGED <<interval, expiresIn, deadline, now>>

Shorter(a, b) == IF a < b THEN a ELSE b

-----------------------------------------------------------------------------
\* _request_device_code, and the fields of its answer.
RequestDeviceCode ==
    /\ Goto("start", "prompt")
    /\ interval' \in Intervals /\ expiresIn' \in Lifetimes
    /\ demanded' = interval'
    /\ dies' = now + expiresIn'
    /\ UNCHANGED <<deadline, outcome, now, approval, lastPoll, polls, answer>>

\* Mutant: device["device_code"] without the test for it.
NoDeviceCodeField == End("start", "KeyError") /\ UNCHANGED idpVars

\* No answer, an error status or no device_code; or a body that is not JSON or
\* a field that is no number.
NoDeviceCode ==
    /\ \E error \in {"AuthError", "ValueError"} : End("start", error)
    /\ UNCHANGED idpVars

\* The prompt callback returns; the deadline counts from here.
Prompted ==
    /\ Goto("prompt", "check")
    /\ deadline' = now + Shorter(expiresIn, PollTimeout)
    /\ UNCHANGED <<interval, expiresIn, outcome, now, idpVars>>

\* Mutant: `while True`.
SleepAnyway ==
    /\ Goto("check", "sleep")
    /\ UNCHANGED <<interval, expiresIn, deadline, outcome, now, idpVars>>

\* The loop condition, and the sleep.
SleepAgain ==
    /\ now < deadline
    /\ Goto("check", "sleep")
    /\ UNCHANGED <<interval, expiresIn, deadline, outcome, now, idpVars>>

\* Mutant: no sleep that would end after the deadline.
GiveUpEarly ==
    /\ ~(now + interval < deadline)
    /\ End("check", "timed_out")
    /\ UNCHANGED idpVars

\* The login times out: the loop condition is false.
GiveUp ==
    /\ ~(now < deadline)
    /\ End("check", "timed_out")
    /\ UNCHANGED idpVars

\* time.sleep(interval) is over and _poll_once sends its request.
Wake ==
    /\ now >= since + interval
    /\ Goto("sleep", "poll")
    /\ UNCHANGED <<interval, expiresIn, deadline, outcome, now, idpVars>>

\* The answers of RFC 8628, 3.5, to a poll that comes in now.
Answers ==
    {"slow_down", "server_error"} \cup
    CASE now >= dies            -> {"expired_token"}
      [] approval = "pending"   -> {"authorization_pending"}
      [] approval = "approved"  -> {"token", "unreadable"}
      [] approval = "denied"    -> {"access_denied"}

\* The identity provider receives the poll and answers.
Receive ==
    /\ pc = "poll" /\ pc' = "answer"
    /\ answer' \in Answers
    /\ demanded' = IF answer' = "slow_down" THEN demanded + Backoff ELSE demanded
    /\ lastPoll' = now
    /\ polls' = polls + 1
    /\ UNCHANGED <<interval, expiresIn, deadline, since, outcome, now, approval, dies>>

\* httpx raises: the poll or its answer is lost, or too late.
PollLost ==
    /\ \E from \in {"poll", "answer"} : End(from, "AuthError")
    /\ UNCHANGED idpVars

\* Mutant: slow_down is taken for authorization_pending.
KeepPollingAtOnce ==
    /\ answer \in {"authorization_pending", "slow_down"}
    /\ Goto("answer", "check")
    /\ UNCHANGED <<interval, expiresIn, deadline, outcome, now, idpVars>>

\* Mutant: every answer of the server that is not final restarts the wait.
KeepPollingAnew ==
    /\ answer \in {"authorization_pending", "slow_down"}
    /\ Goto("answer", "check")
    /\ interval' = IF answer = "slow_down" THEN interval + Backoff ELSE interval
    /\ deadline' = now + PollTimeout
    /\ UNCHANGED <<expiresIn, outcome, now, idpVars>>

\* The two answers after which _acquire goes on.
KeepPolling ==
    /\ answer \in {"authorization_pending", "slow_down"}
    /\ Goto("answer", "check")
    /\ interval' = IF answer = "slow_down" THEN interval + Backoff ELSE interval
    /\ UNCHANGED <<expiresIn, deadline, outcome, now, idpVars>>

\* 200 with a token: _acquire returns the bundle.
Succeed ==
    /\ answer = "token"
    /\ End("answer", "bundle")
    /\ UNCHANGED idpVars

\* Any other answer ends the login with an error.
Fail ==
    /\ \/ /\ answer \in {"access_denied", "expired_token", "server_error"}
          /\ End("answer", "AuthError")
       \/ /\ answer = "unreadable"
          /\ End("answer", "ValueError")
    /\ UNCHANGED idpVars

\* The user decides, once the prompt is on the screen.
Decide ==
    /\ pc # "start" /\ approval = "pending" /\ now < dies
    /\ approval' \in {"approved", "denied"}
    /\ UNCHANGED <<pc, interval, expiresIn, deadline, since, outcome, now,
                   dies, demanded, lastPoll, polls, answer>>

Tick ==
    /\ now < MaxTime
    /\ \/ pc \in {"start", "prompt", "poll", "answer"} /\ now < since + Delay
       \/ pc = "sleep" /\ now < since + interval
    /\ now' = now + 1
    /\ UNCHANGED <<pc, interval, expiresIn, deadline, since, outcome, idpVars>>

Done == pc = "done" /\ UNCHANGED vars

Acquire ==
    \/ RequestDeviceCode \/ NoDeviceCode \/ Prompted \/ SleepAgain \/ GiveUp
    \/ Wake \/ Receive \/ PollLost \/ KeepPolling \/ Succeed \/ Fail

Next == Acquire \/ Decide \/ Tick \/ Done

Spec == Init /\ [][Next]_vars

\* Time goes on and requests end; nobody makes the user decide.
FairSpec == Spec /\ WF_vars(Acquire) /\ WF_vars(Tick)

-----------------------------------------------------------------------------
TypeOK ==
    /\ pc \in {"start", "prompt", "check", "sleep", "poll", "answer", "done"}
    /\ {interval, expiresIn, deadline, since, now, dies, demanded, lastPoll, polls}
          \subseteq Nat
    /\ outcome \in {"none", "bundle", "timed_out", "AuthError", "ValueError"}
    /\ approval \in {"pending", "approved", "denied"}
    /\ answer \in {"none", "slow_down", "server_error", "expired_token",
                   "authorization_pending", "token", "unreadable", "access_denied"}

\* "back off by 5s and keep polling" (auth.py:406): two polls are never closer
\* than the interval the identity provider asked for at first and every
\* slow_down since, answers that were slow to come included.
NeverTooFast ==
    [][polls' # polls /\ polls > 0 => now >= lastPoll + demanded]_vars

\* The wait is bounded: when it is not over, the deadline is past by a sleep
\* and a request at most, however many slow_downs there were.
GivesUpInTime ==
    pc \in {"check", "sleep", "poll", "answer"} => now <= deadline + interval + Delay

\* The login times out only if the server was asked once more at the deadline,
\* or at most the duration of that request before it: an approval that was
\* given earlier does not go unnoticed for want of a poll.
AskedAtTheEnd ==
    outcome = "timed_out" =>
        \/ polls > 0 /\ lastPoll + Delay >= deadline
        \/ Shorter(expiresIn, PollTimeout) = 0

-----------------------------------------------------------------------------
\* The parts of the inductive invariant.

\* Client and identity provider agree on the interval, but for a slow_down
\* that is still on its way, and the sleep counts from after the last poll.
IntervalInv ==
    /\ pc # "done" =>
          demanded = IF pc = "answer" /\ answer = "slow_down" THEN interval + Backoff
                                                              ELSE interval
    /\ pc \in {"start", "prompt"} => polls = 0
    /\ pc = "sleep" /\ polls > 0 => since >= lastPoll
    /\ pc = "poll" /\ polls > 0 => now >= lastPoll + demanded

\* What is under way began in time and has not lasted too long.
TimeInv ==
    /\ since <= now /\ lastPoll <= now
    /\ pc = "check" => since = now
    /\ pc \in {"check", "poll", "answer"} => since <= deadline + interval + Delay
    /\ pc \in {"poll", "answer"} => since <= deadline + interval /\ now <= since + Delay
    /\ pc = "sleep" => since < deadline /\ now <= since + interval

\* The answer under way is that to the last poll; what the loop condition
\* tests follows an answer or, the first time, the prompt.
AskedInv ==
    /\ pc = "answer" => polls > 0 /\ lastPoll >= since
    /\ pc = "check" /\ polls > 0 => lastPoll + Delay >= now
    /\ pc = "check" /\ polls = 0 => deadline = now + Shorter(expiresIn, PollTimeout)
    /\ pc \in {"sleep", "poll"} /\ polls = 0 => Shorter(expiresIn, PollTimeout) > 0
    /\ pc # "done" => outcome = "none"

PollInv == IntervalInv /\ TimeInv /\ AskedInv /\ GivesUpInTime /\ AskedAtTheEnd

\* The login ends, whatever the user does.
LoginEnds == <>(pc = "done")
=============================================================================
