-------------------- MODULE AuthorizationCodeFlowProofs --------------------
(***************************************************************************)
(* The theorems about AuthorizationCodeFlow, for any requests and any      *)
(* number of connections.                                                  *)
(***************************************************************************)
EXTENDS AuthorizationCodeFlow, TLAPS

\* What the backlog holds, in particular its head and what is left of it.
LEMMA BacklogTypes ==
    ASSUME TypeOK, pc = "read"
    PROVE  /\ Head(backlog) \in Requests \cup {Silent}
           /\ Tail(backlog) \in Seq(Requests \cup {Silent})
  BY DEF TypeOK

\* A request is no silent connection.
LEMMA RequestFields ==
    ASSUME NEW r \in Requests
    PROVE  /\ r.redirect \in BOOLEAN /\ r.error \in BOOLEAN
           /\ r.code \in Codes \cup {None} /\ r.state \in States \cup {None}
  BY RequestAssumption DEF Request

\* Every step preserves the types.
LEMMA TypeStep ==
    ASSUME TypeOK, [Next]_vars
    PROVE  TypeOK'
<1> USE TimeAssumption DEF TypeOK, Goto, loopVars, netVars
<1>1. CASE HandleRequest
  BY <1>1 DEF HandleRequest
<1>2. CASE TimeOut \/ Refused \/ Mismatch \/ Exchanged
  BY <1>2 DEF TimeOut, Refused, Mismatch, Exchanged, End
<1>3. CASE SliceEnds \/ Accept
  BY <1>3 DEF SliceEnds, Accept
<1>4. CASE Serve
  <2> DEFINE r == Head(backlog)
  <2>1. pc = "read" /\ r \in Requests /\ backlog' = Tail(backlog) /\ served' = served \cup {r}
    BY <1>4, BacklogTypes DEF Serve
  <2>2. auth' \in [code : Codes \cup {None}, state : States \cup {None}, error : BOOLEAN]
    BY <1>4, <2>1, RequestFields DEF Serve
  <2> QED
    BY <1>4, <2>1, <2>2, BacklogTypes DEF Serve
<1>5. CASE ExchangeCode
  BY <1>5 DEF ExchangeCode
<1>6. CASE Connect
  <2>1. PICK c \in Requests \cup {Silent} : backlog' = Append(backlog, c)
    BY <1>6 DEF Connect
  <2>2. backlog' \in Seq(Requests \cup {Silent}) /\ backlog' # << >>
    BY <2>1
  <2> QED
    BY <1>6, <2>2 DEF Connect
<1>7. CASE Close
  BY <1>7, BacklogTypes DEF Close, ServeNothing
<1>8. ASSUME NEW i \in 1..MaxConnections, Send(i)
      PROVE  TypeOK'
  <2>1. backlog' \in Seq(Requests \cup {Silent}) /\ (backlog # << >> => backlog' # << >>)
    BY <1>8 DEF Send
  <2> QED
    BY <1>8, <2>1 DEF Send
<1>9. CASE Tick
  BY <1>9 DEF Tick
<1>10. CASE UNCHANGED vars
  BY <1>10 DEF vars
<1> QED
  BY <1>1, <1>2, <1>3, <1>4, <1>5, <1>6, <1>7, <1>8, <1>9, <1>10 DEF Next, Wait, Done

\* Every step preserves the invariant of the login.
LEMMA LoginStep ==
    ASSUME TypeOK, LoginInv, [Next]_vars
    PROVE  LoginInv'
<1> USE DEF LoginInv, FieldsInv, WaitInv, CodeCameWithState, RedirectDecides,
            Redirected, Goto, loopVars, netVars
<1>1. CASE HandleRequest
  BY <1>1 DEF HandleRequest, Decisive
<1>2. CASE TimeOut \/ Refused \/ Mismatch
  BY <1>2 DEF TimeOut, Refused, Mismatch, End, Decisive
<1>3. CASE Exchanged
  BY <1>3 DEF Exchanged, End, Decisive
<1>4. CASE SliceEnds \/ Accept
  BY <1>4 DEF SliceEnds, Accept, Decisive
<1>5. CASE Serve
  <2> DEFINE r == Head(backlog)
  <2>1. pc = "read" /\ pc' = "test" /\ r \in Requests /\ served' = served \cup {r}
    BY <1>5, BacklogTypes DEF Serve
  <2>2. auth' = IF r.redirect THEN [code |-> r.code, state |-> r.state, error |-> r.error]
                              ELSE auth
    BY <1>5 DEF Serve
  <2>3. UNCHANGED <<outcome, exchanged>>
    BY <1>5 DEF Serve
  <2>4. ~Redirected /\ ~\E q \in served : Decisive(q)
    BY <2>1
  <2>5. Redirected' <=> Decisive(r)
    BY <2>2, <2>4 DEF Decisive
  <2>6. (\E q \in served : Decisive(q))' <=> Decisive(r)
    BY <2>1, <2>4 DEF Decisive
  <2>7. FieldsInv'
    BY <2>1, <2>2
  <2>8. WaitInv'
    BY <2>1, <2>3, <2>5, <2>6
  <2>9. CodeCameWithState'
    BY <2>1, <2>3
  <2> QED
    BY <2>1, <2>7, <2>8, <2>9
<1>6. CASE ExchangeCode
  <2>1. auth.code # None
    BY <1>6 DEF ExchangeCode
  <2>2. PICK r \in served :
          r.redirect /\ auth = [code |-> r.code, state |-> r.state, error |-> r.error]
    BY <2>1 DEF Nothing
  <2>3. r.code = exchanged' /\ r.state = Mine /\ ~r.error
    BY <1>6, <2>2 DEF ExchangeCode
  <2>4. CodeCameWithState'
    BY <1>6, <2>2, <2>3 DEF ExchangeCode
  <2> QED
    BY <1>6, <2>4 DEF ExchangeCode, Decisive
<1>7. CASE Connect
  BY <1>7 DEF Connect, Decisive
<1>8. CASE Close
  BY <1>8 DEF Close, ServeNothing, Decisive
<1>9. ASSUME NEW i \in 1..MaxConnections, Send(i)
      PROVE  LoginInv'
  BY <1>9 DEF Send, Decisive
<1>10. CASE Tick
  BY <1>10 DEF Tick, Decisive
<1>11. CASE UNCHANGED vars
  BY <1>11 DEF vars, Decisive
<1> QED
  BY <1>1, <1>2, <1>3, <1>4, <1>5, <1>6, <1>7, <1>8, <1>9, <1>10, <1>11 DEF Next, Wait, Done

\* The types and the invariant of the login hold in every reachable state.
THEOREM LoginInvariant == Spec => [](TypeOK /\ LoginInv)
<1>1. Init => TypeOK /\ LoginInv
  BY TimeAssumption
     DEF Init, TypeOK, Nothing, LoginInv, FieldsInv, WaitInv, CodeCameWithState,
         RedirectDecides, Redirected, Decisive
<1>2. TypeOK /\ LoginInv /\ [Next]_vars => TypeOK' /\ LoginInv'
  BY TypeStep, LoginStep
<1> QED
  BY <1>1, <1>2, PTL DEF Spec

\* Type correctness.
THEOREM LoginTypeOK == Spec => []TypeOK
  BY LoginInvariant, PTL

\* The code that goes to the token endpoint came with this login's state, for
\* any requests that reach the loopback server in any order.
THEOREM LoginCodeCameWithState == Spec => []CodeCameWithState
<1>1. LoginInv => CodeCameWithState
  BY DEF LoginInv
<1> QED
  BY <1>1, LoginInvariant, PTL

\* A login times out exactly when no redirect was served.
THEOREM LoginRedirectDecides == Spec => []RedirectDecides
<1>1. LoginInv => RedirectDecides
  BY DEF LoginInv
<1> QED
  BY <1>1, LoginInvariant, PTL
=============================================================================
