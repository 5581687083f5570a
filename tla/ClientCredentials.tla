------------------------- MODULE ClientCredentials -------------------------
(***************************************************************************)
(* auth.py, class ClientCredentials: the cache of AuthCache filled by the  *)
(* OAuth2 client_credentials grant.                                        *)
(***************************************************************************)
EXTENDS AuthCache

vars == cacheVars

\* httpx.post reaches the token endpoint and it answers 200 with a token.
RequestGranted(t) == Grant(t, "fetch")

\* No answer, a status other than 200 or a body without access_token; after
\* the endpoint granted the token too, when the answer is lost.
RequestFails(t) == \E from \in {"fetch", "apply"} : Abort(t, from, "AuthError")

\* Mutant: payload["access_token"] without the test for it.
RequestWithoutToken(t) == Abort(t, "fetch", "KeyError")

\* The body is not JSON, or expires_in not a number: nothing catches it.
RequestUnreadable(t) == Abort(t, "fetch", "ValueError")

Refresh(t) == RequestGranted(t) \/ RequestFails(t) \/ RequestUnreadable(t) \/ StoreExpiry(t)

Step(t) == HeaderStep(t) \/ InvalidateStep(t) \/ Refresh(t)

Init == CacheInit
Next == Tick \/ Finished \/ \E t \in Threads : Calls(t) \/ Step(t)

Spec == Init /\ [][Next]_vars

TypeOK == CacheTypeOK
=============================================================================
