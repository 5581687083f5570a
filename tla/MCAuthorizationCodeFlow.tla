---------------------- MODULE MCAuthorizationCodeFlow ----------------------
\* Small instances of AuthorizationCodeFlow for TLC.
EXTENDS AuthorizationCodeFlow

CONSTANTS MyCode, OldCode, OldState

Redirect(code, state, error) ==
    [redirect |-> TRUE, code |-> code, state |-> state, error |-> error]

\* The redirect of this login, with a code and with an error; that of an
\* earlier login; redirects with a parameter missing; another path, with and
\* without parameters.
MCRequests ==
    {Redirect(MyCode, Mine, FALSE), Redirect(None, Mine, TRUE),
     Redirect(OldCode, OldState, FALSE),
     Redirect(OldCode, None, FALSE), Redirect(None, Mine, FALSE),
     Redirect(None, None, FALSE),
     [Redirect(None, None, FALSE) EXCEPT !.redirect = FALSE],
     [Redirect(OldCode, None, FALSE) EXCEPT !.redirect = FALSE]}

MCCodes  == {MyCode, OldCode}
MCStates == {Mine, OldState}
=============================================================================
