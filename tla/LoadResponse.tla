---------------------------- MODULE LoadResponse ----------------------------
(***************************************************************************)
(* What pylakekeeper makes of the answer to a load: models.py, lance.py    *)
(* and the constructors in objects.py.  The answer has the configurations  *)
(* of the vended credentials, here one after the other, and one of its     *)
(* own.  They become one dict, and dicts are read in the order in which    *)
(* they were filled: a dict is the sequence of the <<key, value>> assigned *)
(* to it; a key has the value that was assigned last, and the place of the *)
(* first.  None is the value of a key that is absent or empty.             *)
(***************************************************************************)
EXTENDS Naturals, Sequences, FiniteSetsExt

CONSTANTS
    None,
    NoNumber   \* a value that int() does not take

Has(d, k) == \E i \in DOMAIN d : d[i][1] = k

\* d.get(k)
Value(d, k) == IF Has(d, k) THEN d[Max({i \in DOMAIN d : d[i][1] = k})][2] ELSE None

\* _collect_iceberg_props: the credentials in turn, then the config.
Collect(creds, config) == creds \o config

\* LoadGenericTableResponse.credentials
Credentials(resp) == Collect(resp.creds, resp.config)

\* _apply_overrides
ApplyOverrides(resp, overrides) == [resp EXCEPT !.config = @ \o overrides]

\* x or y
Or(x, y) == IF x # None THEN x ELSE y

\* The value of the first key in the order of d that is one of keys and has a value.
FirstIn(d, keys) ==
    LET set == {i \in DOMAIN d : d[i][1] \in keys /\ Value(d, d[i][1]) # None}
    IN  IF set = {} THEN None ELSE Value(d, d[Min(set)][1])

-----------------------------------------------------------------------------
ExpiryKeys == {"expiration-time", "s3.session-token-expires-at-ms", "gcs.oauth2.token-expires-at"}

\* Azure names the account in its keys; two accounts stand for all.
SasExpiry == {"adls.sas-token-expires-at-ms.a", "adls.sas-token-expires-at-ms.b"}
SasToken  == {"adls.sas-token.a", "adls.sas-token.b"}

\* Mutant: only the general key counts.
ExpiresAtGeneral(props) == Value(props, "expiration-time")

\* What the first of the keys that has a value says.
RawExpiry(props) ==
    Or(Value(props, "expiration-time"),
       Or(Value(props, "s3.session-token-expires-at-ms"),
          Or(Value(props, "gcs.oauth2.token-expires-at"), FirstIn(props, SasExpiry))))

\* expires_at: if that is no number, the other keys are not looked at.
ExpiresAt(props) == IF RawExpiry(props) = NoNumber THEN None ELSE RawExpiry(props)

\* Mutant: the margin is added on the wrong side: the credentials count when they are
\* dead for that long.
ExpiresLate(resp, seconds, now) ==
    LET deadline == ExpiresAt(Credentials(resp)) IN deadline # None /\ deadline + seconds <= now

\* expires_within
ExpiresWithin(resp, seconds, now) ==
    LET deadline == ExpiresAt(Credentials(resp)) IN deadline # None /\ deadline <= now + seconds

-----------------------------------------------------------------------------
\* iceberg_creds_to_lance: of the keys that mean the same the last in props counts.
LanceOption(props, keys) ==
    LET set == {i \in DOMAIN props : /\ props[i][1] \in keys
                                     /\ \A j \in 1..(i - 1) : props[j][1] # props[i][1]}
    IN  IF set = {} THEN None ELSE Value(props, props[Max(set)][1])

Lance(props) ==
    [key      |-> LanceOption(props, {"s3.access-key-id"}),
     endpoint |-> LanceOption(props, {"s3.endpoint"}),
     region   |-> LanceOption(props, {"s3.region", "client.region"})]

\* Mutant: the credentials are merged over the config.
FsspecOfCreds(resp) ==
    LET props == Collect(resp.config, resp.creds) IN
    [key      |-> Value(props, "s3.access-key-id"),
     endpoint |-> Value(props, "s3.endpoint"),
     region   |-> Or(Value(props, "client.region"), Value(props, "s3.region"))]

\* fsspec_kwargs: of the two regions client.region is assigned last.
Fsspec(resp) ==
    LET props == Credentials(resp) IN
    [key      |-> Value(props, "s3.access-key-id"),
     endpoint |-> Value(props, "s3.endpoint"),
     region   |-> Or(Value(props, "client.region"), Value(props, "s3.region"))]

\* _S3Objects, which asks for nothing; _AzureObjects and _GcsObjects, which ask
\* for a token.  The container and the SDKs are taken to be there.
S3Objects(props) ==
    [key      |-> Value(props, "s3.access-key-id"),
     endpoint |-> Value(props, "s3.endpoint"),
     region   |-> Or(Value(props, "s3.region"), Value(props, "client.region"))]

\* The token is that of the first account in props, even an empty one.
AzureObjects(props) ==
    LET set == {i \in DOMAIN props : props[i][1] \in SasToken}
    IN  IF set = {} THEN [error |-> "ConfigError"] ELSE [key |-> Value(props, props[Min(set)][1])]

GcsObjects(props) ==
    LET token == Value(props, "gcs.oauth2.token")
    IN  IF token = None THEN [error |-> "ConfigError"] ELSE [key |-> token]

\* object_store_for
ObjectStoreFor(scheme, props) ==
    CASE scheme \in {"s3", "s3a"}     -> S3Objects(props)
      [] scheme \in {"abfs", "abfss"} -> AzureObjects(props)
      [] scheme = "gs"                -> GcsObjects(props)
      [] OTHER                        -> [error |-> "ConfigError"]

\* resp.objects()
Objects(resp) == ObjectStoreFor(resp.scheme, Credentials(resp))
=============================================================================
