--------------------------- MODULE MCVendedTable ---------------------------
EXTENDS VendedTable, TLC

\* One credential with the general key; two S3 credentials with the older key, of
\* which the last counts; Azure and Google with theirs.
MCVended ==
    { [scheme |-> "s3", config |-> << <<"s3.region", "r1">> >>,
       creds  |-> << <<"s3.endpoint", "inner">>, <<"s3.access-key-id", "K1">>,
                     <<"client.region", "r1">>, <<"expiration-time", "expiry">> >>],
      [scheme |-> "s3", config |-> << >>,
       creds  |-> << <<"s3.access-key-id", "K1">>, <<"s3.session-token-expires-at-ms", "expiry">>,
                     <<"s3.session-token-expires-at-ms", "expiry">>, <<"s3.access-key-id", "K2">> >>],
      [scheme |-> "abfss", config |-> << >>,
       creds  |-> << <<"adls.sas-token-expires-at-ms.a", "expiry">>, <<"adls.sas-token.a", "T">> >>],
      [scheme |-> "gs", config |-> << >>,
       creds  |-> << <<"gcs.oauth2.token", "G">>, <<"gcs.oauth2.token-expires-at", "expiry">> >>] }

MCEndpoint == << <<"s3.endpoint", "outer">> >>

Symmetry == Permutations(Threads)
=============================================================================
