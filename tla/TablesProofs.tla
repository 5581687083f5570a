----------------------------- MODULE TablesProofs -----------------------------
(***************************************************************************)
(* The theorems about generic tables: GenericTables, the listing of a      *)
(* namespace, for any loops, tables, pages and failures, and VendedTable,  *)
(* the cached load response, for any threads, margin, lifetimes and bounds.*)
(* That the parsing of a namespace undoes its formatting (NamesArrive) is  *)
(* a hypothesis, for it is about folds over text.                          *)
(***************************************************************************)
EXTENDS GenericTables, VendedTable, WellFoundedInduction, TLAPS

(***************************************************************************)
(* LoadResponse: dicts that are filled one assignment after the other      *)
(***************************************************************************)

\* A set of places has a first and a last.
LEMMA FirstAndLast ==
    ASSUME NEW n \in Nat, NEW S \in SUBSET (1..n), S # {}
    PROVE  /\ Min(S) \in S /\ \A i \in S : Min(S) <= i
           /\ Max(S) \in S /\ \A i \in S : i <= Max(S)
<1>1. ASSUME NEW T \in SUBSET Nat, T # {}
      PROVE  \E x \in T : \A y \in T : x <= y
  <2>1. PICK x \in T : \A y \in T : ~(<<y, x>> \in OpToRel(<, Nat))
    BY <1>1, NatLessThanWellFounded, WFMin
  <2>2. ASSUME NEW y \in T
        PROVE  x <= y
    <3>1. x \in Nat /\ y \in Nat /\ ~(<<y, x>> \in OpToRel(<, Nat))
      BY <2>1
    <3> QED
      BY <3>1 DEF OpToRel
  <2> QED
    BY <2>2
<1>2. Min(S) \in S /\ \A i \in S : Min(S) <= i
  <2>1. \E x \in S : \A y \in S : x <= y
    BY <1>1
  <2> QED
    BY <2>1 DEF Min
<1>3. Max(S) \in S /\ \A i \in S : i <= Max(S)
  <2> DEFINE T == {n - i : i \in S}
  <2>0. T \in SUBSET Nat /\ T # {}
    <3>1. \A i \in S : i \in Nat /\ i <= n /\ n - i \in Nat
      OBVIOUS
    <3>2. PICK i \in S : TRUE
      OBVIOUS
    <3>3. n - i \in T
      BY <3>2
    <3> QED
      BY <3>1, <3>3
  <2>1. PICK i \in S : \A y \in T : n - i <= y
    <3> HIDE DEF T
    <3>1. PICK x \in T : \A y \in T : x <= y
      BY <1>1, <2>0
    <3> QED
      BY <3>1 DEF T
  <2>2. \A j \in S : i >= j
    BY <2>1
  <2>3. Max(S) \in S /\ \A j \in S : Max(S) >= j
    BY <2>2 DEF Max
  <2> QED
    BY <2>3
<1> QED
  BY <1>2, <1>3

\* A key has the value of its last assignment.
LEMMA LastAssigned ==
    ASSUME NEW V, NEW d \in Seq(V), NEW k, Has(d, k)
    PROVE  \E i \in DOMAIN d : /\ d[i][1] = k /\ Value(d, k) = d[i][2]
                               /\ \A j \in DOMAIN d : d[j][1] = k => j <= i
<1> DEFINE S == {i \in DOMAIN d : d[i][1] = k}
<1>1. Len(d) \in Nat /\ DOMAIN d = 1..Len(d) /\ S # {}
  BY DEF Has
<1>2. Max(S) \in S /\ \A i \in S : i <= Max(S)
  BY <1>1, FirstAndLast
<1>3. Value(d, k) = d[Max(S)][2]
  BY DEF Value
<1> QED
  BY <1>2, <1>3

\* What a dict is updated with counts, key by key.
LEMMA UpdateCounts ==
    ASSUME NEW V, NEW d \in Seq(V), NEW e \in Seq(V), NEW k, Has(e, k)
    PROVE  Has(d \o e, k) /\ Value(d \o e, k) = Value(e, k)
<1>1. /\ Len(d) \in Nat /\ Len(e) \in Nat /\ DOMAIN e = 1..Len(e)
      /\ d \o e \in Seq(V) /\ DOMAIN (d \o e) = 1..(Len(d) + Len(e))
      /\ \A i \in DOMAIN e : (d \o e)[Len(d) + i] = e[i]
  OBVIOUS
<1>2. PICK j \in DOMAIN e : /\ e[j][1] = k /\ Value(e, k) = e[j][2]
                            /\ \A i \in DOMAIN e : e[i][1] = k => i <= j
  BY LastAssigned
<1>3. Len(d) + j \in DOMAIN (d \o e) /\ (d \o e)[Len(d) + j][1] = k
  BY <1>1, <1>2
<1>4. Has(d \o e, k)
  BY <1>3 DEF Has
<1>5. PICK i \in DOMAIN (d \o e) :
         /\ (d \o e)[i][1] = k /\ Value(d \o e, k) = (d \o e)[i][2]
         /\ \A h \in DOMAIN (d \o e) : (d \o e)[h][1] = k => h <= i
  BY <1>1, <1>4, LastAssigned
<1>6. i >= Len(d) + j
  BY <1>3, <1>5
<1>7. i - Len(d) \in DOMAIN e /\ i = Len(d) + (i - Len(d))
  BY <1>1, <1>6
<1>8. e[i - Len(d)][1] = k
  BY <1>1, <1>5, <1>7
<1>9. i = Len(d) + j
  BY <1>1, <1>2, <1>6, <1>7, <1>8
<1> QED
  BY <1>1, <1>2, <1>4, <1>5, <1>9

\* A Lance option that only one key sets has the value of that key.
LEMMA LanceOptionOfKey ==
    ASSUME NEW V, NEW d \in Seq(V), NEW k
    PROVE  LanceOption(d, {k}) = Value(d, k)
<1> DEFINE places == {i \in DOMAIN d : d[i][1] = k}
           firsts == {i \in DOMAIN d : /\ d[i][1] \in {k}
                                       /\ \A j \in 1..(i - 1) : d[j][1] # d[i][1]}
<1>1. Len(d) \in Nat /\ DOMAIN d = 1..Len(d)
  OBVIOUS
<1>2. LanceOption(d, {k}) = IF firsts = {} THEN None ELSE Value(d, d[Max(firsts)][1])
  BY DEF LanceOption
<1>3. CASE firsts = {}
  <2>1. places = {}
    <3> SUFFICES ASSUME places # {}
                 PROVE  FALSE
      OBVIOUS
    <3>1. Min(places) \in places /\ \A i \in places : Min(places) <= i
      BY <1>1, FirstAndLast
    <3>2. ASSUME NEW j \in 1..(Min(places) - 1)
          PROVE  d[j][1] # k
      <4>1. Min(places) \in 1..Len(d) /\ j \in 1..Len(d) /\ ~(Min(places) <= j)
        BY <1>1, <3>1
      <4> QED
        BY <1>1, <3>1, <4>1
    <3>3. Min(places) \in firsts
      BY <3>1, <3>2
    <3> QED
      BY <1>3, <3>3
  <2> QED
    BY <1>2, <1>3, <2>1 DEF Value, Has
<1>4. CASE firsts # {}
  <2>1. Max(firsts) \in firsts
    BY <1>1, <1>4, FirstAndLast
  <2> QED
    BY <1>2, <1>4, <2>1
<1> QED
  BY <1>3, <1>4

\* expires_at finds the expiry, if it is said under one of its keys or more, and nothing
\* else is.
LEMMA ExpiryFound ==
    ASSUME NEW V, NEW d \in Seq(V), NEW expiry, expiry # None, expiry # NoNumber,
           \E i \in DOMAIN d : d[i][1] \in ExpiryKeys \cup SasExpiry,
           \A i \in DOMAIN d : d[i][1] \in ExpiryKeys \cup SasExpiry => d[i][2] = expiry
    PROVE  ExpiresAt(d) = expiry
<1> DEFINE keys == ExpiryKeys \cup SasExpiry
           set  == {i \in DOMAIN d : d[i][1] \in SasExpiry /\ Value(d, d[i][1]) # None}
<1> HIDE DEF keys
<1>1. \A k \in keys : Value(d, k) = IF Has(d, k) THEN expiry ELSE None
  <2>1. ASSUME NEW k \in keys, Has(d, k)
        PROVE  Value(d, k) = expiry
    <3>1. PICK i \in DOMAIN d : d[i][1] = k /\ Value(d, k) = d[i][2]
      BY <2>1, LastAssigned
    <3> QED
      BY <3>1 DEF keys
  <2> QED
    BY <2>1 DEF Value
<1>2. FirstIn(d, SasExpiry) = IF set = {} THEN None ELSE expiry
  <2>1. FirstIn(d, SasExpiry) = IF set = {} THEN None ELSE Value(d, d[Min(set)][1])
    BY DEF FirstIn
  <2>2. ASSUME set # {}
        PROVE  Value(d, d[Min(set)][1]) = expiry
    <3>1. Len(d) \in Nat /\ DOMAIN d = 1..Len(d) /\ set \in SUBSET (1..Len(d))
      OBVIOUS
    <3>2. Min(set) \in set
      BY <2>2, <3>1, FirstAndLast
    <3>3. /\ d[Min(set)][1] \in keys /\ Value(d, d[Min(set)][1]) # None
      BY <3>2 DEF keys
    <3> QED
      BY <1>1, <3>3
  <2> QED
    BY <2>1, <2>2
<1>3. ASSUME NEW k \in SasExpiry, Has(d, k)
      PROVE  set # {}
  <2>1. PICK i \in DOMAIN d : d[i][1] = k
    BY <1>3 DEF Has
  <2>2. Value(d, k) = expiry
    BY <1>1, <1>3 DEF keys
  <2>3. i \in set
    BY <1>3, <2>1, <2>2
  <2> QED
    BY <2>3
<1>4. \E k \in keys : Has(d, k)
  BY DEF Has, keys
<1> HIDE DEF set
<1>5. /\ Value(d, "expiration-time") \in {None, expiry}
      /\ Value(d, "s3.session-token-expires-at-ms") \in {None, expiry}
      /\ Value(d, "gcs.oauth2.token-expires-at") \in {None, expiry}
      /\ FirstIn(d, SasExpiry) \in {None, expiry}
  BY <1>1, <1>2 DEF keys, ExpiryKeys
<1>6. ~(/\ Value(d, "expiration-time") = None
        /\ Value(d, "s3.session-token-expires-at-ms") = None
        /\ Value(d, "gcs.oauth2.token-expires-at") = None
        /\ FirstIn(d, SasExpiry) = None)
  <2>1. PICK k \in keys : Has(d, k)
    BY <1>4
  <2>2. Value(d, k) = expiry
    BY <1>1, <2>1
  <2>3. CASE k \in SasExpiry
    BY <1>2, <1>3, <2>1, <2>3
  <2>4. CASE k \in ExpiryKeys
    BY <2>2, <2>4 DEF ExpiryKeys
  <2> QED
    BY <2>1, <2>3, <2>4 DEF keys
<1> QED
  BY <1>5, <1>6 DEF ExpiresAt, RawExpiry, Or

\* Filling in the expiry changes neither the keys nor the order.
LEMMA FilledDict ==
    ASSUME NEW d \in Seq(STRING \X STRING), NEW expiry
    PROVE  /\ Filled(d, expiry) \in Seq(STRING \X (STRING \cup {expiry}))
           /\ Len(Filled(d, expiry)) = Len(d)
           /\ \A i \in 1..Len(d) :
                /\ Filled(d, expiry)[i][1] = d[i][1]
                /\ d[i][2] = "expiry" => Filled(d, expiry)[i][2] = expiry
<1>1. Len(d) \in Nat /\ DOMAIN d = 1..Len(d) /\ \A i \in 1..Len(d) : d[i] \in STRING \X STRING
  OBVIOUS
<1>2. \A i \in 1..Len(d) :
         <<d[i][1], IF d[i][2] = "expiry" THEN expiry ELSE d[i][2]>> \in STRING \X (STRING \cup {expiry})
  BY <1>1
<1> QED
  BY <1>1, <1>2 DEF Filled

\* The dict of a response says the expiry under all expiry keys it has, and has one,
\* if that is so of what the server has sent and the overrides have none.
LEMMA ExpirySaid ==
    ASSUME NEW v \in Vended, NEW expiry
    PROVE  LET d    == Filled(v.creds, expiry) \o (Filled(v.config, expiry) \o Overrides)
               keys == ExpiryKeys \cup SasExpiry
           IN  /\ d \in Seq(STRING \X (STRING \cup {expiry}))
               /\ \E i \in DOMAIN d : d[i][1] \in keys
               /\ \A i \in DOMAIN d : d[i][1] \in keys => d[i][2] = expiry
<1> DEFINE a    == v.creds
           b    == v.config
           c    == Overrides
           keys == ExpiryKeys \cup SasExpiry
<1>0. /\ a \in Seq(STRING \X STRING) /\ b \in Seq(STRING \X STRING) /\ c \in Seq(STRING \X STRING)
      /\ \E i \in DOMAIN (a \o b) : (a \o b)[i][2] = "expiry"
      /\ \A i \in DOMAIN (a \o b) : (a \o b)[i][2] = "expiry" <=> (a \o b)[i][1] \in keys
      /\ \A i \in DOMAIN c : c[i][1] \notin keys
  BY ExpiryAssumption
<1> HIDE DEF a, b, c, keys
<1> DEFINE f == Filled(a, expiry)
           g == Filled(b, expiry)
           V == STRING \X (STRING \cup {expiry})
           h == g \o c
           d == f \o h
<1>1. a \in Seq(STRING \X STRING) /\ b \in Seq(STRING \X STRING) /\ c \in Seq(STRING \X STRING)
  BY <1>0
<1>2. /\ f \in Seq(V) /\ Len(f) = Len(a)
      /\ \A i \in 1..Len(a) : f[i][1] = a[i][1] /\ (a[i][2] = "expiry" => f[i][2] = expiry)
  BY <1>1, FilledDict
<1>3. /\ g \in Seq(V) /\ Len(g) = Len(b)
      /\ \A i \in 1..Len(b) : g[i][1] = b[i][1] /\ (b[i][2] = "expiry" => g[i][2] = expiry)
  BY <1>1, FilledDict
<1>4. /\ Len(a) \in Nat /\ Len(b) \in Nat /\ Len(c) \in Nat /\ DOMAIN c = 1..Len(c)
      /\ c \in Seq(V)
  BY <1>1
<1> HIDE DEF f, g, V
<1>5. /\ h \in Seq(V) /\ Len(h) = Len(b) + Len(c)
      /\ \A i \in 1..Len(b) : h[i] = g[i]
      /\ \A i \in 1..Len(c) : h[Len(b) + i] = c[i]
  <2>1. g \in Seq(V) /\ c \in Seq(V) /\ Len(g) = Len(b)
    BY <1>3, <1>4
  <2>2. /\ h \in Seq(V) /\ Len(h) = Len(g) + Len(c)
        /\ \A i \in 1..Len(g) : h[i] = g[i]
        /\ \A i \in 1..Len(c) : h[Len(g) + i] = c[i]
    BY <2>1
  <2> QED
    BY <2>1, <2>2
<1> HIDE DEF h
<1>6. /\ d \in Seq(V) /\ DOMAIN d = 1..(Len(a) + Len(h))
      /\ \A i \in 1..Len(a) : d[i] = f[i]
      /\ \A i \in 1..Len(h) : d[Len(a) + i] = h[i]
  <2>1. f \in Seq(V) /\ h \in Seq(V) /\ Len(f) = Len(a)
    BY <1>2, <1>5
  <2>2. /\ d \in Seq(V) /\ DOMAIN d = 1..(Len(f) + Len(h))
        /\ \A i \in 1..Len(f) : d[i] = f[i]
        /\ \A i \in 1..Len(h) : d[Len(f) + i] = h[i]
    BY <2>1
  <2> QED
    BY <2>1, <2>2
<1>7. /\ DOMAIN d = 1..(Len(a) + Len(b) + Len(c))
      /\ \A i \in 1..Len(b) : d[Len(a) + i] = g[i]
  BY <1>4, <1>5, <1>6
<1>8. ASSUME NEW i \in 1..Len(c)
      PROVE  d[Len(a) + Len(b) + i] = c[i]
  <2>1. Len(b) + i \in 1..Len(h) /\ Len(a) + (Len(b) + i) = Len(a) + Len(b) + i
    BY <1>4, <1>5
  <2> QED
    BY <1>5, <1>6, <2>1
<1>9. \A i \in 1..Len(a) : a[i][2] = "expiry" <=> a[i][1] \in keys
  <2>1. \A i \in 1..Len(a) : i \in DOMAIN (a \o b) /\ (a \o b)[i] = a[i]
    BY <1>0
  <2> QED
    BY <1>0, <2>1
<1>10. \A i \in 1..Len(b) : b[i][2] = "expiry" <=> b[i][1] \in keys
  <2>1. \A i \in 1..Len(b) : Len(a) + i \in DOMAIN (a \o b) /\ (a \o b)[Len(a) + i] = b[i]
    BY <1>0
  <2> QED
    BY <1>0, <2>1
<1>11. \/ \E i \in 1..Len(a) : a[i][2] = "expiry"
       \/ \E i \in 1..Len(b) : b[i][2] = "expiry"
  <2>1. PICK i \in DOMAIN (a \o b) : (a \o b)[i][2] = "expiry"
    BY <1>0
  <2>2. i \in 1..Len(a) \/ i - Len(a) \in 1..Len(b)
    BY <1>0
  <2>3. CASE i \in 1..Len(a)
    <3>1. (a \o b)[i] = a[i]
      BY <1>0, <2>3
    <3> QED
      BY <2>1, <2>3, <3>1
  <2>4. CASE i - Len(a) \in 1..Len(b)
    <3>1. (a \o b)[i] = b[i - Len(a)]
      BY <1>0, <2>4
    <3> QED
      BY <2>1, <2>4, <3>1
  <2> QED
    BY <2>2, <2>3, <2>4
<1> HIDE DEF d
<1>12. \E i \in DOMAIN d : d[i][1] \in keys
  <2>1. ASSUME NEW i \in 1..Len(a), a[i][2] = "expiry"
        PROVE  i \in DOMAIN d /\ d[i][1] \in keys
    <3>1. i \in DOMAIN d
      BY <1>4, <1>7
    <3> QED
      BY <1>2, <1>6, <1>9, <2>1, <3>1
  <2>2. ASSUME NEW i \in 1..Len(b), b[i][2] = "expiry"
        PROVE  Len(a) + i \in DOMAIN d /\ d[Len(a) + i][1] \in keys
    BY <1>3, <1>4, <1>7, <1>10, <2>2
  <2> QED
    BY <1>11, <2>1, <2>2
<1>13. ASSUME NEW i \in DOMAIN d, d[i][1] \in keys
       PROVE  d[i][2] = expiry
  <2>1. CASE i \in 1..Len(a)
    BY <1>2, <1>6, <1>9, <1>13, <2>1
  <2>2. ASSUME NEW j \in 1..Len(b), i = Len(a) + j
        PROVE  d[i][2] = expiry
    BY <1>3, <1>7, <1>10, <1>13, <2>2
  <2>3. ASSUME NEW j \in 1..Len(c), i = Len(a) + Len(b) + j
        PROVE  FALSE
    BY <1>0, <1>4, <1>8, <1>13, <2>3
  <2>4. \/ i \in 1..Len(a)
        \/ i - Len(a) \in 1..Len(b) /\ i = Len(a) + (i - Len(a))
        \/ /\ i - (Len(a) + Len(b)) \in 1..Len(c)
           /\ i = Len(a) + Len(b) + (i - (Len(a) + Len(b)))
    <3>1. i \in 1..(Len(a) + Len(b) + Len(c))
      BY <1>7
    <3> QED
      BY ONLY <1>4, <3>1
  <2> QED
    BY <2>1, <2>2, <2>3, <2>4
<1> QED
  BY <1>6, <1>12, <1>13 DEF a, b, c, d, f, g, h, keys, V

\* What a response makes of what the server vends: one dict, filled from the credentials,
\* the config and the overrides.
LEMMA ResponseDict ==
    ASSUME NEW v \in Vended, NEW life, NEW at
    PROVE  LET r == Response(v, life, at) IN
           /\ r.issued = at /\ r.dies = at + life
           /\ Credentials(r) =
                Filled(v.creds, at + life) \o (Filled(v.config, at + life) \o Overrides)
  BY DEF Response, ApplyOverrides, Stamp, Credentials, Collect

\* expires_at finds when the credentials end, in whichever of the keys the server says it.
LEMMA ExpiryIsRead ==
    ASSUME NEW v \in Vended, NEW life \in Lifetimes, NEW at \in Nat
    PROVE  ExpiresAt(Credentials(Response(v, life, at))) = at + life
<1> DEFINE expiry == at + life
           d == Filled(v.creds, expiry) \o (Filled(v.config, expiry) \o Overrides)
<1>1. expiry # None /\ expiry # NoNumber
  BY VendedAssumption
<1>2. /\ d \in Seq(STRING \X (STRING \cup {expiry}))
      /\ \E i \in DOMAIN d : d[i][1] \in ExpiryKeys \cup SasExpiry
      /\ \A i \in DOMAIN d : d[i][1] \in ExpiryKeys \cup SasExpiry => d[i][2] = expiry
  BY ExpirySaid
<1>3. Credentials(Response(v, life, at)) = d
  BY ResponseDict
<1> HIDE DEF d, expiry
<1>4. ExpiresAt(d) = expiry
  BY <1>1, <1>2, ExpiryFound
<1> QED
  BY <1>3, <1>4 DEF expiry

(***************************************************************************)
(* VendedTable                                                             *)
(***************************************************************************)

\* Every step preserves the types.
LEMMA VendedTypes ==
    ASSUME TypeOK, [Next]_vars
    PROVE  TypeOK'
<1> USE VendedAssumption DEF Goto
<1>1. CASE Revoke
  BY <1>1 DEF Revoke, TypeOK
<1>2. CASE Tick
  BY <1>2 DEF Tick, TypeOK
<1>3. CASE AllIdle \/ UNCHANGED vars
  BY <1>3 DEF AllIdle, vars, TypeOK
<1>4. ASSUME NEW t \in Threads, Resp(t)
      PROVE  TypeOK'
  BY <1>4 DEF Resp, TypeOK
<1>5. ASSUME NEW t \in Threads, Ensure(t)
      PROVE  TypeOK'
  <2>1. readable' \in BOOLEAN
    BY <1>5, Zenon DEF Ensure, TypeOK
  <2> QED
    BY <1>5, <2>1 DEF Ensure, TypeOK
<1>6. ASSUME NEW t \in Threads, Invalidate(t)
      PROVE  TypeOK'
  BY <1>6 DEF Invalidate, TypeOK
<1>7. ASSUME NEW t \in Threads, CheckCached(t) \/ CheckExpiry(t) \/ CheckRaises(t)
      PROVE  TypeOK'
  BY <1>7 DEF CheckCached, CheckExpiry, CheckRaises, TypeOK
<1>8. ASSUME NEW t \in Threads, Load(t)
      PROVE  TypeOK'
  BY <1>8 DEF Load, TypeOK
<1>9. ASSUME NEW t \in Threads, StoreCached(t) \/ ReturnCached(t) \/ Raise(t)
      PROVE  TypeOK'
  BY <1>9 DEF StoreCached, ReturnCached, Raise, TypeOK
<1> QED
  BY <1>1, <1>2, <1>3, <1>4, <1>5, <1>6, <1>7, <1>8, <1>9 DEF Next, Step

\* What is known of a response.
LEMMA GenuineKnown ==
    ASSUME TypeOK, NEW r, Genuine(r)
    PROVE  /\ r.issued \in Nat /\ r.dies \in Nat /\ ExpiresAt(Credentials(r)) = r.dies
           /\ \E life \in Lifetimes : r.dies = r.issued + life
<1>1. PICK v \in Vended, life \in Lifetimes : r = Response(v, life, r.issued)
  BY DEF Genuine
<1>2. r.issued \in Nat /\ life \in Nat
  BY VendedAssumption DEF Genuine, TypeOK
<1>3. Response(v, life, r.issued).dies = r.issued + life
  BY ResponseDict
<1>4. ExpiresAt(Credentials(Response(v, life, r.issued))) = r.issued + life
  BY <1>2, ExpiryIsRead
<1> QED
  BY <1>1, <1>2, <1>3, <1>4

\* What a step of another thread leaves of u's call: the response another has just
\* stored is as new as u's call, but for the time answers take.
LEMMA OthersKeep ==
    ASSUME VendedInv, NEW u \in Threads,
           clock' = clock, readable' \/ UNCHANGED <<readable, lost>>,
           pc'[u] = pc[u], answer'[u] = answer[u], since'[u] = since[u],
           \/ cached' = cached \/ cached' = None
           \/ cached'.issued \in Nat /\ cached'.issued + MaxDelay >= clock
    PROVE  CallInv(u)' /\ PassedInv(u)'
<1>1. TypeOK /\ lost <= clock /\ CallInv(u) /\ PassedInv(u)
  BY DEF VendedInv
<1>2. CallInv(u)'
  <2>1. Genuine(answer[u]) => Genuine(answer[u])'
    BY <1>1 DEF TypeOK, Genuine
  <2> QED
    BY <1>1, <2>1 DEF CallInv
<1>3. PassedInv(u)'
  <2>1. since[u] \in Nat /\ clock \in Nat /\ MaxDelay \in Nat
    BY <1>1, VendedAssumption DEF TypeOK
  <2>2. CASE cached' = cached \/ cached' = None
    BY <1>1, <2>2 DEF PassedInv
  <2>3. CASE cached'.issued \in Nat /\ cached'.issued + MaxDelay >= clock
    BY <1>1, <2>1, <2>3 DEF CallInv, PassedInv
  <2> QED
    BY <2>2, <2>3
<1> QED
  BY <1>2, <1>3

\* What a step leaves of all that does not belong to one thread's call.
LEMMA CacheKeeps ==
    ASSUME VendedInv, TypeOK', clock' = clock,
           \/ readable' /\ UNCHANGED lost
           \/ UNCHANGED <<readable, lost>>
           \/ readable /\ lost' = clock
    PROVE  /\ lost' <= clock'
           /\ (cached' = cached \/ cached' = None) /\ cached' # None => Genuine(cached)'
  BY DEF VendedInv, TypeOK, Genuine

\* A thread's step preserves the invariant.
LEMMA ThreadStep ==
    ASSUME VendedInv, TypeOK', NEW t \in Threads, Step(t)
    PROVE  VendedInv'
<1> USE VendedAssumption DEF Goto
<1>0. TypeOK /\ lost <= clock /\ CallInv(t) /\ PassedInv(t)
  BY DEF VendedInv
<1>1. ASSUME clock' = clock, readable' \/ UNCHANGED readable, UNCHANGED lost,
             \/ cached' = cached \/ cached' = None
             \/ cached'.issued \in Nat /\ cached'.issued + MaxDelay >= clock /\ Genuine(cached)',
             \A u \in Threads \ {t} :
                pc'[u] = pc[u] /\ answer'[u] = answer[u] /\ since'[u] = since[u],
             CallInv(t)', PassedInv(t)'
      PROVE  VendedInv'
  <2>1. \A u \in Threads \ {t} : CallInv(u)' /\ PassedInv(u)'
    BY <1>1, OthersKeep
  <2>2. lost' <= clock' /\ (cached' # None => Genuine(cached)')
    BY <1>1, CacheKeeps, <1>0
  <2> QED
    BY <1>1, <2>1, <2>2 DEF VendedInv
<1>2. CASE Resp(t) \/ Ensure(t)
  BY <1>0, <1>1, <1>2 DEF Resp, Ensure, CallInv, PassedInv, TypeOK
<1>3. CASE Invalidate(t)
  BY <1>0, <1>1, <1>3 DEF Invalidate, CallInv, PassedInv, TypeOK
<1>4. CASE CheckExpiry(t)
  <2>1. /\ pc[t] = "expiry" /\ UNCHANGED <<clock, readable, lost, cached, answer, since>>
        /\ \A u \in Threads \ {t} : pc'[u] = pc[u]
        /\ pc'[t] = IF ExpiresWithin(cached, Margin, clock) THEN "load" ELSE "return"
    BY <1>0, <1>4 DEF CheckExpiry, TypeOK
  <2>2. CallInv(t)'
    BY <1>0, <2>1 DEF CallInv
  <2>3. ASSUME cached # None, ~ExpiresWithin(cached, Margin, clock)
        PROVE  since[t] + Margin < cached.dies
    <3>1. cached.dies \in Nat /\ ExpiresAt(Credentials(cached)) = cached.dies
      BY <1>0, <2>3, GenuineKnown DEF VendedInv
    <3>2. cached.dies # None
      BY <3>1
    <3>3. clock + Margin < cached.dies
      BY <1>0, <2>3, <3>1, <3>2 DEF ExpiresWithin, TypeOK
    <3> QED
      BY <1>0, <2>1, <3>1, <3>3 DEF CallInv, TypeOK
  <2>4. PassedInv(t)'
    BY <2>1, <2>3 DEF PassedInv
  <2> QED
    BY <1>1, <2>1, <2>2, <2>4
<1>5. CASE Load(t)
  <2>1. PICK v \in Vended, life \in Lifetimes :
          answer' = [answer EXCEPT ![t] = Response(v, life, clock)]
    BY <1>5 DEF Load
  <2>2. /\ pc[t] = "load" /\ readable /\ UNCHANGED <<clock, readable, lost, cached, since>>
        /\ \A u \in Threads \ {t} : pc'[u] = pc[u] /\ answer'[u] = answer[u]
        /\ pc'[t] = "store" /\ answer'[t] = Response(v, life, clock)
    BY <1>0, <1>5, <2>1 DEF Load, TypeOK
  <2>3. Response(v, life, clock).issued = clock
    BY ResponseDict
  <2>4. Genuine(answer[t])' /\ CallInv(t)'
    BY <1>0, <2>2, <2>3 DEF Genuine, CallInv, TypeOK
  <2>5. PassedInv(t)'
    BY <2>2 DEF PassedInv
  <2> QED
    BY <1>1, <2>2, <2>4, <2>5
<1>6. CASE StoreCached(t)
  <2>1. /\ pc[t] = "store" /\ UNCHANGED <<clock, readable, lost, since>>
        /\ \A u \in Threads \ {t} : pc'[u] = pc[u] /\ answer'[u] = answer[u]
        /\ pc'[t] = "return" /\ cached' = answer[t]
    BY <1>0, <1>6 DEF StoreCached, TypeOK
  <2>2. /\ Genuine(answer[t]) /\ answer[t].issued \in Nat /\ since[t] <= answer[t].issued
        /\ since[t] <= clock /\ clock <= since[t] + MaxDelay
    BY <1>0, <2>1 DEF CallInv, Genuine, TypeOK
  <2>3. Genuine(cached)' /\ cached'.issued \in Nat
    BY <2>1, <2>2 DEF Genuine
  <2>4. cached'.issued + MaxDelay >= clock /\ cached'.issued + MaxDelay >= since[t]
    BY <1>0, <2>1, <2>2 DEF TypeOK
  <2>5. CallInv(t)' /\ PassedInv(t)'
    BY <2>1, <2>2, <2>4 DEF CallInv, PassedInv
  <2> QED
    BY <1>1, <2>1, <2>3, <2>4, <2>5
<1>7. CASE CheckCached(t) \/ CheckRaises(t) \/ ReturnCached(t) \/ Raise(t)
  BY <1>0, <1>1, <1>7 DEF CheckCached, CheckRaises, ReturnCached, Raise, CallInv, PassedInv, TypeOK
<1> QED
  BY <1>2, <1>3, <1>4, <1>5, <1>6, <1>7 DEF Step

\* Every step preserves the invariant.
LEMMA VendedStep ==
    ASSUME VendedInv, [Next]_vars
    PROVE  VendedInv'
<1>0. TypeOK /\ TypeOK' /\ lost <= clock
  BY VendedTypes DEF VendedInv
<1>1. CASE Revoke
  <2>1. lost' <= clock' /\ (cached # None => Genuine(cached)') /\ cached' = cached
    BY <1>0, <1>1, CacheKeeps DEF Revoke
  <2>2. ASSUME NEW t \in Threads
        PROVE  CallInv(t)' /\ PassedInv(t)'
    BY <1>0, <1>1 DEF Revoke, VendedInv, CallInv, PassedInv, Genuine, TypeOK
  <2> QED
    BY <1>0, <2>1, <2>2 DEF VendedInv
<1>2. CASE Tick
  <2>1. lost' <= clock' /\ (cached # None => Genuine(cached)') /\ cached' = cached
    BY <1>0, <1>2 DEF Tick, VendedInv, Genuine, TypeOK
  <2>2. ASSUME NEW t \in Threads
        PROVE  CallInv(t)' /\ PassedInv(t)'
    BY <1>0, <1>2, VendedAssumption DEF Tick, VendedInv, CallInv, PassedInv, Genuine, TypeOK
  <2> QED
    BY <1>0, <2>1, <2>2 DEF VendedInv
<1>3. CASE AllIdle \/ UNCHANGED vars
  BY <1>0, <1>3 DEF AllIdle, vars, VendedInv, CallInv, PassedInv, Genuine
<1>4. ASSUME NEW t \in Threads, Step(t)
      PROVE  VendedInv'
  BY <1>0, <1>4, ThreadStep
<1> QED
  BY <1>1, <1>2, <1>3, <1>4 DEF Next

\* The types, the cached response, what threads have in hand and what they may find.
THEOREM VendedInvariant == Spec => []VendedInv
<1>1. Init => VendedInv
  BY VendedAssumption DEF Init, VendedInv, TypeOK, CallInv, PassedInv
<1>2. VendedInv /\ [Next]_vars => VendedInv'
  BY VendedStep
<1> QED
  BY <1>1, <1>2, PTL DEF Spec

\* "a slow multi-object write started just under the wire still finishes with
\* valid keys" (_common.py:15): what a call returns has its margin left, or is fresh,
\* for any number of threads that share the handle without a lock.
THEOREM VendedFreshEnough == Spec => FreshEnough
<1>1. ASSUME VendedInv, NEW t \in Threads
      PROVE  ReturnsFresh(t)
  <2> SUFFICES ASSUME pc[t] = "return", cached # None
               PROVE  \/ cached.issued + MaxDelay >= since[t]
                      \/ clock + Margin < cached.dies + MaxDelay
    BY DEF ReturnsFresh
  <2>1. CallInv(t) /\ PassedInv(t) /\ Genuine(cached) /\ TypeOK
    BY <1>1 DEF VendedInv
  <2>2. cached.dies \in Nat
    BY <2>1, GenuineKnown
  <2> QED
    BY <2>1, <2>2, VendedAssumption DEF CallInv, PassedInv, Genuine, TypeOK
<1>2. VendedInv /\ [Next]_vars => [\A t \in Threads : ReturnsFresh(t)]_vars
  BY <1>1
<1> QED
  BY <1>2, VendedInvariant, PTL DEF Spec, FreshEnough

\* "an agent whose grant is revoked stops being able to read its memory"
\* (langgraph.py:13): what a call returns while the catalog refuses was vended
\* before that, so that its lifetime, or the time answers take, bounds its use.
THEOREM VendedRevocationBites == Spec => RevocationBites
<1>1. ASSUME VendedInv, NEW t \in Threads
      PROVE  ReturnsGranted(t)
  <2> SUFFICES ASSUME pc[t] = "return", cached # None, ~readable
               PROVE  \/ \E life \in Lifetimes : clock + Margin < lost + life + MaxDelay
                      \/ clock <= lost + 2 * MaxDelay
    BY DEF ReturnsGranted
  <2>1. CallInv(t) /\ PassedInv(t) /\ Genuine(cached) /\ TypeOK
    BY <1>1 DEF VendedInv
  <2>2. PICK life \in Lifetimes : cached.dies = cached.issued + life
    BY <2>1, GenuineKnown
  <2>3. /\ {life, cached.issued, lost, clock, since[t], MaxDelay, Margin} \subseteq Nat
        /\ cached.issued <= lost
    BY <2>1, VendedAssumption DEF Genuine, TypeOK
  <2>4. CASE cached.issued + MaxDelay >= since[t]
    BY <2>1, <2>3, <2>4 DEF CallInv
  <2>5. CASE since[t] + Margin < cached.dies
    BY <2>1, <2>2, <2>3, <2>5 DEF CallInv
  <2> QED
    BY <2>1, <2>4, <2>5 DEF PassedInv
<1>2. VendedInv /\ [Next]_vars => [\A t \in Threads : ReturnsGranted(t)]_vars
  BY <1>1
<1> QED
  BY <1>2, VendedInvariant, PTL DEF Spec, RevocationBites

\* "an override placed here reaches every downstream shape" (generic_tables.py:38),
\* all shapes of an S3 response have the key of one and the same credential, and
\* expires_at finds when the credentials end: whatever the server vends and in which
\* order, and whatever the overrides.
THEOREM VendedShapesAgree == Spec => []ShapesAgree
<1>1. ASSUME NEW v \in Vended, NEW life \in Lifetimes, NEW at \in Nat,
             Response(v, life, at).scheme = "s3"
      PROVE  LET r     == Response(v, life, at)
                 lance == Lance(Credentials(r)) fs == Fsspec(r) s3 == Objects(r)
             IN  /\ lance.key = fs.key /\ fs.key = s3.key
                 /\ \A shape \in {lance, fs, s3} : Has(Overrides, "s3.endpoint") =>
                       shape.endpoint = Value(Overrides, "s3.endpoint")
  <2> DEFINE r     == Response(v, life, at)
             V     == STRING \X (STRING \cup {at + life})
             creds == Filled(v.creds, at + life)
             conf  == Filled(v.config, at + life)
             props == Credentials(r)
  <2>1. creds \in Seq(V) /\ conf \in Seq(V) /\ Overrides \in Seq(V)
    <3>1. /\ v.creds \in Seq(STRING \X STRING) /\ v.config \in Seq(STRING \X STRING)
          /\ Overrides \in Seq(STRING \X STRING)
      BY ExpiryAssumption
    <3> QED
      BY <3>1, FilledDict
  <2>2. props = creds \o (conf \o Overrides)
    BY ResponseDict
  <2>3. r.scheme = "s3"
    BY <1>1
  <2> HIDE DEF r, V, creds, conf, props
  <2>4. conf \o Overrides \in Seq(V) /\ props \in Seq(V)
    BY <2>1, <2>2
  <2>5. /\ Lance(props).key = Value(props, "s3.access-key-id")
        /\ Lance(props).endpoint = Value(props, "s3.endpoint")
    BY <2>4, LanceOptionOfKey DEF Lance
  <2>6. /\ Fsspec(r).key = Value(props, "s3.access-key-id")
        /\ Fsspec(r).endpoint = Value(props, "s3.endpoint")
    BY DEF Fsspec, props
  <2>7. Objects(r) = S3Objects(props)
    BY <2>3 DEF Objects, ObjectStoreFor, props
  <2>8. /\ Objects(r).key = Value(props, "s3.access-key-id")
        /\ Objects(r).endpoint = Value(props, "s3.endpoint")
    BY <2>7 DEF S3Objects
  <2>9. ASSUME Has(Overrides, "s3.endpoint")
        PROVE  Value(props, "s3.endpoint") = Value(Overrides, "s3.endpoint")
    <3> DEFINE own == conf \o Overrides
    <3>1. /\ Has(own, "s3.endpoint")
          /\ Value(own, "s3.endpoint") = Value(Overrides, "s3.endpoint")
      BY <2>1, <2>9, UpdateCounts
    <3>2. own \in Seq(V) /\ props = creds \o own
      BY <2>2, <2>4
    <3> HIDE DEF own
    <3>3. Value(creds \o own, "s3.endpoint") = Value(own, "s3.endpoint")
      BY <2>1, <3>1, <3>2, UpdateCounts
    <3> QED
      BY <3>1, <3>2, <3>3
  <2> QED
    BY <2>5, <2>6, <2>8, <2>9 DEF r, props
<1>2. ASSUME VendedInv
      PROVE  ShapesAgree
  <2>1. TypeOK
    BY <1>2 DEF VendedInv
  <2>2. ASSUME NEW r \in Responses
        PROVE  Genuine(r)
    <3>1. CASE r = cached
      BY <1>2, <2>2, <3>1 DEF VendedInv, Responses
    <3>2. ASSUME NEW t \in Threads, r = answer[t]
          PROVE  Genuine(r)
      BY <1>2, <2>1, <2>2, <3>2 DEF VendedInv, CallInv, Responses, TypeOK
    <3> QED
      BY <3>1, <3>2 DEF Responses
  <2>3. ASSUME NEW r \in Responses
        PROVE  /\ ExpiresAt(Credentials(r)) = r.dies
               /\ r.scheme = "s3" =>
                    LET lance == Lance(Credentials(r)) fs == Fsspec(r) s3 == Objects(r) IN
                    /\ lance.key = fs.key /\ fs.key = s3.key
                    /\ \A shape \in {lance, fs, s3} : Has(Overrides, "s3.endpoint") =>
                          shape.endpoint = Value(Overrides, "s3.endpoint")
    <3>1. ExpiresAt(Credentials(r)) = r.dies /\ r.issued \in Nat
      BY <2>1, <2>2, GenuineKnown
    <3>2. PICK v \in Vended, life \in Lifetimes : r = Response(v, life, r.issued)
      BY <2>2 DEF Genuine
    <3> QED
      BY <1>1, <3>1, <3>2
  <2> QED
    BY <2>1, <2>3 DEF ShapesAgree
<1> QED
  BY <1>2, VendedInvariant, PTL

(***************************************************************************)
(* GenericTables                                                           *)
(***************************************************************************)

\* Listing one more table that was not listed yet.
LEMMA ListOne ==
    ASSUME NEW seq \in Seq(Tables), NEW i \in Tables
    PROVE  /\ Append(seq, i) \in Seq(Tables) /\ ToSet(Append(seq, i)) = ToSet(seq) \cup {i}
           /\ (\A j, k \in DOMAIN seq : seq[j] = seq[k] => j = k) /\ i \notin ToSet(seq)
                => \A j, k \in DOMAIN Append(seq, i) :
                      Append(seq, i)[j] = Append(seq, i)[k] => j = k
<1> DEFINE longer == Append(seq, i)
<1>1. /\ longer \in Seq(Tables) /\ Len(seq) \in Nat /\ Len(longer) = Len(seq) + 1
      /\ DOMAIN seq = 1..Len(seq) /\ DOMAIN longer = 1..Len(longer)
  OBVIOUS
<1>2. \A k \in 1..Len(seq) : longer[k] = seq[k]
  OBVIOUS
<1>3. longer[Len(seq) + 1] = i
  OBVIOUS
<1> HIDE DEF longer
<1>4. ToSet(longer) = ToSet(seq) \cup {i}
  <2>1. \A x \in ToSet(seq) \cup {i} : x \in ToSet(longer)
    BY <1>1, <1>2, <1>3 DEF ToSet
  <2>2. ASSUME NEW k \in DOMAIN longer
        PROVE  longer[k] \in ToSet(seq) \cup {i}
    <3>1. CASE k = Len(seq) + 1
      BY <1>3, <3>1
    <3>2. CASE k # Len(seq) + 1
      <4>1. k \in 1..Len(seq)
        BY <1>1, <3>2
      <4> QED
        BY <1>1, <1>2, <4>1 DEF ToSet
    <3> QED
      BY <3>1, <3>2
  <2> QED
    BY <2>1, <2>2 DEF ToSet
<1>5. ASSUME \A j, k \in DOMAIN seq : seq[j] = seq[k] => j = k, i \notin ToSet(seq),
             NEW j \in DOMAIN longer, NEW k \in DOMAIN longer, longer[j] = longer[k]
      PROVE  j = k
  <2>1. \A n \in DOMAIN longer : n \in 1..Len(seq) \/ n = Len(seq) + 1
    BY <1>1
  <2>2. \A n \in 1..Len(seq) : longer[n] # i
    BY <1>1, <1>2, <1>5 DEF ToSet
  <2> QED
    BY <1>1, <1>2, <1>3, <1>5, <2>1, <2>2
<1> QED
  BY <1>1, <1>4, <1>5 DEF longer

\* The namespaces that arrive are those that are meant, and a page has the tables of
\* one of them.
LEMMA Arriving ==
    ASSUME NamesArrive, ListInv, NEW l \in Listers
    PROVE  /\ Wants[l] \in Calls /\ Wants[l].means # Nowhere
           /\ \A from \in Nat, to \in Nat :
                Between(Wants[l], from, to) =
                  {i \in (from + 1)..to : meant[i] = Wants[l].means}
  BY ListingAssumption DEF NamesArrive, ListInv, ListsWhatStayed, Between

\* Every step preserves the types.
LEMMA ListTypes ==
    ASSUME NamesArrive, ListInv, [ListNext]_listVars
    PROVE  ListTypeOK' /\ home' = meant'
<1> USE ListingAssumption, EndsAssumption DEF ListTypeOK, Tables
<1>0. ListTypeOK /\ home = meant
  BY DEF ListInv, ListsWhatStayed
<1>1. ASSUME NEW i \in Tables, NEW call \in Calls, Create(i, call)
      PROVE  ListTypeOK' /\ home' = meant'
  BY <1>0, <1>1 DEF Create, NamesArrive, iterators
<1>2. ASSUME NEW i \in Tables, NEW call \in Calls, NEW lang, Drop(i, call, lang)
      PROVE  ListTypeOK' /\ home' = meant'
  BY <1>0, <1>2 DEF Drop, iterators
<1>3. ASSUME NEW l \in Listers, Start(l)
      PROVE  ListTypeOK' /\ home' = meant'
  BY <1>0, <1>3 DEF Start
<1>4. ASSUME NEW l \in Listers, Fetch(l)
      PROVE  ListTypeOK' /\ home' = meant'
  <2>1. PICK p \in Pages(l, token[l]) :
          /\ current' = [current EXCEPT ![l] = p.identifiers]
          /\ token' = [token EXCEPT ![l] = p.next]
          /\ LET ends == Lang[l] = "java" /\ p.identifiers = {} IN
             /\ loop' = [loop EXCEPT ![l] = IF ends THEN "ended" ELSE @]
             /\ cut' = [cut EXCEPT ![l] = ends /\ p.next # NoToken]
    BY <1>4 DEF Fetch
  <2>3. p.identifiers \subseteq Tables /\ p.next \in Ends[l] \cup Tables
    BY DEF Pages, Between
  <2>4. /\ current' \in [Listers -> SUBSET Tables] /\ token' = [k \in Listers |-> token'[k]]
        /\ \A k \in Listers : token'[k] \in {NoToken} \cup Ends[k] \cup Tables
    BY <1>0, <2>1, <2>3
  <2>5. loop' \in [Listers -> {"idle", "next", "ended"}] /\ cut' \in [Listers -> BOOLEAN]
    BY <1>0, <2>1
  <2>6. first' \in [Listers -> BOOLEAN]
    BY <1>0, <1>4 DEF Fetch
  <2>7. UNCHANGED <<home, created, meant, listed, stayed, was, broken, failures>>
    BY <1>4 DEF Fetch
  <2> QED
    BY <1>0, <2>4, <2>5, <2>6, <2>7
<1>5. ASSUME NEW l \in Listers, FetchFails(l)
      PROVE  ListTypeOK' /\ home' = meant'
  BY <1>0, <1>5 DEF FetchFails
<1>6. ASSUME NEW l \in Listers, Take(l)
      PROVE  ListTypeOK' /\ home' = meant'
  <2>1. PICK i \in current[l] : /\ listed' = [listed EXCEPT ![l] = Append(@, i)]
                               /\ current' = [current EXCEPT ![l] = @ \ {i}]
    BY <1>6 DEF Take
  <2>2. i \in Tables /\ listed[l] \in Seq(Tables)
    BY <1>0, <2>1
  <2>3. listed' \in [Listers -> Seq(Tables)] /\ current' \in [Listers -> SUBSET Tables]
    BY <1>0, <2>1, <2>2, ListOne
  <2>4. UNCHANGED <<home, created, meant, loop, first, token, stayed, was, broken, cut, failures>>
    BY <1>6 DEF Take
  <2> QED
    BY <1>0, <2>3, <2>4
<1>7. ASSUME NEW l \in Listers, End(l)
      PROVE  ListTypeOK' /\ home' = meant'
  BY <1>0, <1>7 DEF End
<1>8. CASE UNCHANGED listVars
  BY <1>0, <1>8 DEF listVars, iterators
<1> QED
  BY <1>1, <1>2, <1>3, <1>4, <1>5, <1>6, <1>7, <1>8 DEF ListNext, Advance

\* A step of the server or of other callers keeps what is known of an iteration.
LEMMA OthersChange ==
    ASSUME NamesArrive, ListInv, NEW l \in Listers, NEW i \in Tables, NEW call \in Calls,
           NEW lang, Create(i, call) \/ Drop(i, call, lang)
    PROVE  SeenInv(l)' /\ PagesInv(l)' /\ ListedOnce(l)'
<1>1. ListTypeOK /\ home = meant /\ SeenInv(l) /\ PagesInv(l) /\ ListedOnce(l) /\ TablesInv
  BY DEF ListInv, ListsWhatStayed
<1>2. UNCHANGED iterators
  BY DEF Create, Drop
<1>3. Reached(l)' = Reached(l) /\ ListedOnce(l)'
  BY <1>1, <1>2 DEF iterators, Reached, ListedOnce
<1>4. stayed'[l] \subseteq stayed[l] /\ was[l] \subseteq was'[l]
  <2>1. CASE Create(i, call)
    BY <1>1, <2>1 DEF Create, ListTypeOK
  <2>2. CASE Drop(i, call, lang)
    BY <1>1, <2>2 DEF Drop, ListTypeOK
  <2> QED
    BY <2>1, <2>2
<1>5. PagesInv(l)'
  BY <1>1, <1>2, <1>3, <1>4 DEF iterators, PagesInv
<1>6. CASE Create(i, call)
  <2>1. meant[i] = Nowhere /\ Wants[l].means # Nowhere /\ i \notin stayed[l]
    BY <1>1, <1>6, Arriving DEF Create, TablesInv, SeenInv
  <2>2. /\ loop' = loop /\ stayed' = stayed
        /\ \A k \in Tables : meant'[k] = IF k = i THEN call.means ELSE meant[k]
    BY <1>1, <1>2, <1>6 DEF Create, iterators, ListTypeOK
  <2>3. loop[l] # "idle" /\ Wants[l].means = call.means => i \in was'[l]
    BY <1>6 DEF Create
  <2>4. stayed'[l] \subseteq {k \in Tables : meant'[k] = Wants[l].means}
    BY <1>1, <2>1, <2>2 DEF SeenInv
  <2>5. loop'[l] # "idle" => {k \in Tables : meant'[k] = Wants[l].means} \subseteq was'[l]
    BY <1>1, <1>4, <2>2, <2>3 DEF SeenInv
  <2> QED
    BY <1>3, <1>5, <2>4, <2>5 DEF SeenInv
<1>7. CASE Drop(i, call, lang)
  <2>1. meant[i] = call.means /\ Wants[l].means # Nowhere
    BY <1>1, <1>7, Arriving DEF Drop, NamesArrive
  <2>2. /\ loop' = loop /\ was' = was
        /\ \A k \in Tables : meant'[k] = IF k = i THEN Nowhere ELSE meant[k]
    BY <1>1, <1>2, <1>7 DEF Drop, iterators, ListTypeOK
  <2>3. Wants[l].means = call.means => stayed'[l] = stayed[l] \ {i}
    BY <1>7 DEF Drop
  <2>4. stayed'[l] \subseteq {k \in Tables : meant'[k] = Wants[l].means}
    BY <1>1, <1>4, <2>1, <2>2, <2>3 DEF SeenInv
  <2>5. loop'[l] # "idle" => {k \in Tables : meant'[k] = Wants[l].means} \subseteq was'[l]
    BY <1>1, <2>1, <2>2 DEF SeenInv
  <2> QED
    BY <1>3, <1>5, <2>4, <2>5 DEF SeenInv
<1> QED
  BY <1>3, <1>5, <1>6, <1>7

\* An iteration is not changed by the steps of another.
LEMMA OtherLister ==
    ASSUME ListInv, NEW l \in Listers, NEW k \in Listers, k # l,
           Start(k) \/ Advance(k) \/ FetchFails(k)
    PROVE  SeenInv(l)' /\ PagesInv(l)' /\ ListedOnce(l)'
<1>1. ListTypeOK /\ SeenInv(l) /\ PagesInv(l) /\ ListedOnce(l)
  BY DEF ListInv, ListsWhatStayed
<1>2. /\ meant' = meant /\ loop'[l] = loop[l] /\ first'[l] = first[l] /\ current'[l] = current[l]
      /\ token'[l] = token[l] /\ listed'[l] = listed[l] /\ stayed'[l] = stayed[l]
      /\ was'[l] = was[l] /\ broken'[l] = broken[l] /\ cut'[l] = cut[l]
  BY <1>1 DEF Start, Advance, Fetch, Take, End, FetchFails, ListTypeOK
<1> QED
  BY <1>1, <1>2 DEF SeenInv, PagesInv, ListedOnce, Reached

\* The page that is fetched goes on where the last one has ended: up to the place
\* that is reached then, everything that stayed is listed or on a page.
LEMMA FetchKeeps ==
    ASSUME NamesArrive, ListInv, NEW l \in Listers, Fetch(l)
    PROVE  SeenInv(l)' /\ PagesInv(l)' /\ ListedOnce(l)'
<1>1. ListTypeOK /\ SeenInv(l) /\ PagesInv(l) /\ ListedOnce(l) /\ LastTable \in Nat
  BY ListingAssumption DEF ListInv, ListsWhatStayed
<1>2. PICK p \in Pages(l, token[l]) :
        /\ current'[l] = p.identifiers /\ token'[l] = p.next
        /\ LET ends == Lang[l] = "java" /\ p.identifiers = {} IN
           /\ loop'[l] = IF ends THEN "ended" ELSE loop[l]
           /\ cut'[l] = (ends /\ p.next # NoToken)
  BY <1>1 DEF Fetch, ListTypeOK
<1>3. /\ loop[l] = "next" /\ current[l] = {} /\ first'[l] = FALSE
      /\ meant' = meant /\ listed' = listed /\ stayed' = stayed /\ was' = was /\ broken' = broken
      /\ first[l] \/ HasMore(l)
  BY <1>1 DEF Fetch, Fetches, ListTypeOK
<1>4. /\ token[l] \in Nat /\ Reached(l) = token[l] /\ Reached(l)' \in token[l]..LastTable
      /\ p.next \in Ends[l] \cup Tables
      /\ p.identifiers = {i \in (token[l] + 1)..Reached(l)' : meant[i] = Wants[l].means}
  <2>0. token[l] \in {NoToken} \cup Tables
    BY <1>1, <1>3, EndsAssumption, ListingAssumption DEF ListTypeOK, HasMore, PagesInv
  <2>1. token[l] \in 0..LastTable /\ (first[l] => token[l] = 0)
    BY <1>1, <2>0 DEF Tables, NoToken, PagesInv
  <2>2. PICK n \in Ends[l] \cup (token[l] + 1)..LastTable :
          /\ p.next = n
          /\ p.identifiers = Between(Wants[l], token[l], IF n \in Tables THEN n ELSE LastTable)
    BY <1>1, <1>2, <2>0, <2>1 DEF Pages, Tables
  <2>3. Reached(l)' = IF n \in Tables THEN n ELSE LastTable
    BY <1>2, <1>3, <2>2 DEF Reached
  <2>4. Reached(l) = token[l]
    BY <1>1, <1>3, <2>0, <2>1 DEF Reached, HasMore, NoToken
  <2>8. n \in Tables => n \in (token[l] + 1)..LastTable
    BY <2>2, EndsAssumption, ListingAssumption DEF Tables, NoToken
  <2>5. Reached(l)' \in token[l]..LastTable /\ token[l] \in Nat
    BY <1>1, <2>1, <2>3, <2>8
  <2>6. p.next \in Ends[l] \cup Tables
    BY <1>1, <2>1, <2>2 DEF Tables
  <2>7. p.identifiers = {i \in (token[l] + 1)..Reached(l)' : meant[i] = Wants[l].means}
    BY <1>1, <2>1, <2>2, <2>3, <2>5, Arriving
  <2> QED
    BY <2>4, <2>5, <2>6, <2>7
<1> DEFINE upto == Reached(l)'
           seen == {i \in Tables : meant[i] = Wants[l].means}
<1>5. /\ stayed[l] \subseteq seen /\ seen \subseteq was[l]
      /\ p.identifiers = seen \cap (token[l] + 1)..upto
  BY <1>1, <1>3, <1>4 DEF SeenInv, Tables
<1>6. 1..upto = 1..token[l] \cup (token[l] + 1)..upto /\ 1..token[l] \cap (token[l] + 1)..upto = {}
  BY <1>1, <1>4
<1>7. /\ ToSet(listed[l]) \subseteq was[l] \cap 1..token[l]
      /\ ~broken[l] => stayed[l] \cap 1..token[l] \subseteq ToSet(listed[l])
      /\ loop'[l] \in {"next", "ended"} /\ (loop'[l] = "ended" => p.identifiers = {})
      /\ ~broken[l]
  BY <1>1, <1>2, <1>3, <1>4 DEF PagesInv
<1>11. loop'[l] = "ended" /\ ~cut'[l] => p.next \notin Tables
  <2>1. NoToken \notin Tables
    BY <1>1 DEF Tables, NoToken
  <2> QED
    BY <1>2, <1>3, <2>1
<1> HIDE DEF upto, seen
<1>8. /\ p.identifiers \cup ToSet(listed[l]) \subseteq was[l] \cap 1..upto
      /\ p.identifiers \cap ToSet(listed[l]) = {}
      /\ ~broken[l] => stayed[l] \cap 1..upto \subseteq p.identifiers \cup ToSet(listed[l])
  BY <1>5, <1>6, <1>7
<1>9. PagesInv(l)'
  BY <1>2, <1>3, <1>7, <1>8, <1>11 DEF PagesInv, upto
<1>10. SeenInv(l)' /\ ListedOnce(l)'
  BY <1>1, <1>3 DEF SeenInv, ListedOnce
<1> QED
  BY <1>9, <1>10

\* The other steps of an iteration: a table goes from the page to the list.
LEMMA ListerKeeps ==
    ASSUME ListInv, NEW l \in Listers, Start(l) \/ Take(l) \/ End(l) \/ FetchFails(l)
    PROVE  SeenInv(l)' /\ PagesInv(l)' /\ ListedOnce(l)'
<1>1. ListTypeOK /\ SeenInv(l) /\ PagesInv(l) /\ ListedOnce(l)
  BY DEF ListInv, ListsWhatStayed
<1>2. CASE Start(l)
  <2>1. /\ loop[l] = "idle" /\ loop'[l] = "next"
        /\ stayed'[l] = {i \in Tables : meant[i] = Wants[l].means} /\ was'[l] = stayed'[l]
        /\ UNCHANGED <<meant, first, current, token, listed, broken, cut>>
    BY <1>1, <1>2 DEF Start, ListTypeOK
  <2>2. ToSet(listed[l]) = {} /\ 1..Reached(l) = {}
    BY <1>1, <2>1 DEF PagesInv, Reached, ToSet
  <2>3. Reached(l)' = Reached(l)
    BY <2>1 DEF Reached
  <2> QED
    BY <1>1, <2>1, <2>2, <2>3 DEF SeenInv, PagesInv, ListedOnce
<1>3. CASE Take(l)
  <2>1. PICK i \in current[l] : listed'[l] = Append(listed[l], i) /\ current'[l] = current[l] \ {i}
    BY <1>1, <1>3 DEF Take, ListTypeOK
  <2>2. loop[l] = "next" /\ UNCHANGED <<meant, loop, first, token, stayed, was, broken, cut>>
    BY <1>3 DEF Take
  <2>3. i \in Tables /\ listed[l] \in Seq(Tables) /\ i \notin ToSet(listed[l])
    BY <1>1, <2>1 DEF ListTypeOK, PagesInv
  <2>4. ToSet(listed'[l]) = ToSet(listed[l]) \cup {i} /\ ListedOnce(l)'
    BY <1>1, <2>1, <2>3, ListOne DEF ListedOnce
  <2>5. Reached(l)' = Reached(l) /\ SeenInv(l)' /\ ~first[l]
    BY <1>1, <2>1, <2>2 DEF Reached, SeenInv, PagesInv
  <2> QED
    BY <1>1, <2>1, <2>2, <2>4, <2>5 DEF PagesInv
<1>4. CASE End(l)
  <2>1. /\ loop[l] = "next" /\ loop'[l] = "ended" /\ current[l] = {} /\ ~first[l] /\ ~HasMore(l)
        /\ UNCHANGED <<meant, first, current, token, listed, stayed, was, broken, cut>>
    BY <1>1, <1>4 DEF End, Fetches, ListTypeOK
  <2>3. token[l] \notin Tables
    BY <2>1, ListingAssumption DEF HasMore, Tables, NoToken
  <2>2. Reached(l)' = Reached(l) /\ SeenInv(l)' /\ ListedOnce(l)'
    BY <1>1, <2>1 DEF Reached, SeenInv, ListedOnce
  <2> QED
    BY <1>1, <2>1, <2>2, <2>3 DEF PagesInv
<1>5. CASE FetchFails(l)
  <2>1. /\ loop[l] = "next" /\ current[l] = {} /\ first'[l] = FALSE
        /\ LET over == Lang[l] = "python" \/ token[l] = NoToken IN
           loop'[l] = (IF over THEN "ended" ELSE loop[l]) /\ broken'[l] = over
        /\ UNCHANGED <<meant, current, token, listed, stayed, was, cut>>
    BY <1>1, <1>5 DEF FetchFails, Fetches, ListTypeOK
  <2>2. ~broken'[l] => ~first[l] /\ token[l] # NoToken
    BY <1>1, <2>1 DEF PagesInv
  <2>3. was[l] \cap 1..Reached(l) \subseteq was[l] \cap 1..Reached(l)'
    BY <1>1, <2>1, ListingAssumption DEF Reached, PagesInv
  <2>4. ~broken[l] /\ (~broken'[l] => Reached(l)' = Reached(l))
    BY <1>1, <2>1, <2>2 DEF Reached, PagesInv
  <2>5. SeenInv(l)' /\ ListedOnce(l)'
    BY <1>1, <2>1 DEF SeenInv, ListedOnce
  <2> QED
    BY <1>1, <2>1, <2>2, <2>3, <2>4, <2>5 DEF PagesInv
<1> QED
  BY <1>2, <1>3, <1>4, <1>5

\* What there is was created.
LEMMA CreatedStep ==
    ASSUME ListInv, [ListNext]_listVars
    PROVE  TablesInv'
<1>1. ListTypeOK /\ home = meant /\ TablesInv
  BY DEF ListInv, ListsWhatStayed
<1> QED
  BY <1>1 DEF TablesInv, ListTypeOK, ListNext, Create, Drop, Start, Advance, Fetch, FetchFails,
              Take, End, listVars

\* The invariant is inductive.
LEMMA ListStep ==
    ASSUME NamesArrive, ListInv, [ListNext]_listVars
    PROVE  ListInv'
<1>1. ListTypeOK' /\ home' = meant' /\ TablesInv'
  BY ListTypes, CreatedStep
<1>2. ASSUME NEW l \in Listers
      PROVE  SeenInv(l)' /\ PagesInv(l)' /\ ListedOnce(l)'
  <2>1. CASE \E i \in Tables, call \in Calls :
               Create(i, call) \/ \E lang \in {"python", "java"} : Drop(i, call, lang)
    BY <2>1, OthersChange
  <2>2. ASSUME NEW k \in Listers, Start(k) \/ Advance(k) \/ FetchFails(k)
        PROVE  SeenInv(l)' /\ PagesInv(l)' /\ ListedOnce(l)'
    BY <2>2, OtherLister, FetchKeeps, ListerKeeps DEF Advance
  <2>3. CASE UNCHANGED listVars
    <3>1. SeenInv(l) /\ PagesInv(l) /\ ListedOnce(l)
      BY DEF ListInv, ListsWhatStayed
    <3> QED
      BY <2>3, <3>1 DEF listVars, iterators, SeenInv, PagesInv, ListedOnce, Reached
  <2> QED
    BY <2>1, <2>2, <2>3 DEF ListNext
<1>3. ASSUME NEW l \in Listers
      PROVE  /\ loop'[l] = "ended" /\ ~broken'[l] /\ ~cut'[l] =>
                   stayed'[l] \subseteq ToSet(listed'[l])
             /\ ToSet(listed'[l]) \subseteq was'[l]
  <2>1. ListTypeOK' /\ PagesInv(l)'
    BY <1>1, <1>2
  <2> QED
    BY <2>1 DEF ListTypeOK, PagesInv, Reached, Tables
<1> QED
  BY <1>1, <1>2, <1>3 DEF ListInv, ListsWhatStayed

\* The types, where the tables are, and what each iteration has come to.
THEOREM ListingInvariant == ASSUME NamesArrive PROVE ListSpec => []ListInv
<1>1. ListInit => ListInv
  <2> SUFFICES ASSUME ListInit PROVE ListInv
    OBVIOUS
  <2>1. ListTypeOK /\ home = meant /\ TablesInv
    BY ListingAssumption DEF ListInit, ListTypeOK, Tables, NoToken, TablesInv
  <2>2. ASSUME NEW l \in Listers
        PROVE  SeenInv(l) /\ PagesInv(l) /\ ListedOnce(l) /\ ToSet(listed[l]) = {}
    BY DEF ListInit, SeenInv, PagesInv, ListedOnce, Reached, ToSet
  <2> QED
    BY <2>1, <2>2 DEF ListInit, ListInv, ListsWhatStayed
<1>2. ListInv /\ [ListNext]_listVars => ListInv'
  BY ListStep
<1> QED
  BY <1>1, <1>2, PTL DEF ListSpec

\* "Iterate every table identifier in a namespace, following next-page-token"
\* (generic_tables.py:97): whatever others create and drop, and however the server
\* cuts its pages, every table that stays is listed, and none is listed twice.
THEOREM ListingListsWhatStayed == ASSUME NamesArrive PROVE ListSpec => []ListsWhatStayed
<1>1. ListInv => ListsWhatStayed
  BY DEF ListInv
<1> QED
  BY <1>1, ListingInvariant, PTL
=============================================================================
