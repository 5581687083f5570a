------------------------- MODULE MemoryStoreProofs -------------------------
(***************************************************************************)
(* The theorems about MemoryStore, for any number of callers, stores,      *)
(* paths, texts, models and recall tables.                                 *)
(***************************************************************************)
EXTENDS MemoryStore, SequenceTheorems, TLAPS

-----------------------------------------------------------------------------
\* Where a caller is says what its call is, and that it has a table in hand.
CallInv ==
    \A c \in Callers :
        /\ pc[c] = "write" => job[c].op = "put"
        /\ pc[c] = "remove" => job[c].op = "delete"
        /\ pc[c] \in {"pin", "open"} => job[c].op \in {"put", "delete", "search"}
        /\ pc[c] \in {"create", "merge"} => job[c].op = "put"
        /\ pc[c] = "forget" => job[c].op = "delete"
        /\ pc[c] = "read" => job[c].op = "search"
        /\ pc[c] \in {"ensure", "invalidate", "reload"} => job[c].op = "ensure"
        /\ pc[c] \notin {"idle", "write", "remove"} => Embeds(c)
        /\ pc[c] \in {"create", "merge", "forget", "read"} => at[c] \in 1..Len(pins)
        /\ pc[c] \in {"merge", "forget", "read"} => at[c] \in written

\* A location without a dataset has no rows.
DatasetInv == \A k \in Tables : k \notin written => rows[k] = {}

\* A change that nothing overlaps at its path finds the object as it left it.
AloneInv ==
    /\ \A c \in Callers : alone[c] /\ pc[c] \notin {"idle", "write", "remove"} =>
          /\ job[c].op = "put" => entries[job[c].path] = job[c].text
          /\ job[c].op = "delete" => entries[job[c].path] = None
    /\ \A c, d \in Callers : \A p \in Paths :
          c # d /\ Changing(c, p) /\ Changing(d, p) => ~alone[c]

\* As long as the recall table is not built anew, the pin that was checked is
\* that of the table in hand.
PinInv ==
    /\ \A c \in Callers : pc[c] = "open" => 1 \in 1..Len(pins) /\ PinPasses(c, 1)
    /\ \A c \in Callers : pc[c] \in {"create", "merge", "forget", "read"} =>
          PinPasses(c, at[c])

-----------------------------------------------------------------------------
\* What the type of a call says of its fields.
LEMMA JobFields ==
    ASSUME TypeOK, NEW c \in Callers
    PROVE  /\ job[c].op \in {"none", "search", "ensure", "delete", "put"}
           /\ job[c].op # "none" => job[c].store \in Stores
           /\ job[c].op \in {"put", "delete"} => job[c].path \in Paths
           /\ job[c].op = "put" => job[c].text \in Texts /\ job[c].index \in BOOLEAN
<1>1. job[c] \in Job
  BY DEF TypeOK
<1> QED
  BY <1>1 DEF Job, NoJob

\* The row of a put that indexes has the type of a row.
LEMMA NewRowType ==
    ASSUME TypeOK, NEW c \in Callers, job[c].op = "put", Embeds(c)
    PROVE  NewRow(c) \in Row
  BY JobFields, ModelAssumption DEF NewRow, Row, Embeds

\* What the bounds of the counters allow.
LEMMA TableNumbers ==
    ASSUME TypeOK
    PROVE  /\ Len(pins) \in Nat /\ Tables = 1..MaxTables
           /\ 1..Len(pins) \subseteq Tables
           /\ \A k \in 1..Len(pins) : pins[k] \in Models \cup {None}
           /\ \A k \in Nat \ {0} : k <= Len(pins) => k \in 1..Len(pins)
  BY TableAssumption DEF TypeOK, Tables

\* A call that begins has the type of a call.
LEMMA BeginTypes ==
    ASSUME TypeOK, NEW c \in Callers, NEW call \in Job,
           NEW first \in {"write", "remove", "pin", "ensure"},
           Begin(c, call, first), alone' \in [Callers -> BOOLEAN]
    PROVE  TypeOK'
<1>1. pc' = [pc EXCEPT ![c] = first] /\ job' = [job EXCEPT ![c] = call]
      /\ outcome' = [outcome EXCEPT ![c] = "none"] /\ begun' = begun + 1
      /\ UNCHANGED <<entries, recall, pins, denied, written, rows, cached, resp, loaded, at>>
  BY DEF Begin, dataVars, cacheVars
<1>2. pc' \in [Callers -> {"idle", "write", "remove", "pin", "open", "create", "merge",
                           "forget", "read", "ensure", "invalidate", "reload"}]
  BY <1>1 DEF TypeOK
<1>3. job' \in [Callers -> Job]
  BY <1>1 DEF TypeOK
<1>4. outcome' \in [Callers -> {"none", "done", "NotFoundError", "EmbeddingMismatch", "error"}]
      /\ begun' \in Nat
  BY <1>1 DEF TypeOK
<1>5. UNCHANGED <<Job, Tables, Row>>
  BY DEF Job, Tables, Row
<1> QED
  BY <1>1, <1>2, <1>3, <1>4, <1>5 DEF TypeOK

\* So does a call that goes on ...
LEMMA GotoTypes ==
    ASSUME TypeOK, NEW c \in Callers,
           NEW to \in {"pin", "open", "create", "merge", "forget", "read", "invalidate", "reload"},
           Goto(c, to)
    PROVE  /\ pc' \in [Callers -> {"idle", "write", "remove", "pin", "open", "create", "merge",
                                    "forget", "read", "ensure", "invalidate", "reload"}]
           /\ job' \in [Callers -> Job] /\ alone' \in [Callers -> BOOLEAN] /\ begun' \in Nat
           /\ outcome' \in [Callers -> {"none", "done", "NotFoundError", "EmbeddingMismatch",
                                         "error"}]
  BY DEF TypeOK, Goto, Job

\* ... and one that ends.
LEMMA EndTypes ==
    ASSUME TypeOK, NEW c \in Callers,
           NEW how \in {"none", "done", "NotFoundError", "EmbeddingMismatch", "error"}, End(c, how)
    PROVE  /\ pc' \in [Callers -> {"idle", "write", "remove", "pin", "open", "create", "merge",
                                    "forget", "read", "ensure", "invalidate", "reload"}]
           /\ outcome' \in [Callers -> {"none", "done", "NotFoundError", "EmbeddingMismatch",
                                         "error"}]
           /\ job' \in [Callers -> Job] /\ alone' \in [Callers -> BOOLEAN] /\ begun' \in Nat
  BY DEF TypeOK, End, Job

\* It forgets its call, and the others go on with theirs.
LEMMA EndOthers ==
    ASSUME TypeOK, NEW c \in Callers, NEW how, End(c, how)
    PROVE  /\ pc'[c] = "idle" /\ alone'[c]
           /\ \A d \in Callers \ {c} : pc'[d] = pc[d] /\ job'[d] = job[d] /\ alone'[d] = alone[d]
           /\ \A d \in Callers : pc'[d] \in {pc[d], "idle"}
           /\ \A d \in Callers : pc'[d] # "idle" => job'[d] = job[d]
  BY DEF TypeOK, End

\* The steps that begin a call preserve the types.
LEMMA CallTypes ==
    ASSUME TypeOK, NEW c \in Callers, Call(c)
    PROVE  TypeOK'
<1>1. CASE Put(c)
  <2>1. PICK s \in Stores, p \in Paths, x \in Texts, i \in BOOLEAN :
          BeginChange(c, [path |-> p, text |-> x, op |-> "put", store |-> s, index |-> i], "write")
    BY <1>1 DEF Put
  <2>2. [path |-> p, text |-> x, op |-> "put", store |-> s, index |-> i] \in Job
    BY DEF Job
  <2>3. alone' \in [Callers -> BOOLEAN]
    BY <2>1 DEF BeginChange, TypeOK, Changing
  <2> QED
    BY <2>1, <2>2, <2>3, BeginTypes DEF BeginChange
<1>2. CASE Delete(c)
  <2>1. PICK s \in Stores, p \in Paths :
          BeginChange(c, [path |-> p, op |-> "delete", store |-> s], "remove")
    BY <1>2 DEF Delete
  <2>2. [path |-> p, op |-> "delete", store |-> s] \in Job
    BY DEF Job
  <2>3. alone' \in [Callers -> BOOLEAN]
    BY <2>1 DEF BeginChange, TypeOK, Changing
  <2> QED
    BY <2>1, <2>2, <2>3, BeginTypes DEF BeginChange
<1>3. CASE Search(c)
  <2>1. PICK s \in Stores : Begin(c, [op |-> "search", store |-> s], "pin")
    BY <1>3 DEF Search
  <2>2. [op |-> "search", store |-> s] \in Job
    BY DEF Job
  <2>3. alone' \in [Callers -> BOOLEAN]
    BY <1>3 DEF Search, TypeOK
  <2> QED
    BY <2>1, <2>2, <2>3, BeginTypes
<1>4. CASE EnsureTables(c)
  <2>1. PICK s \in Stores : Begin(c, [op |-> "ensure", store |-> s], "ensure")
    BY <1>4 DEF EnsureTables
  <2>2. [op |-> "ensure", store |-> s] \in Job
    BY DEF Job
  <2>3. alone' \in [Callers -> BOOLEAN]
    BY <1>4 DEF EnsureTables, TypeOK
  <2> QED
    BY <2>1, <2>2, <2>3, BeginTypes
<1> QED
  BY <1>1, <1>2, <1>3, <1>4 DEF Call

\* What resp hands out is a table that was created.
LEMMA RespTypes ==
    ASSUME TypeOK, NEW c \in Callers, NEW k, job[c].op # "none", Resp(c, k)
    PROVE  /\ k \in 1..Len(pins) /\ UNCHANGED <<cached, loaded>>
           /\ resp' \in [Callers -> {"look", "store", "return"}]
<1>1. cached[job[c].store] \in 0..Len(pins)
  BY JobFields DEF TypeOK
<1> QED
  BY <1>1, TableNumbers DEF TypeOK, Resp

\* Every other step of a call preserves the types.
LEMMA StepTypes ==
    ASSUME TypeOK, CallInv, NEW c \in Callers, Step(c)
    PROVE  TypeOK'
<1>1. CASE WriteEntry(c) \/ RemoveEntry(c)
  <2>1. entries' \in [Paths -> Texts \cup {None}]
    BY <1>1, JobFields DEF TypeOK, CallInv, WriteEntry, RemoveEntry
  <2>2. Goto(c, "pin") \/ End(c, "done")
    BY <1>1 DEF WriteEntry, RemoveEntry
  <2>3. UNCHANGED <<recall, pins, denied, written, rows, cached, resp, loaded, at>>
    BY <1>1 DEF WriteEntry, RemoveEntry, cacheVars
  <2> QED
    BY <2>1, <2>2, <2>3, GotoTypes, EndTypes DEF TypeOK
<1>3. CASE CheckPin(c)
  <2>1. PICK k \in Tables : Resp(c, k) /\ (Goto(c, "open") \/ End(c, "EmbeddingMismatch"))
    BY <1>3 DEF CheckPin
  <2>2. UNCHANGED <<cached, loaded>> /\ resp' \in [Callers -> {"look", "store", "return"}]
    BY <1>3, <2>1, RespTypes DEF CheckPin, CallInv
  <2> QED
    BY <1>3, <2>1, <2>2, GotoTypes, EndTypes DEF TypeOK, CheckPin, dataVars
<1>4. CASE NotFound(c) \/ ReadHits(c) \/ Raise(c)
  <2>1. resp' \in [Callers -> {"look", "store", "return"}] /\ loaded' \in [Callers -> 0..Len(pins)]
    <3>1. 0 \in 0..Len(pins)
      BY TableNumbers
    <3>2. CASE Raise(c)
      BY <3>1, <3>2 DEF TypeOK, Raise
    <3>3. CASE NotFound(c) \/ ReadHits(c)
      BY <3>3 DEF TypeOK, NotFound, ReadHits, cacheVars
    <3> QED
      BY <1>4, <3>2, <3>3
  <2>2. \E how \in {"done", "NotFoundError", "error"} : End(c, how)
    BY <1>4 DEF NotFound, ReadHits, Raise
  <2>3. UNCHANGED <<entries, recall, pins, denied, written, rows, cached, at>>
    BY <1>4 DEF NotFound, ReadHits, Raise, dataVars, cacheVars
  <2> QED
    BY <2>1, <2>2, <2>3, EndTypes DEF TypeOK
<1>5. CASE OpenDataset(c)
  <2>1. PICK k \in Tables :
          /\ Resp(c, k)
          /\ at' = [at EXCEPT ![c] = k]
          /\ \/ \E to \in {"merge", "create", "forget", "read"} : Goto(c, to)
             \/ End(c, "done")
    BY <1>5 DEF CallInv, OpenDataset
  <2>2. /\ k \in 1..Len(pins) /\ UNCHANGED <<cached, loaded>>
        /\ resp' \in [Callers -> {"look", "store", "return"}]
    BY <1>5, <2>1, RespTypes DEF CallInv, OpenDataset
  <2>3. UNCHANGED dataVars
    BY <1>5 DEF OpenDataset
  <2>4. at' \in [Callers -> 0..Len(pins)]
    BY <2>1, <2>2, TableNumbers DEF TypeOK
  <2>5. CASE \E to \in {"merge", "create", "forget", "read"} : Goto(c, to)
    BY <2>2, <2>3, <2>4, <2>5, GotoTypes DEF TypeOK, dataVars
  <2>6. CASE End(c, "done")
    BY <2>2, <2>3, <2>4, <2>6, EndTypes DEF TypeOK, dataVars
  <2> QED
    BY <2>1, <2>5, <2>6
<1>6. CASE CreateDataset(c) \/ MergeRow(c) \/ ForgetVector(c)
  <2>1. pc[c] \in {"create", "merge"} => NewRow(c) \in Row
    BY NewRowType DEF CallInv
  <2>2. at[c] \in 1..Len(pins)
    BY <1>6 DEF CallInv, CreateDataset, MergeRow, ForgetVector
  <2>3. written' \subseteq 1..Len(pins) /\ rows' \in [Tables -> SUBSET Row]
    <3>1. CASE CreateDataset(c)
      <4>1. CASE UNCHANGED <<written, rows>>
        BY <4>1 DEF TypeOK
      <4>2. CASE /\ written' = written \cup {at[c]}
                 /\ rows' = [rows EXCEPT ![at[c]] = {NewRow(c)}]
        <5>1. NewRow(c) \in Row
          BY <2>1, <3>1 DEF CreateDataset
        <5> QED
          BY <2>2, <4>2, <5>1 DEF TypeOK
      <4> QED
        BY <3>1, <4>1, <4>2 DEF CreateDataset
    <3>2. CASE MergeRow(c)
      BY <2>1, <2>2, <3>2, TableNumbers DEF TypeOK, MergeRow
    <3>3. CASE ForgetVector(c)
      BY <2>2, <3>3, TableNumbers DEF TypeOK, ForgetVector
    <3> QED
      BY <1>6, <3>1, <3>2, <3>3
  <2>4. UNCHANGED <<entries, recall, pins, denied, cached, resp, loaded, at>>
        /\ (End(c, "done") \/ End(c, "error"))
    BY <1>6 DEF CreateDataset, MergeRow, ForgetVector, cacheVars
  <2> QED
    BY <2>3, <2>4, EndTypes DEF TypeOK
<1>7. CASE CreateTable(c)
  <2>1. job[c].op = "ensure" /\ Embeds(c) /\ Model[job[c].store] \in Models
    BY <1>7, JobFields, ModelAssumption DEF CreateTable, CallInv, Embeds
  <2>2. pins' \in Seq(Models \cup {None}) /\ recall' \in {0, Len(pins')} /\ Len(pins') <= MaxTables
        /\ Len(pins) <= Len(pins') /\ denied' \subseteq Stores
    <3>1. CASE UNCHANGED <<recall, pins, denied>>
      BY <3>1, TableNumbers DEF TypeOK
    <3>2. CASE /\ recall = 0 /\ Len(pins) < MaxTables /\ recall' = Len(pins')
               /\ pins' = Append(pins, Model[job[c].store])
               /\ denied' = denied \ {job[c].store}
      <4>1. pins' \in Seq(Models \cup {None}) /\ Len(pins') = Len(pins) + 1
        BY <2>1, <3>2, AppendProperties DEF TypeOK
      <4>2. denied' \subseteq Stores
        BY <3>2 DEF TypeOK
      <4> QED
        BY <3>2, <4>1, <4>2, TableNumbers, TableAssumption
    <3> QED
      BY <1>7, <3>1, <3>2 DEF CreateTable
  <2>3. 1..Len(pins) \subseteq 1..Len(pins') /\ 0..Len(pins) \subseteq 0..Len(pins')
    BY <2>2, TableNumbers DEF TypeOK
  <2>4. written' \subseteq 1..Len(pins') /\ at' \in [Callers -> 0..Len(pins')]
    BY <1>7, <2>3 DEF TypeOK, CreateTable
  <2>5. cached' \in [Stores -> 0..Len(pins')] /\ loaded' \in [Callers -> 0..Len(pins')]
        /\ resp' \in [Callers -> {"look", "store", "return"}]
    BY <1>7, <2>3 DEF TypeOK, CreateTable, cacheVars
  <2>6. UNCHANGED <<entries, rows>> /\ Goto(c, "invalidate")
    BY <1>7 DEF CreateTable
  <2> QED
    BY <2>2, <2>4, <2>5, <2>6, GotoTypes DEF TypeOK
<1>8. CASE InvalidateTable(c)
  <2>1. cached' \in [Stores -> 0..Len(pins)]
    <3>1. 0 \in 0..Len(pins)
      BY TableNumbers
    <3> QED
      BY <1>8, <3>1 DEF TypeOK, InvalidateTable
  <2> QED
    BY <1>8, <2>1, GotoTypes DEF TypeOK, InvalidateTable, dataVars
<1>10. CASE ReloadTable(c)
  <2>1. cached' \in [Stores -> 0..Len(pins)] /\ loaded' \in [Callers -> 0..Len(pins)]
        /\ resp' \in [Callers -> {"look", "store", "return"}]
    BY <1>10, RespTypes DEF TypeOK, CallInv, ReloadTable, cacheVars
  <2>2. End(c, "NotFoundError") \/ End(c, "done")
    BY <1>10 DEF ReloadTable
  <2> QED
    BY <1>10, <2>1, <2>2, EndTypes DEF TypeOK, ReloadTable, dataVars
<1>9. CASE Load(c) \/ StoreCached(c)
  <2>1. /\ cached' \in [Stores -> 0..Len(pins)] /\ loaded' \in [Callers -> 0..Len(pins)]
        /\ resp' \in [Callers -> {"look", "store", "return"}]
    <3>1. 0 \in 0..Len(pins) /\ recall \in 0..Len(pins) /\ loaded[c] \in 0..Len(pins)
      BY TableNumbers DEF TypeOK
    <3>2. CASE Load(c)
      BY <3>1, <3>2 DEF TypeOK, Load
    <3>3. CASE StoreCached(c)
      BY <3>1, <3>3 DEF TypeOK, StoreCached
    <3> QED
      BY <1>9, <3>2, <3>3
  <2> QED
    BY <1>9, <2>1 DEF TypeOK, Load, StoreCached, dataVars, callerVars
<1> QED
  BY <1>1, <1>3, <1>4, <1>5, <1>6, <1>7, <1>8, <1>9, <1>10 DEF Step
-----------------------------------------------------------------------------
\* The first step of each call, and whether the call changes its path.
Opens(c, call, first) ==
    \/ call.op = "put" /\ first = "write" /\ BeginChange(c, call, first)
    \/ call.op = "delete" /\ first = "remove" /\ BeginChange(c, call, first)
    \/ call.op = "search" /\ first = "pin" /\ Model[call.store] # None /\ UNCHANGED alone
    \/ call.op = "ensure" /\ first = "ensure" /\ Model[call.store] # None /\ UNCHANGED alone

\* A call begins with one of these.
LEMMA CallBegins ==
    ASSUME NEW c \in Callers, Call(c)
    PROVE  \E call, first : Begin(c, call, first) /\ Opens(c, call, first)
<1>1. CASE Put(c)
  <2>1. PICK s \in Stores, p \in Paths, x \in Texts, i \in BOOLEAN :
          BeginChange(c, [path |-> p, text |-> x, op |-> "put", store |-> s, index |-> i], "write")
    BY <1>1 DEF Put
  <2> QED
    BY <2>1 DEF BeginChange, Opens
<1>2. CASE Delete(c)
  <2>1. PICK s \in Stores, p \in Paths :
          BeginChange(c, [path |-> p, op |-> "delete", store |-> s], "remove")
    BY <1>2 DEF Delete
  <2> QED
    BY <2>1 DEF BeginChange, Opens
<1>3. CASE Search(c)
  BY <1>3 DEF Search, Opens
<1>4. CASE EnsureTables(c)
  BY <1>4 DEF EnsureTables, Opens
<1> QED
  BY <1>1, <1>2, <1>3, <1>4 DEF Call

\* Every other step goes on or ends the call.
LEMMA StepLeads ==
    ASSUME TypeOK, CallInv, NEW c \in Callers, Step(c)
    PROVE  pc[c] # "idle" /\ ((\E to : Goto(c, to)) \/ (\E how : End(c, how)))
<1>1. CASE OpenDataset(c)
  BY <1>1 DEF OpenDataset, CallInv
<1>2. CASE Load(c) \/ StoreCached(c)
  <2>1. pc' = [pc EXCEPT ![c] = pc[c]] /\ UNCHANGED <<job, outcome, alone, begun>>
    BY <1>2 DEF TypeOK, Load, StoreCached, callerVars
  <2> QED
    BY <1>2, <2>1 DEF Load, StoreCached, Goto
<1>3. CASE ~OpenDataset(c) /\ ~Load(c) /\ ~StoreCached(c)
  BY <1>3 DEF Step, WriteEntry, RemoveEntry, CheckPin, NotFound, CreateDataset, MergeRow,
              ForgetVector, ReadHits, CreateTable, InvalidateTable, ReloadTable, Raise
<1> QED
  BY <1>1, <1>2, <1>3

\* How the steps of a call lead on, and that it keeps its store.
LEMMA CallStep ==
    ASSUME TypeOK, CallInv, [Next]_vars
    PROVE  CallInv'
<1>1. CASE \E c \in Callers : Call(c)
  <2>1. PICK c \in Callers : Call(c)
    BY <1>1
  <2>2. PICK call, first : Begin(c, call, first) /\ Opens(c, call, first)
    BY <2>1, CallBegins
  <2> QED
    BY <2>2 DEF Opens, CallInv, Begin, Embeds, TypeOK, dataVars
<1>2. ASSUME NEW c \in Callers, Step(c)
      PROVE  CallInv'
  <2>1. CASE WriteEntry(c) \/ RemoveEntry(c)
    BY <2>1 DEF CallInv, WriteEntry, RemoveEntry, Goto, End, Embeds, TypeOK
  <2>2. CASE CheckPin(c)
    BY <2>2 DEF CallInv, CheckPin, Goto, End, Embeds, TypeOK, dataVars
  <2>3. CASE NotFound(c) \/ ReadHits(c) \/ Raise(c)
    BY <2>3 DEF CallInv, NotFound, ReadHits, Raise, End, Embeds, TypeOK, dataVars
  <2>4. CASE OpenDataset(c)
    <3>1. PICK k \in Tables :
            /\ Resp(c, k)
            /\ at' = [at EXCEPT ![c] = k]
            /\ \/ job[c].op = "put" /\ Goto(c, "create")
               \/ job[c].op = "put" /\ k \in written /\ Goto(c, "merge")
               \/ job[c].op = "delete" /\ k \in written /\ Goto(c, "forget")
               \/ job[c].op = "search" /\ k \in written /\ Goto(c, "read")
               \/ End(c, "done")
      BY <2>4 DEF CallInv, OpenDataset
    <3>2. k \in 1..Len(pins) /\ Embeds(c) /\ UNCHANGED <<pins, written>>
      BY <2>4, <3>1, RespTypes DEF CallInv, OpenDataset, dataVars
    <3> QED
      BY <3>1, <3>2 DEF CallInv, Goto, End, Embeds, TypeOK
  <2>5. CASE CreateDataset(c) \/ MergeRow(c) \/ ForgetVector(c)
    BY <2>5 DEF CallInv, CreateDataset, MergeRow, ForgetVector, End, Embeds, TypeOK
  <2>6. CASE CreateTable(c)
    <3>1. 1..Len(pins) \subseteq 1..Len(pins')
      <4>1. CASE UNCHANGED pins
        BY <4>1
      <4>2. CASE pins' = Append(pins, Model[job[c].store])
        <5>1. Model[job[c].store] \in Models
          BY <2>6, JobFields, ModelAssumption DEF CreateTable, CallInv, Embeds
        <5>2. Len(pins') = Len(pins) + 1
          BY <4>2, <5>1, AppendProperties DEF TypeOK
        <5> QED
          BY <5>2, TableNumbers
      <4> QED
        BY <2>6, <4>1, <4>2 DEF CreateTable
    <3> QED
      BY <2>6, <3>1 DEF CallInv, CreateTable, Goto, Embeds, TypeOK
  <2>7. CASE InvalidateTable(c) \/ ReloadTable(c)
    BY <2>7 DEF CallInv, InvalidateTable, ReloadTable, Goto, End, Embeds, TypeOK, dataVars
  <2>8. CASE Load(c) \/ StoreCached(c)
    BY <2>8 DEF CallInv, Load, StoreCached, Embeds, dataVars, callerVars
  <2> QED
    BY <1>2, <2>1, <2>2, <2>3, <2>4, <2>5, <2>6, <2>7, <2>8 DEF Step
<1>3. CASE DropRecall \/ ChangeGrant \/ UNCHANGED vars
  BY <1>3 DEF CallInv, DropRecall, ChangeGrant, vars, callerVars, Embeds
<1> QED
  BY <1>1, <1>2, <1>3 DEF Next, AllIdle

\* What a step does to the datasets.
LEMMA RowsChange ==
    ASSUME TypeOK, CallInv, [Next]_vars, rows' # rows
    PROVE  \E c \in Callers : CreateDataset(c) \/ MergeRow(c) \/ ForgetVector(c)
<1>1. ASSUME NEW c \in Callers, Call(c)
      PROVE  FALSE
  BY <1>1 DEF Call, Put, Delete, Search, EnsureTables, BeginChange, Begin, dataVars
<1>2. ASSUME NEW c \in Callers, Step(c)
      PROVE  CreateDataset(c) \/ MergeRow(c) \/ ForgetVector(c)
  BY <1>2 DEF Step, WriteEntry, RemoveEntry, Load, StoreCached, CheckPin, NotFound,
              OpenDataset, ReadHits, CreateTable, InvalidateTable, ReloadTable, Raise, dataVars
<1> QED
  BY <1>1, <1>2 DEF Next, AllIdle, DropRecall, ChangeGrant, vars

\* A dataset once created stays.
LEMMA WrittenChange ==
    ASSUME TypeOK, CallInv, [Next]_vars
    PROVE  written \subseteq written'
<1>1. ASSUME NEW c \in Callers, Call(c)
      PROVE  written' = written
  BY <1>1 DEF Call, Put, Delete, Search, EnsureTables, BeginChange, Begin, dataVars
<1>2. ASSUME NEW c \in Callers, Step(c)
      PROVE  written \subseteq written'
  BY <1>2 DEF Step, WriteEntry, RemoveEntry, Load, StoreCached, CheckPin, NotFound,
              OpenDataset, ReadHits, CreateTable, InvalidateTable, ReloadTable, Raise,
              CreateDataset, MergeRow,
              ForgetVector, dataVars
<1> QED
  BY <1>1, <1>2 DEF Next, AllIdle, DropRecall, ChangeGrant, vars

\* Every step preserves the shape of the datasets.
LEMMA DatasetStep ==
    ASSUME TypeOK, CallInv, DatasetInv, OneRowPerPath, [Next]_vars
    PROVE  DatasetInv' /\ OneRowPerPath'
<1>1. CASE rows' = rows
  BY <1>1, WrittenChange DEF DatasetInv, OneRowPerPath, Tables
<1>2. ASSUME NEW c \in Callers, CreateDataset(c)
      PROVE  DatasetInv' /\ OneRowPerPath'
  <2>1. rows' = [rows EXCEPT ![at[c]] = {NewRow(c)}] \/ rows' = rows
    BY <1>2 DEF CreateDataset
  <2>2. at[c] \in Tables /\ (rows' # rows => written' = written \cup {at[c]})
    BY <1>2, TableNumbers DEF CreateDataset, CallInv
  <2>3. ASSUME NEW k \in Tables
        PROVE  rows'[k] = rows[k] \/ (k \in written' /\ rows'[k] = {NewRow(c)})
    BY <2>1, <2>2 DEF TypeOK
  <2>4. DatasetInv'
    BY <2>3, WrittenChange DEF DatasetInv, Tables
  <2>5. OneRowPerPath'
    BY <2>3 DEF OneRowPerPath, Tables
  <2> QED
    BY <2>4, <2>5
<1>3. ASSUME NEW c \in Callers, MergeRow(c) \/ ForgetVector(c)
      PROVE  DatasetInv' /\ OneRowPerPath'
  <2>1. at[c] \in written /\ written' = written
    BY <1>3 DEF CallInv, MergeRow, ForgetVector
  <2>2. NewRow(c).path = job[c].path
    BY DEF NewRow
  <2> QED
    <3>1. CASE MergeRow(c)
      BY <2>1, <2>2, <3>1 DEF DatasetInv, OneRowPerPath, MergeRow, TypeOK, Tables
    <3>2. CASE ForgetVector(c)
      BY <2>1, <3>2 DEF DatasetInv, OneRowPerPath, ForgetVector, TypeOK, Tables
    <3> QED
      BY <1>3, <3>1, <3>2
<1> QED
  BY <1>1, <1>2, <1>3, RowsChange
-----------------------------------------------------------------------------
\* What the calls in progress know of their objects: a call that begins ...
LEMMA AloneBegin ==
    ASSUME TypeOK, CallInv, AloneInv, NEW c \in Callers, Call(c)
    PROVE  AloneInv'
<1>1. PICK call, first : Begin(c, call, first) /\ Opens(c, call, first)
  BY CallBegins
<1>2. /\ entries' = entries /\ pc'[c] = first /\ job'[c] = call
      /\ \A d \in Callers \ {c} : pc'[d] = pc[d] /\ job'[d] = job[d] /\ (alone'[d] => alone[d])
  BY <1>1 DEF Opens, Begin, BeginChange, TypeOK, dataVars
<1>3. ASSUME NEW d \in Callers, alone'[d], pc'[d] \notin {"idle", "write", "remove"}
      PROVE  /\ job'[d].op = "put" => entries'[job'[d].path] = job'[d].text
             /\ job'[d].op = "delete" => entries'[job'[d].path] = None
  <2>1. CASE d = c
    BY <1>1, <1>2, <1>3, <2>1 DEF Opens
  <2>2. CASE d # c
    BY <1>2, <1>3, <2>2 DEF AloneInv
  <2> QED
    BY <2>1, <2>2
<1>4. ASSUME NEW d \in Callers, NEW e \in Callers, NEW p \in Paths,
             d # e, Changing(d, p)', Changing(e, p)'
      PROVE  ~alone'[d]
  <2>1. CASE d = c
    <3>1. Changing(e, p) /\ call.path = p /\ BeginChange(c, call, first)
      BY <1>1, <1>2, <1>4, <2>1 DEF Opens, Changing
    <3> QED
      BY <1>4, <2>1, <3>1 DEF BeginChange
  <2>2. CASE e = c
    <3>1. Changing(d, p) /\ call.path = p /\ BeginChange(c, call, first)
      BY <1>1, <1>2, <1>4, <2>2 DEF Opens, Changing
    <3> QED
      BY <1>4, <2>2, <3>1 DEF BeginChange
  <2>3. CASE d # c /\ e # c
    BY <1>2, <1>4, <2>3 DEF AloneInv, Changing
  <2> QED
    BY <2>1, <2>2, <2>3
<1> QED
  BY <1>3, <1>4 DEF AloneInv

\* ... a step of a call, ...
LEMMA AloneStep ==
    ASSUME TypeOK, CallInv, AloneInv, NEW c \in Callers, Step(c)
    PROVE  AloneInv'
<1>1. /\ \A d \in Callers \ {c} : pc'[d] = pc[d] /\ job'[d] = job[d] /\ alone'[d] = alone[d]
      /\ pc'[c] # "idle" => pc[c] # "idle" /\ job'[c] = job[c] /\ alone'[c] = alone[c]
  <2>1. CASE \E to : Goto(c, to)
    BY <2>1, StepLeads DEF Goto, TypeOK
  <2>2. CASE \E how : End(c, how)
    BY <2>2, EndOthers
  <2> QED
    BY <2>1, <2>2, StepLeads
<1>2. \A d, e \in Callers : \A p \in Paths :
        d # e /\ Changing(d, p)' /\ Changing(e, p)' => ~alone'[d]
  <2>1. \A d \in Callers, p \in Paths : Changing(d, p)' => Changing(d, p) /\ alone'[d] = alone[d]
    BY <1>1 DEF Changing
  <2> QED
    BY <2>1 DEF AloneInv
<1>3. CASE WriteEntry(c) \/ RemoveEntry(c)
  <2>1. /\ job[c].path \in Paths /\ Changing(c, job[c].path)
        /\ \A p \in Paths \ {job[c].path} : entries'[p] = entries[p]
        /\ job[c].op = "put" => entries'[job[c].path] = job[c].text
        /\ job[c].op = "delete" => entries'[job[c].path] = None
        /\ job[c].op \in {"put", "delete"}
    BY <1>3, JobFields DEF CallInv, WriteEntry, RemoveEntry, Changing, TypeOK
  <2>2. ASSUME NEW d \in Callers, d # c, alone[d], pc[d] \notin {"idle", "write", "remove"},
               job[d].op \in {"put", "delete"}
        PROVE  job[d].path \in Paths \ {job[c].path}
    <3>1. job[d].path \in Paths /\ Changing(d, job[d].path)
      BY <2>2, JobFields DEF Changing
    <3> QED
      BY <2>1, <2>2, <3>1 DEF AloneInv
  <2>3. ASSUME NEW d \in Callers, alone'[d], pc'[d] \notin {"idle", "write", "remove"}
        PROVE  /\ job'[d].op = "put" => entries'[job'[d].path] = job'[d].text
               /\ job'[d].op = "delete" => entries'[job'[d].path] = None
    <3>1. job'[d] = job[d] /\ alone[d]
      BY <1>1, <2>3
    <3>2. CASE d = c
      BY <2>1, <3>1, <3>2
    <3>3. CASE d # c
      BY <1>1, <2>1, <2>2, <2>3, <3>1, <3>3 DEF AloneInv
    <3> QED
      BY <3>2, <3>3
  <2> QED
    BY <1>2, <2>3 DEF AloneInv
<1>4. CASE ~(WriteEntry(c) \/ RemoveEntry(c))
  <2>1. entries' = entries /\ (pc[c] \notin {"idle", "write", "remove"} \/ pc'[c] = "idle")
    BY <1>4 DEF Step, Load, StoreCached, CheckPin, NotFound, OpenDataset, CreateDataset,
         MergeRow, ForgetVector, ReadHits, CreateTable, InvalidateTable, ReloadTable, Raise, End,
         TypeOK, dataVars
  <2>2. ASSUME NEW d \in Callers, alone'[d], pc'[d] \notin {"idle", "write", "remove"}
        PROVE  /\ job'[d].op = "put" => entries'[job'[d].path] = job'[d].text
               /\ job'[d].op = "delete" => entries'[job'[d].path] = None
    <3>1. job'[d] = job[d] /\ alone[d] /\ pc[d] \notin {"idle", "write", "remove"}
      BY <1>1, <2>1, <2>2
    <3> QED
      BY <2>1, <2>2, <3>1 DEF AloneInv
  <2> QED
    BY <1>2, <2>2 DEF AloneInv
<1> QED
  BY <1>3, <1>4

\* ... and every other step.
LEMMA AloneNext ==
    ASSUME TypeOK, CallInv, AloneInv, [Next]_vars
    PROVE  AloneInv'
<1>1. CASE DropRecall \/ ChangeGrant \/ UNCHANGED vars
  BY <1>1 DEF AloneInv, DropRecall, ChangeGrant, vars, callerVars, Changing
<1> QED
  BY <1>1, AloneBegin, AloneStep DEF Next, AllIdle
-----------------------------------------------------------------------------
\* What holds in every reachable state.
StoreInv == CallInv /\ DatasetInv /\ OneRowPerPath /\ AloneInv

\* The types and the invariant hold in every reachable state.
LEMMA StoreInvariant == Spec => [](TypeOK /\ StoreInv)
<1>1. Init => TypeOK /\ StoreInv
  <2> SUFFICES ASSUME Init PROVE TypeOK /\ StoreInv
    OBVIOUS
  <2>1. pins \in Seq(Models \cup {None}) /\ Len(pins) \in Nat /\ Len(pins) <= MaxTables
    <3>1. CASE pins = << >>
      BY <3>1, TableAssumption
    <3>2. CASE MaxTables # 0 /\ \E m \in Models \cup {None} : pins = <<m>>
      BY <3>2, TableAssumption
    <3> QED
      BY <3>1, <3>2 DEF Init
  <2>2. TypeOK
    BY <2>1 DEF Init, TypeOK, Job
  <2> QED
    BY <2>2 DEF Init, StoreInv, CallInv, DatasetInv, OneRowPerPath, AloneInv, Changing
<1>2. TypeOK /\ StoreInv /\ [Next]_vars => TypeOK' /\ StoreInv'
  <2> SUFFICES ASSUME TypeOK, StoreInv, [Next]_vars PROVE TypeOK' /\ StoreInv'
    OBVIOUS
  <2>1. TypeOK'
    <3>1. CASE DropRecall \/ UNCHANGED vars
      BY <3>1 DEF TypeOK, DropRecall, vars, callerVars, cacheVars, Job, Tables, Row
    <3>2. CASE ChangeGrant
      <4>1. denied' \subseteq Stores
        BY <3>2, ModelAssumption DEF TypeOK, ChangeGrant
      <4> QED
        BY <3>2, <4>1 DEF TypeOK, ChangeGrant, callerVars, cacheVars, Job, Tables, Row
    <3> QED
      BY <3>1, <3>2, CallTypes, StepTypes DEF Next, AllIdle, StoreInv
  <2> QED
    BY <2>1, CallStep, DatasetStep, AloneNext DEF StoreInv
<1> QED
  BY <1>1, <1>2, PTL DEF Spec

\* Type correctness.
THEOREM MemoryTypeOK == Spec => []TypeOK
  BY StoreInvariant, PTL

\* "One row per path: re-putting an entry replaces its vector" (memory.py:289),
\* for any number of agents that put, delete and fail in any order.
THEOREM MemoryOneRowPerPath == Spec => []OneRowPerPath
<1>1. StoreInv => OneRowPerPath
  BY DEF StoreInv
<1> QED
  BY <1>1, StoreInvariant, PTL

\* A path stays searchable until a delete of that path drops its vector.
THEOREM MemoryNoVectorLost == Spec => NoVectorLost
<1>1. TypeOK /\ StoreInv /\ [Next]_vars =>
        [\A k \in Tables, p \in Paths : HasVector(rows, k, p) /\ ~HasVector(rows', k, p) =>
            \E c \in Callers : pc[c] = "forget" /\ job[c].path = p]_vars
  <2> SUFFICES ASSUME TypeOK, StoreInv, [Next]_vars, NEW k \in Tables, NEW p \in Paths,
                      HasVector(rows, k, p), ~HasVector(rows', k, p)
               PROVE  \E c \in Callers : pc[c] = "forget" /\ job[c].path = p
    OBVIOUS
  <2>1. PICK c \in Callers : CreateDataset(c) \/ MergeRow(c) \/ ForgetVector(c)
    BY RowsChange DEF StoreInv
  <2>2. ~CreateDataset(c)
    BY DEF CreateDataset, HasVector, StoreInv, DatasetInv, TypeOK
  <2>3. ~MergeRow(c)
    <3>1. NewRow(c).path = job[c].path
      BY DEF NewRow
    <3> QED
      BY <3>1 DEF MergeRow, HasVector, TypeOK
  <2> QED
    BY <2>1, <2>2, <2>3 DEF ForgetVector, HasVector, TypeOK
<1> QED
  BY <1>1, StoreInvariant, PTL DEF Spec, NoVectorLost

\* A call returns in a step of its caller.
LEMMA ReturnStep ==
    ASSUME TypeOK, CallInv, [Next]_vars, NEW c \in Callers, pc[c] # "idle", pc'[c] = "idle"
    PROVE  Step(c)
<1>1. ASSUME NEW d \in Callers, Call(d)
      PROVE  FALSE
  <2>1. PICK call, first : Begin(d, call, first) /\ Opens(d, call, first)
    BY <1>1, CallBegins
  <2> QED
    BY <2>1 DEF Opens, Begin, TypeOK
<1>2. ASSUME NEW d \in Callers, d # c, Step(d)
      PROVE  FALSE
  BY <1>2, StepLeads DEF Goto, End, TypeOK
<1> QED
  BY <1>1, <1>2 DEF Next, AllIdle, DropRecall, ChangeGrant, callerVars, vars

-----------------------------------------------------------------------------
\* As long as the recall table is not built anew, the pin that was checked is
\* that of the table in hand.
LEMMA PinStep ==
    ASSUME MaxTables = 1, TypeOK, CallInv, DatasetInv, PinInv, ModelsAgree, [Next]_vars
    PROVE  PinInv' /\ ModelsAgree'
<1>1. CASE \E c \in Callers : Call(c)
  <2>1. PICK c \in Callers : Call(c)
    BY <1>1
  <2>2. PICK call, first : Begin(c, call, first) /\ Opens(c, call, first)
    BY <2>1, CallBegins
  <2> QED
    BY <2>2 DEF Opens, Begin, PinInv, PinPasses, ModelsAgree, TypeOK, dataVars, Tables
<1>2. ASSUME NEW c \in Callers, Step(c)
      PROVE  PinInv' /\ ModelsAgree'
  <2>0. \A d \in Callers : pc'[d] # "idle" => job'[d] = job[d]
    BY <1>2, StepLeads, EndOthers DEF Goto, TypeOK
  <2> USE DEF PinPasses
  <2>1. CASE WriteEntry(c) \/ RemoveEntry(c)
    <3>1. UNCHANGED <<pins, at, rows>> /\ (\A d \in Callers \ {c} : pc'[d] = pc[d])
          /\ pc'[c] \in {"pin", "idle"}
      BY <2>1 DEF WriteEntry, RemoveEntry, Goto, End, TypeOK
    <3> QED
      BY <2>0, <3>1 DEF PinInv, ModelsAgree, Tables
  <2>2. CASE CheckPin(c)
    <3>1. PICK k \in Tables :
            /\ Resp(c, k)
            /\ \/ PinPasses(c, k) /\ Goto(c, "open")
               \/ End(c, "EmbeddingMismatch")
      BY <2>2 DEF CheckPin
    <3>2. k = 1 /\ 1 \in 1..Len(pins)
      BY <2>2, <3>1, RespTypes, TableNumbers DEF CheckPin, CallInv
    <3>3. UNCHANGED <<pins, at, rows>> /\ (\A d \in Callers \ {c} : pc'[d] = pc[d])
          /\ pc'[c] \in {"open", "idle"} /\ (pc'[c] = "open" => PinPasses(c, k))
      BY <2>2, <3>1 DEF CheckPin, Goto, End, TypeOK, dataVars
    <3> QED
      BY <2>0, <3>2, <3>3 DEF PinInv, ModelsAgree, Tables
  <2>3. CASE NotFound(c) \/ ReadHits(c) \/ ReloadTable(c) \/ Raise(c)
    <3>1. UNCHANGED <<pins, at, rows>> /\ (\A d \in Callers : pc'[d] \in {pc[d], "idle"})
      BY <2>3, EndOthers DEF NotFound, ReadHits, ReloadTable, Raise, dataVars
    <3> QED
      BY <2>0, <3>1 DEF PinInv, ModelsAgree, Tables
  <2>4. CASE OpenDataset(c)
    <3>1. PICK k \in Tables :
            /\ Resp(c, k)
            /\ at' = [at EXCEPT ![c] = k]
            /\ (\E to \in {"merge", "create", "forget", "read"} : Goto(c, to)) \/ End(c, "done")
      BY <2>4 DEF CallInv, OpenDataset
    <3>2. k = 1 /\ PinPasses(c, 1)
      BY <2>4, <3>1, TableNumbers DEF OpenDataset, PinInv
    <3>3. UNCHANGED <<pins, rows>>
      BY <2>4 DEF OpenDataset, dataVars
    <3>4. /\ \A d \in Callers \ {c} : pc'[d] = pc[d] /\ at'[d] = at[d]
          /\ at'[c] = 1 /\ pc'[c] \in {"merge", "create", "forget", "read", "idle"}
      <4>1. \E to \in {"merge", "create", "forget", "read", "idle"} : pc' = [pc EXCEPT ![c] = to]
        BY <3>1 DEF Goto, End
      <4> QED
        BY <3>1, <3>2, <4>1 DEF TypeOK
    <3>5. PinInv'
      BY <2>0, <3>2, <3>3, <3>4 DEF PinInv
    <3> QED
      BY <2>0, <3>2, <3>3, <3>4, <3>5 DEF ModelsAgree
  <2>5. CASE CreateDataset(c) \/ MergeRow(c) \/ ForgetVector(c)
    <3>1. ASSUME NEW k \in Tables, NEW r \in rows'[k]
          PROVE  pins[k] \in {None, r.model}
      <4>1. r \in rows[k] \/ (k = at[c] /\ r = NewRow(c) /\ pc[c] \in {"create", "merge"})
        BY <2>5, <3>1 DEF CreateDataset, MergeRow, ForgetVector, TypeOK
      <4>2. NewRow(c).model = Model[job[c].store]
        BY DEF NewRow
      <4> QED
        BY <3>1, <4>1, <4>2 DEF PinInv, ModelsAgree
    <3>2. UNCHANGED <<pins, at>> /\ \A d \in Callers : pc'[d] \in {pc[d], "idle"}
      BY <2>5, EndOthers DEF CreateDataset, MergeRow, ForgetVector
    <3> QED
      BY <2>0, <3>1, <3>2 DEF PinInv, ModelsAgree, Tables
  <2>6. CASE CreateTable(c)
    <3>1. CASE UNCHANGED pins
      BY <2>6, <3>1 DEF CreateTable, Goto, PinInv, ModelsAgree, TypeOK, Tables
    <3>2. CASE Len(pins) < MaxTables
      <4>1. 1..Len(pins) = {} /\ written = {}
        BY <3>2, TableNumbers DEF TypeOK
      <4>2. \A d \in Callers : pc[d] \notin {"open", "create", "merge", "forget", "read"}
        BY <4>1 DEF PinInv, CallInv
      <4>3. \A k \in Tables : rows'[k] = {}
        BY <2>6, <4>1 DEF CreateTable, DatasetInv
      <4>4. \A d \in Callers : pc'[d] \notin {"open", "create", "merge", "forget", "read"}
        BY <2>6, <4>2 DEF CreateTable, Goto, TypeOK
      <4> QED
        BY <4>3, <4>4 DEF PinInv, ModelsAgree, Tables
    <3> QED
      BY <2>6, <3>1, <3>2 DEF CreateTable
  <2>7. CASE Load(c) \/ StoreCached(c)
    BY <2>7 DEF Load, StoreCached, PinInv, ModelsAgree, dataVars, callerVars, Tables
  <2>8. CASE InvalidateTable(c)
    BY <2>8 DEF InvalidateTable, Goto, PinInv, ModelsAgree, TypeOK, dataVars, Tables
  <2> QED
    BY <1>2, <2>1, <2>2, <2>3, <2>4, <2>5, <2>6, <2>7, <2>8 DEF Step
<1>3. CASE DropRecall \/ ChangeGrant \/ UNCHANGED vars
  BY <1>3 DEF DropRecall, ChangeGrant, vars, callerVars, PinInv, PinPasses, ModelsAgree, Tables
<1> QED
  BY <1>1, <1>2, <1>3 DEF Next, AllIdle

\* The pins hold in every reachable state.
LEMMA PinInvariant == ASSUME MaxTables = 1 PROVE Spec => [](PinInv /\ ModelsAgree)
<1>1. Init => PinInv /\ ModelsAgree
  BY DEF Init, PinInv, ModelsAgree
<1>2. TypeOK /\ StoreInv /\ PinInv /\ ModelsAgree /\ [Next]_vars => PinInv' /\ ModelsAgree'
  BY PinStep DEF StoreInv
<1> QED
  BY <1>1, <1>2, StoreInvariant, PTL DEF Spec

\* "a swapped model fails loudly instead of silently invalidating every stored
\* vector" (_common.py:41), as long as the recall table is created once only.
THEOREM MemoryModelsAgree == ASSUME MaxTables = 1 PROVE Spec => []ModelsAgree
  BY PinInvariant, PTL

\* A put that no other change of the path overlaps makes object and vector
\* agree, whatever failed or raced before, as long as the recall table is
\* created once only.  (A put that still holds the response of a table that was
\* dropped stores its vector there, and the table built since goes without.)
THEOREM MemoryPutIsFound == ASSUME MaxTables = 1 PROVE Spec => PutIsFound
<1>1. TypeOK /\ StoreInv /\ [Next]_vars =>
        [\A c \in Callers : ReturnsAlone(c, "put") =>
            /\ entries'[job[c].path] = job[c].text
            /\ (job[c].index /\ Embeds(c) /\ recall' # 0) =>
                  {r.text : r \in {q \in rows'[recall'] : q.path = job[c].path}} = {job[c].text}
        ]_vars
  <2> SUFFICES ASSUME TypeOK, StoreInv, [Next]_vars, NEW c \in Callers, ReturnsAlone(c, "put")
               PROVE  /\ entries'[job[c].path] = job[c].text
                      /\ (job[c].index /\ Embeds(c) /\ recall' # 0) =>
                            {r.text : r \in {q \in rows'[recall'] : q.path = job[c].path}}
                               = {job[c].text}
    OBVIOUS
  <2>1. WriteEntry(c) \/ (CreateDataset(c) /\ at[c] \notin written) \/ MergeRow(c)
    <3>1. Step(c)
      BY ReturnStep DEF ReturnsAlone, StoreInv
    <3>2. ~OpenDataset(c)
      BY DEF ReturnsAlone, OpenDataset, Goto, TypeOK
    <3>3. ~(RemoveEntry(c) \/ ForgetVector(c) \/ ReadHits(c) \/ CreateTable(c)
            \/ InvalidateTable(c) \/ ReloadTable(c))
      BY DEF ReturnsAlone, StoreInv, CallInv, RemoveEntry, ForgetVector, ReadHits, CreateTable,
             InvalidateTable, ReloadTable
    <3>4. ~(Load(c) \/ StoreCached(c) \/ CheckPin(c) \/ NotFound(c) \/ Raise(c))
      BY DEF ReturnsAlone, Load, StoreCached, CheckPin, NotFound, Raise, Goto, End, TypeOK,
             callerVars
    <3>5. CreateDataset(c) => at[c] \notin written
      BY DEF ReturnsAlone, CreateDataset, End, TypeOK
    <3> QED
      BY <3>1, <3>2, <3>3, <3>4, <3>5 DEF Step
  <2>2. CASE WriteEntry(c)
    BY <2>2, JobFields DEF WriteEntry, ReturnsAlone, Goto, TypeOK
  <2>3. CASE (CreateDataset(c) /\ at[c] \notin written) \/ MergeRow(c)
    <3>1. entries'[job[c].path] = job[c].text
      BY <2>3 DEF CreateDataset, MergeRow, ReturnsAlone, StoreInv, AloneInv
    <3>2. at[c] = 1 /\ at[c] \in Tables
      BY <2>3, TableNumbers DEF CreateDataset, MergeRow, StoreInv, CallInv
    <3>3. NewRow(c).path = job[c].path /\ NewRow(c).text = job[c].text
      BY DEF NewRow
    <3>4. {q \in rows'[at[c]] : q.path = job[c].path} = {NewRow(c)}
      <4>1. CASE CreateDataset(c) /\ at[c] \notin written
        BY <3>2, <3>3, <4>1 DEF CreateDataset, TypeOK
      <4>2. CASE MergeRow(c)
        BY <3>2, <3>3, <4>2 DEF MergeRow, TypeOK
      <4> QED
        BY <2>3, <4>1, <4>2
    <3>5. recall' # 0 => recall' = at[c]
      BY <2>3, <3>2, TableNumbers DEF CreateDataset, MergeRow, TypeOK
    <3> QED
      BY <3>1, <3>3, <3>4, <3>5
  <2> QED
    BY <2>1, <2>2, <2>3
<1> QED
  BY <1>1, StoreInvariant, PTL DEF Spec, PutIsFound

\* "Delete an entry and drop its vector, if one was indexed" (memory.py:151), as
\* long as the recall table is created once only, but for a delete to which the
\* table was hidden.
THEOREM MemoryDeleteLeavesNothing == ASSUME MaxTables = 1 PROVE Spec => DeleteLeavesNothing
<1>1. TypeOK /\ StoreInv /\ PinInv /\ [Next]_vars =>
        [\A c \in Callers : ReturnsAlone(c, "delete") /\ Embeds(c) =>
            /\ entries'[job[c].path] = None
            /\ recall' # 0 /\ (job[c].store \in denied => pc[c] = "forget") =>
                  ~HasVector(rows', recall', job[c].path)
        ]_vars
  <2> SUFFICES ASSUME TypeOK, StoreInv, PinInv, [Next]_vars, NEW c \in Callers,
                      ReturnsAlone(c, "delete"), Embeds(c)
               PROVE  /\ entries'[job[c].path] = None
                      /\ recall' # 0 /\ (job[c].store \in denied => pc[c] = "forget") =>
                            ~HasVector(rows', recall', job[c].path)
    OBVIOUS
  <2>1. NotFound(c) \/ OpenDataset(c) \/ ForgetVector(c)
    <3>1. Step(c)
      BY ReturnStep DEF ReturnsAlone, StoreInv
    <3>2. ~(WriteEntry(c) \/ CreateDataset(c) \/ MergeRow(c) \/ ReadHits(c) \/ CreateTable(c)
            \/ InvalidateTable(c) \/ ReloadTable(c))
      BY DEF ReturnsAlone, StoreInv, CallInv, WriteEntry, CreateDataset, MergeRow, ReadHits,
             CreateTable, InvalidateTable, ReloadTable
    <3>3. ~(RemoveEntry(c) \/ Load(c) \/ StoreCached(c) \/ CheckPin(c) \/ Raise(c))
      BY DEF ReturnsAlone, RemoveEntry, Load, StoreCached, CheckPin, Raise, Goto, End, TypeOK,
             callerVars
    <3> QED
      BY <3>1, <3>2, <3>3 DEF Step
  <2>2. entries'[job[c].path] = None /\ UNCHANGED recall
    BY <2>1 DEF NotFound, OpenDataset, ForgetVector, ReturnsAlone, StoreInv, AloneInv, dataVars
  <2>3. CASE NotFound(c)
    BY <2>2, <2>3 DEF NotFound, Visible
  <2>4. ASSUME recall # 0
        PROVE  recall = 1 /\ Tables = {1}
    BY <2>4, TableNumbers DEF TypeOK
  <2>5. CASE OpenDataset(c)
    <3>1. PICK k \in Tables : k \notin written
      BY <2>5 DEF OpenDataset, ReturnsAlone, Goto, TypeOK
    <3> QED
      BY <2>2, <2>4, <2>5, <3>1 DEF OpenDataset, StoreInv, DatasetInv, HasVector, dataVars
  <2>6. CASE ForgetVector(c)
    <3>1. at[c] = 1 /\ Tables = {1}
      BY <2>6, TableNumbers DEF ForgetVector, StoreInv, CallInv
    <3> QED
      BY <2>2, <2>4, <2>6, <3>1 DEF ForgetVector, HasVector, TypeOK
  <2> QED
    BY <2>1, <2>2, <2>3, <2>5, <2>6
<1> QED
  BY <1>1, StoreInvariant, PinInvariant, PTL DEF Spec, DeleteLeavesNothing
=============================================================================
