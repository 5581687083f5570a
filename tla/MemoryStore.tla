---------------------------- MODULE MemoryStore ----------------------------
(***************************************************************************)
(* agents/memory.py: agents keep texts as objects of an entries table and, *)
(* when their MemoryStore has an embedder, one vector per path in a recall *)
(* table, a Lance dataset pinned to an embedding model.  A put or a delete *)
(* works on the two in steps that may fail and that other agents' steps    *)
(* come between; the recall table is reached through the cached load       *)
(* response of a VendedTable (agents/_common.py), which no lock guards, and*)
(* may be dropped and built anew, or hidden from a store whose principal   *)
(* has lost the right to read it.                                          *)
(*                                                                         *)
(* Callers are threads or processes; those that use the same store share   *)
(* its cache, as abatch of the LangGraph adapter does.  Whether credentials*)
(* are near expiry when resp looks is left open.  The entries table is     *)
(* provisioned once and not dropped, so what is cached of it never matters.*)
(***************************************************************************)
EXTENDS Naturals, Sequences

CONSTANTS
    Callers, Stores, Paths, Texts,
    Models,      \* the embedding models
    Model,       \* the model of each store's embedder, or None
    Revocable,   \* bound: the stores whose principal may lose its right
    None,        \* no model, and no text: the object does not exist
    MaxTables,   \* bound on the recall tables ever created
    MaxCalls     \* bound on the calls

ASSUME ModelAssumption ==
    /\ Model \in [Stores -> Models \cup {None}]
    /\ None \notin Models \cup Texts
    /\ Revocable \subseteq Stores
ASSUME TableAssumption == MaxTables \in Nat /\ MaxCalls \in Nat

VARIABLES
    entries,   \* object store: the text at each path
    recall,    \* catalog: the number of the recall table, 0 if there is none
    pins,      \* catalog: "embedding-model" of each recall table so far; None
               \* when who created it has set none
    denied,    \* catalog: the stores whose principal may not read the recall table
    written,   \* the recall tables whose location holds a dataset
    rows,      \* the rows of each dataset
    cached,    \* _recall._cached of each store: which table it describes
    resp,      \* how far each caller is in _recall.resp
    loaded,    \* the table its load has just described, 0 if none
    pc,        \* where each caller is
    job,       \* its call: operation, store, path, text, index
    at,        \* the table whose response or dataset it holds
    outcome,   \* how its last call ended
    alone,     \* history: no other put or delete of the path overlaps the call
    begun      \* number of calls so far

dataVars   == <<entries, recall, pins, denied, written, rows>>
cacheVars  == <<cached, resp, loaded>>
callerVars == <<pc, job, at, outcome, alone, begun>>
vars       == <<entries, recall, pins, denied, written, rows, cached, resp, loaded,
                pc, job, at, outcome, alone, begun>>

Tables == 1..MaxTables
Row    == [path : Paths, text : Texts, model : Models]
NoJob  == [op |-> "none"]

Init ==
    /\ entries = [p \in Paths |-> None]
    /\ pins \in {<< >>} \cup {<<m>> : m \in IF MaxTables = 0 THEN {} ELSE Models \cup {None}}
    /\ recall = Len(pins) /\ denied = {}
    /\ written = {} /\ rows = [k \in Tables |-> {}]
    /\ cached = [s \in Stores |-> 0]
    /\ resp = [c \in Callers |-> "look"] /\ loaded = [c \in Callers |-> 0]
    /\ pc = [c \in Callers |-> "idle"]
    /\ job = [c \in Callers |-> NoJob]
    /\ at = [c \in Callers |-> 0]
    /\ outcome = [c \in Callers |-> "none"]
    /\ alone = [c \in Callers |-> TRUE]
    /\ begun = 0

-----------------------------------------------------------------------------
Embeds(c)  == Model[job[c].store] # None
Changing(c, p) == pc[c] # "idle" /\ job[c].op \in {"put", "delete"} /\ job[c].path = p

\* c calls a method of a store.
Begin(c, call, first) ==
    /\ pc[c] = "idle" /\ begun < MaxCalls
    /\ pc' = [pc EXCEPT ![c] = first]
    /\ job' = [job EXCEPT ![c] = call]
    /\ outcome' = [outcome EXCEPT ![c] = "none"]
    /\ begun' = begun + 1
    /\ UNCHANGED <<dataVars, cacheVars, at>>

\* A call that changes a path spoils the solitude of those that do so already.
BeginChange(c, call, first) ==
    /\ Begin(c, call, first)
    /\ alone' = [d \in Callers |->
                   IF d = c THEN \A e \in Callers \ {c} : ~Changing(e, call.path)
                            ELSE alone[d] /\ ~Changing(d, call.path)]

Put(c) ==
    \E s \in Stores, p \in Paths, x \in Texts, i \in BOOLEAN :
        BeginChange(c, [path |-> p, text |-> x, op |-> "put", store |-> s, index |-> i],
                    "write")

Delete(c) ==
    \E s \in Stores, p \in Paths :
        BeginChange(c, [path |-> p, op |-> "delete", store |-> s], "remove")

\* search; without an embedder it raises NoEmbedder at once.
Search(c) ==
    /\ \E s \in Stores : Model[s] # None /\ Begin(c, [op |-> "search", store |-> s], "pin")
    /\ UNCHANGED alone

\* ensure_tables, as far as the recall table is concerned.
EnsureTables(c) ==
    /\ \E s \in Stores : Model[s] # None /\ Begin(c, [op |-> "ensure", store |-> s], "ensure")
    /\ UNCHANGED alone

-----------------------------------------------------------------------------
\* A step of c's call that leads on to `to` ...
Goto(c, to) == pc' = [pc EXCEPT ![c] = to] /\ UNCHANGED <<job, outcome, alone, begun>>

\* ... or ends it.
End(c, how) ==
    /\ pc' = [pc EXCEPT ![c] = "idle"]
    /\ outcome' = [outcome EXCEPT ![c] = how]
    /\ job' = [job EXCEPT ![c] = NoJob]
    /\ alone' = [alone EXCEPT ![c] = TRUE]
    /\ UNCHANGED begun

\* The object is written; put is done unless it has to index.
WriteEntry(c) ==
    /\ pc[c] = "write"
    /\ entries' = [entries EXCEPT ![job[c].path] = job[c].text]
    /\ IF job[c].index /\ Embeds(c) THEN Goto(c, "pin") ELSE End(c, "done")
    /\ UNCHANGED <<recall, pins, denied, written, rows, cacheVars, at>>

\* The object is deleted, whether it exists or not on S3; where a missing one
\* is an error, that is one of the failures of Raise.
RemoveEntry(c) ==
    /\ pc[c] = "remove"
    /\ entries' = [entries EXCEPT ![job[c].path] = None]
    /\ IF Embeds(c) THEN Goto(c, "pin") ELSE End(c, "done")
    /\ UNCHANGED <<recall, pins, denied, written, rows, cacheVars, at>>

\* The catalog hides a table that the principal may not read (memory.py:207).
Visible(s) == recall # 0 /\ s \notin denied

\* _recall.resp asks the catalog when nothing is cached or the credentials are near
\* their end; what the answer says may be out of date when it is stored, ...
Load(c) ==
    /\ pc[c] \in {"pin", "open", "reload"} /\ resp[c] = "look" /\ Visible(job[c].store)
    /\ resp' = [resp EXCEPT ![c] = "store"]
    /\ loaded' = [loaded EXCEPT ![c] = recall]
    /\ UNCHANGED <<dataVars, cached, callerVars>>

StoreCached(c) ==
    /\ pc[c] \in {"pin", "open", "reload"} /\ resp[c] = "store"
    /\ resp' = [resp EXCEPT ![c] = "return"]
    /\ cached' = [cached EXCEPT ![job[c].store] = loaded[c]]
    /\ loaded' = [loaded EXCEPT ![c] = 0]
    /\ UNCHANGED <<dataVars, callerVars>>

\* ... and what is returned is what is cached by then.  When that is None, using it
\* is one of the failures of Raise.
Resp(c, k) ==
    /\ resp[c] \in {"look", "return"} /\ k = cached[job[c].store] /\ k # 0
    /\ resp' = [resp EXCEPT ![c] = "look"]
    /\ UNCHANGED <<cached, loaded>>

\* The load answers 404: there is no recall table, or it is hidden.  _index
\* passes it on, _forget_vector and search take either for "nothing indexed".
NotFound(c) ==
    /\ pc[c] \in {"pin", "open"} /\ resp[c] = "look" /\ ~Visible(job[c].store)
    /\ End(c, IF job[c].op = "put" THEN "NotFoundError" ELSE "done")
    /\ UNCHANGED <<dataVars, cacheVars, at>>

\* A table without a pin passes for every model.
PinPasses(c, k) == pins[k] \in {None, Model[job[c].store]}

\* Mutant: vectors of another model are none of this store's business.
CheckNoPin(c) ==
    /\ pc[c] = "pin"
    /\ \E k \in Tables : Resp(c, k)
    /\ Goto(c, "open")
    /\ UNCHANGED <<dataVars, at>>

\* Mutant: _forget_vector returns on every error of _open_recall.
CheckPinQuietly(c) ==
    /\ pc[c] = "pin"
    /\ \E k \in Tables :
         /\ Resp(c, k)
         /\ IF PinPasses(c, k) THEN Goto(c, "open") ELSE End(c, "done")
    /\ UNCHANGED <<dataVars, at>>

\* _check_pin
CheckPin(c) ==
    /\ pc[c] = "pin"
    /\ \E k \in Tables :
         /\ Resp(c, k)
         /\ IF PinPasses(c, k) THEN Goto(c, "open") ELSE End(c, "EmbeddingMismatch")
    /\ UNCHANGED <<dataVars, at>>

\* Mutant: `if dataset is None` is missing in _forget_vector.
OpenUnguarded(c) ==
    /\ pc[c] = "open"
    /\ \E k \in Tables :
         /\ Resp(c, k)
         /\ at' = [at EXCEPT ![c] = k]
         /\ CASE job[c].op = "put"    -> Goto(c, IF k \in written THEN "merge" ELSE "create")
              [] job[c].op = "delete" -> IF k \in written THEN Goto(c, "forget")
                                                          ELSE End(c, "AttributeError")
              [] job[c].op = "search" -> IF k \in written THEN Goto(c, "read") ELSE End(c, "done")
    /\ UNCHANGED dataVars

\* The second resp, after the embedding in _index and at once in _open_recall,
\* and lance.dataset, which raises ValueError when there is no dataset.
OpenDataset(c) ==
    /\ pc[c] = "open"
    /\ \E k \in Tables :
         /\ Resp(c, k)
         /\ at' = [at EXCEPT ![c] = k]
         /\ CASE job[c].op = "put"    -> Goto(c, IF k \in written THEN "merge" ELSE "create")
              [] job[c].op = "delete" -> IF k \in written THEN Goto(c, "forget") ELSE End(c, "done")
              [] job[c].op = "search" -> IF k \in written THEN Goto(c, "read") ELSE End(c, "done")
    /\ UNCHANGED dataVars

NewRow(c) == [path |-> job[c].path, text |-> job[c].text, model |-> Model[job[c].store]]

\* Mutant: mode="overwrite".
CreateOver(c) ==
    /\ pc[c] = "create"
    /\ written' = written \cup {at[c]}
    /\ rows' = [rows EXCEPT ![at[c]] = {NewRow(c)}]
    /\ End(c, "done")
    /\ UNCHANGED <<entries, recall, pins, denied, cacheVars, at>>

\* write_dataset with mode="create": it raises when another caller was faster.
CreateDataset(c) ==
    /\ pc[c] = "create"
    /\ IF at[c] \in written
       THEN End(c, "error") /\ UNCHANGED <<written, rows>>
       ELSE /\ written' = written \cup {at[c]}
            /\ rows' = [rows EXCEPT ![at[c]] = {NewRow(c)}]
            /\ End(c, "done")
    /\ UNCHANGED <<entries, recall, pins, denied, cacheVars, at>>

\* Mutant: the row is appended.
MergeAppend(c) ==
    /\ pc[c] = "merge"
    /\ rows' = [rows EXCEPT ![at[c]] = @ \cup {NewRow(c)}]
    /\ End(c, "done")
    /\ UNCHANGED <<entries, recall, pins, denied, written, cacheVars, at>>

\* Mutant: merge_insert without when_matched_update_all.
MergeUnmatched(c) ==
    /\ pc[c] = "merge"
    /\ rows' = [rows EXCEPT ![at[c]] =
                  IF \E r \in @ : r.path = job[c].path THEN @ ELSE @ \cup {NewRow(c)}]
    /\ End(c, "done")
    /\ UNCHANGED <<entries, recall, pins, denied, written, cacheVars, at>>

\* merge_insert, which Lance commits as a whole.
MergeRow(c) ==
    /\ pc[c] = "merge"
    /\ rows' = [rows EXCEPT ![at[c]] = {r \in @ : r.path # job[c].path} \cup {NewRow(c)}]
    /\ End(c, "done")
    /\ UNCHANGED <<entries, recall, pins, denied, written, cacheVars, at>>

\* dataset.delete
ForgetVector(c) ==
    /\ pc[c] = "forget"
    /\ rows' = [rows EXCEPT ![at[c]] = {r \in @ : r.path # job[c].path}]
    /\ End(c, "done")
    /\ UNCHANGED <<entries, recall, pins, denied, written, cacheVars, at>>

\* The query is embedded and the nearest rows are read.
ReadHits(c) == pc[c] = "read" /\ End(c, "done") /\ UNCHANGED <<dataVars, cacheVars, at>>

\* ensure: create, which makes the caller's principal the owner, with a conflict
\* taken for success ...
CreateTable(c) ==
    /\ pc[c] = "ensure"
    /\ \/ /\ recall = 0 /\ Len(pins) < MaxTables
          /\ pins' = Append(pins, Model[job[c].store])
          /\ recall' = Len(pins')
          /\ denied' = denied \ {job[c].store}
       \/ recall # 0 /\ UNCHANGED <<recall, pins, denied>>
    /\ Goto(c, "invalidate")
    /\ UNCHANGED <<entries, written, rows, cacheVars, at>>

\* ... then invalidate ...
InvalidateTable(c) ==
    /\ pc[c] = "invalidate"
    /\ cached' = [cached EXCEPT ![job[c].store] = 0]
    /\ Goto(c, "reload")
    /\ UNCHANGED <<dataVars, resp, loaded, at>>

\* ... and a load.
ReloadTable(c) ==
    /\ pc[c] = "reload"
    /\ \/ /\ resp[c] = "look" /\ ~Visible(job[c].store)
          /\ End(c, "NotFoundError") /\ UNCHANGED cacheVars
       \/ (\E k \in Tables : Resp(c, k)) /\ End(c, "done")
    /\ UNCHANGED <<dataVars, at>>

\* Any request to the catalog, the embedder or the storage may fail, and the
\* process may stop, between any two steps.
Raise(c) ==
    /\ pc[c] # "idle" /\ End(c, "error")
    /\ resp' = [resp EXCEPT ![c] = "look"] /\ loaded' = [loaded EXCEPT ![c] = 0]
    /\ UNCHANGED <<dataVars, cached, at>>

\* An operator drops the recall table, to rebuild it for instance.
DropRecall ==
    /\ recall # 0 /\ recall' = 0
    /\ UNCHANGED <<entries, pins, denied, written, rows, cacheVars, callerVars>>

\* Somebody takes the right to read the recall table from a store's principal,
\* or gives it back.
ChangeGrant ==
    /\ \E s \in Revocable : denied' = IF s \in denied THEN denied \ {s} ELSE denied \cup {s}
    /\ UNCHANGED <<entries, recall, pins, written, rows, cacheVars, callerVars>>

Call(c) == Put(c) \/ Delete(c) \/ Search(c) \/ EnsureTables(c)

Step(c) ==
    \/ WriteEntry(c) \/ RemoveEntry(c) \/ Load(c) \/ StoreCached(c) \/ NotFound(c)
    \/ CheckPin(c) \/ OpenDataset(c)
    \/ CreateDataset(c) \/ MergeRow(c) \/ ForgetVector(c) \/ ReadHits(c)
    \/ CreateTable(c) \/ InvalidateTable(c) \/ ReloadTable(c) \/ Raise(c)

AllIdle == (\A c \in Callers : pc[c] = "idle") /\ begun = MaxCalls /\ UNCHANGED vars

Next == DropRecall \/ ChangeGrant \/ AllIdle \/ \E c \in Callers : Call(c) \/ Step(c)

Spec == Init /\ [][Next]_vars

-----------------------------------------------------------------------------
Job ==
    {NoJob} \cup [op : {"search", "ensure"}, store : Stores] \cup
    [path : Paths, op : {"delete"}, store : Stores] \cup
    [path : Paths, text : Texts, op : {"put"}, store : Stores, index : BOOLEAN]

TypeOK ==
    /\ entries \in [Paths -> Texts \cup {None}]
    /\ pins \in Seq(Models \cup {None}) /\ denied \subseteq Stores
    /\ recall \in {0, Len(pins)} /\ Len(pins) <= MaxTables
    /\ written \subseteq 1..Len(pins) /\ rows \in [Tables -> SUBSET Row]
    /\ cached \in [Stores -> 0..Len(pins)] /\ loaded \in [Callers -> 0..Len(pins)]
    /\ resp \in [Callers -> {"look", "store", "return"}]
    /\ pc \in [Callers -> {"idle", "write", "remove", "pin", "open", "create", "merge",
                           "forget", "read", "ensure", "invalidate", "reload"}]
    /\ job \in [Callers -> Job]
    /\ at \in [Callers -> 0..Len(pins)]
    /\ outcome \in [Callers -> {"none", "done", "NotFoundError", "EmbeddingMismatch", "error"}]
    /\ alone \in [Callers -> BOOLEAN] /\ begun \in Nat

\* "One row per path: re-putting an entry replaces its vector" (memory.py:289),
\* the first puts of several callers included: no superseded text keeps matching.
OneRowPerPath == \A k \in Tables : \A q, r \in rows[k] : q.path = r.path => q = r

\* "a swapped model fails loudly instead of silently invalidating every stored
\* vector" (_common.py:41): the rows of a table were embedded with the model it
\* is pinned to, and it is searched with that model only.
ModelsAgree ==
    /\ \A k \in Tables : \A r \in rows[k] : pins[k] \in {None, r.model}
    /\ \A c \in Callers : pc[c] = "read" => PinPasses(c, at[c])

\* The call of c returns in this step, and nothing overlapped it at its path.
ReturnsAlone(c, op) ==
    job[c].op = op /\ alone[c] /\ pc[c] # "idle" /\ pc'[c] = "idle" /\ outcome'[c] = "done"

HasVector(data, k, p) == \E r \in data[k] : r.path = p

\* Whatever other calls left behind when they failed or raced each other: a put
\* that no other change of the path overlaps makes object and vector agree, and
\* "hits still carry the body" (memory.py:136): who searches the recall table
\* finds the path with this text only.
PutIsFound ==
    [][\A c \in Callers : ReturnsAlone(c, "put") =>
          /\ entries'[job[c].path] = job[c].text
          /\ (job[c].index /\ Embeds(c) /\ recall' # 0) =>
                {r.text : r \in {q \in rows'[recall'] : q.path = job[c].path}} = {job[c].text}
      ]_vars

\* "Delete an entry and drop its vector, if one was indexed" (memory.py:151): so
\* does a delete by a store that has an embedder, also one that repeats a delete
\* that stopped half way.  The exception is a delete to which the recall table
\* was hidden: _forget_vector takes the 404 for a table that does not exist
\* (memory.py:301), and the delete succeeds with the vector left.
DeleteLeavesNothing ==
    [][\A c \in Callers : ReturnsAlone(c, "delete") /\ Embeds(c) =>
          /\ entries'[job[c].path] = None
          /\ recall' # 0 /\ (job[c].store \in denied => pc[c] = "forget") =>
                ~HasVector(rows', recall', job[c].path)
      ]_vars

\* A path stays searchable until somebody deletes it: no put of another path,
\* the one that creates the dataset included, costs it its vector.
NoVectorLost ==
    [][\A k \in Tables, p \in Paths : HasVector(rows, k, p) /\ ~HasVector(rows', k, p) =>
          \E c \in Callers : pc[c] = "forget" /\ job[c].path = p]_vars
=============================================================================
