--------------------------- MODULE LangGraphStore ---------------------------
(***************************************************************************)
(* pylakekeeper.agents.langgraph.LakekeeperStore: LangGraph's BaseStore on *)
(* top of a MemoryStore.  Workers (the threads of abatch, or processes)    *)
(* run batches; the operations of a batch run one after the other, and one *)
(* that raises ends it.                                                    *)
(*                                                                         *)
(* A path is its sequence of segments, the key last; ".json" and "/" are   *)
(* left out, but not what they are there for: Begins says which segment    *)
(* begins another, for list looks for strings.  An object is the envelope  *)
(* with the value and its two times, or Text when somebody else wrote it.  *)
(* MemoryStore.put and delete are two steps, the object and the vector;    *)
(* what goes wrong inside the second is the matter of module MemoryStore.  *)
(***************************************************************************)
EXTENDS Naturals, Sequences, FiniteSets, SequencesExt

CONSTANTS
    Workers, Values, Batches,
    Segments,
    Order,      \* the paths that occur, in the order in which list returns them
    Begins,     \* the pairs of different segments of which the first begins the second
    Embeds,     \* the MemoryStore has an embedder
    None, Text, Error,
    MaxTime,    \* bound on times
    MaxBatches  \* bound on the batches

Paths == {Order[i] : i \in 1..Len(Order)}

\* The operations of LangGraph's BaseStore, on these paths.
Operations ==
    [op : {"get", "delete"}, path : Paths]
    \cup [op : {"put"}, path : Paths, value : Values, index : BOOLEAN]
    \cup [op : {"search"}, prefix : Seq(Segments), query : BOOLEAN, values : SUBSET Values,
          limit : Nat, offset : Nat]
    \cup [op : {"namespaces"}, depth : Nat, limit : Nat, offset : Nat,
          match : SUBSET [type : {"prefix", "suffix"}, path : Seq(Segments \cup {"*"})]]

\* What the workers' clocks may say: each has its own, which may be set back.
Time == 0..MaxTime

\* _wrap
Envelope == [value : Values, created : Time, updated : Time]

ASSUME StoreAssumption ==
    /\ Order \in Seq(Seq(Segments)) /\ \A p \in Paths : p # << >>
    /\ \A b \in Batches : b \in Seq(Operations) /\ b # << >>
    /\ Begins \subseteq Segments \X Segments /\ Embeds \in BOOLEAN
    /\ MaxTime \in Nat /\ MaxBatches \in Nat
    /\ None # Text /\ {None, Text} \cap Envelope = {} /\ None \notin Workers

VARIABLES
    entries,  \* the object at each path, Text or None
    rows,     \* the object whose vector the recall table holds for each path, or None
    pc,       \* where each worker is
    batch,    \* the operations it has still to run, the current one first
    now,      \* _put: the time it has read
    created,  \* _put: the creation time it is going to write
    found,    \* _search: the places in Order of the paths it has still to look at
    items,    \* _search: what it has found: <<path, object>>
    answer,   \* what the last operation returned, <<path or namespace, object>>, or Error
    alone,    \* history: nobody else has changed the path during this operation
    missed,   \* history: the read of this _put raised
    past,     \* history: the objects that were there during this search, or before this put
    begun     \* number of batches so far

locals  == <<now, created, found, items>>
history == <<alone, missed, past>>
vars    == <<entries, rows, pc, batch, now, created, found, items, answer, alone,
             missed, past, begun>>

Init ==
    /\ entries = [p \in Paths |-> None] /\ rows = [p \in Paths |-> None]
    /\ pc = [w \in Workers |-> "idle"] /\ batch = [w \in Workers |-> << >>]
    /\ now = [w \in Workers |-> 0] /\ created = [w \in Workers |-> 0]
    /\ found = [w \in Workers |-> {}] /\ items = [w \in Workers |-> << >>]
    /\ answer = [w \in Workers |-> << >>]
    /\ alone = [w \in Workers |-> TRUE] /\ missed = [w \in Workers |-> FALSE]
    /\ past = [w \in Workers |-> {}]
    /\ begun = 0

-----------------------------------------------------------------------------
Op(w) == Head(batch[w])

\* The paths an operation can be about.
Touches(op) == IF op.op \in {"search", "namespaces"} THEN Paths ELSE {op.path}

\* _split: the key is not alone.
Splits(p) == Len(p) >= 2
Namespace(p) == Front(p)

\* memory.list(prefix): the path, as a string, starts with the prefix.
Listed(prefix, p) ==
    \/ prefix = << >>
    \/ /\ Len(prefix) <= Len(p)
       /\ Front(prefix) = SubSeq(p, 1, Len(prefix) - 1)
       /\ \/ Last(prefix) = p[Len(prefix)]
          \/ <<Last(prefix), p[Len(prefix)]>> \in Begins

\* hit.path.startswith(prefix + "/")
Under(prefix, p) == IsStrictPrefix(prefix, p)

\* Mutant: what is no JSON counts as an empty envelope.
SelectsText(op, obj) == obj = Text \/ (obj \in Envelope /\ obj.value \in op.values)

\* op.filter, as the set of the values it lets through.
Selects(op, obj) == obj \in Envelope /\ obj.value \in op.values

\* items[op.offset : op.offset + op.limit]
Page(seq, op) ==
    SubSeq(seq, op.offset + 1,
           IF op.offset + op.limit < Len(seq) THEN op.offset + op.limit ELSE Len(seq))

\* _matches: the condition's path against the namespace, "*" for any segment.
Matches(ns, op) ==
    \A cond \in op.match :
        LET path   == cond.path
            target == IF cond.type = "prefix" THEN SubSeq(ns, 1, Len(path))
                                              ELSE SubSeq(ns, Len(ns) - Len(path) + 1, Len(ns))
        IN  Len(path) <= Len(ns) /\ \A i \in 1..Len(path) : path[i] \in {"*", target[i]}

\* namespace[: op.max_depth]
Truncate(ns, op) == IF op.depth < Len(ns) THEN SubSeq(ns, 1, op.depth) ELSE ns

-----------------------------------------------------------------------------
\* A worker is given a batch.
Begin(w) ==
    /\ pc[w] = "idle" /\ begun < MaxBatches
    /\ \E b \in Batches : batch' = [batch EXCEPT ![w] = b]
    /\ pc' = [pc EXCEPT ![w] = "next"]
    /\ answer' = [answer EXCEPT ![w] = << >>]
    /\ begun' = begun + 1
    /\ UNCHANGED <<entries, rows, locals, history>>

Goto(w, to) == pc' = [pc EXCEPT ![w] = to] /\ UNCHANGED <<batch, answer, begun>>

\* The operation is over, and with it what is only asked of it.
Forget(w) ==
    /\ alone' = [alone EXCEPT ![w] = TRUE] /\ missed' = [missed EXCEPT ![w] = FALSE]
    /\ past' = [past EXCEPT ![w] = {}]

\* The local variables are gone.
Leave(w) ==
    /\ now' = [now EXCEPT ![w] = 0] /\ created' = [created EXCEPT ![w] = 0]
    /\ found' = [found EXCEPT ![w] = {}] /\ items' = [items EXCEPT ![w] = << >>]

\* The operation returns.
Answer(w, a) ==
    /\ pc' = [pc EXCEPT ![w] = IF Len(batch[w]) = 1 THEN "idle" ELSE "next"]
    /\ batch' = [batch EXCEPT ![w] = Tail(@)]
    /\ answer' = [answer EXCEPT ![w] = a]
    /\ Leave(w)
    /\ UNCHANGED begun

\* The next operation starts; _put reads the clock first.
Start(w) ==
    /\ pc[w] = "next"
    /\ Goto(w, Op(w).op)
    /\ \E t \in (IF Op(w).op = "put" THEN Time ELSE {0}) :
          now' = [now EXCEPT ![w] = t] /\ created' = [created EXCEPT ![w] = t]
    /\ alone' = [alone EXCEPT ![w] = TRUE] /\ missed' = [missed EXCEPT ![w] = FALSE]
    /\ past' = [past EXCEPT ![w] = {<<p, entries[p]>> : p \in Touches(Op(w))}]
    /\ UNCHANGED <<entries, rows, found, items>>

\* The object at p becomes obj; by is who does it.
SetEntry(by, p, obj) ==
    /\ entries' = [entries EXCEPT ![p] = obj]
    /\ alone' = [w \in Workers |->
                   alone[w] /\ (w = by \/ pc[w] \in {"idle", "next"} \/ p \notin Touches(Op(w)))]
    /\ past' = [w \in Workers |->
                  IF pc[w] \in {"search", "fetch"} THEN past[w] \cup {<<p, obj>>} ELSE past[w]]

\* _get of a graph: whatever memory.get raises, the answer is None; what is no
\* JSON raises (see Raise).
Get(w) ==
    /\ pc[w] = "get"
    /\ \E a \in {entries[Op(w).path], None} : a # Text /\ Answer(w, << <<Op(w).path, a>> >>)
    /\ Forget(w) /\ UNCHANGED <<entries, rows>>

\* Mutant: created_at becomes the time of the last update.
ReadUpdated(w) ==
    /\ pc[w] = "put"
    /\ entries[Op(w).path] # Text
    /\ IF entries[Op(w).path] = None
       THEN UNCHANGED created
       ELSE created' = [created EXCEPT ![w] = entries[Op(w).path].updated]
    /\ Goto(w, "write")
    /\ UNCHANGED <<entries, rows, now, found, items, alone, missed, past>>

\* _get in _put: the creation time is taken over ...
ReadExisting(w) ==
    /\ pc[w] = "put"
    /\ entries[Op(w).path] # Text
    /\ IF entries[Op(w).path] = None
       THEN UNCHANGED created
       ELSE created' = [created EXCEPT ![w] = entries[Op(w).path].created]
    /\ Goto(w, "write")
    /\ UNCHANGED <<entries, rows, now, found, items, alone, missed, past>>

\* ... unless the read raises, which is a miss to _get.
MissExisting(w) ==
    /\ pc[w] = "put"
    /\ missed' = [missed EXCEPT ![w] = TRUE]
    /\ Goto(w, "write")
    /\ UNCHANGED <<entries, rows, now, created, found, items, alone, past>>

NewEntry(w) == [value |-> Op(w).value, created |-> created[w], updated |-> now[w]]

\* memory.put: the object ...
WriteEntry(w) ==
    /\ pc[w] = "write"
    /\ SetEntry(w, Op(w).path, NewEntry(w))
    /\ IF Op(w).index /\ Embeds THEN Goto(w, "vector") /\ UNCHANGED locals ELSE Answer(w, << >>)
    /\ UNCHANGED <<rows, missed>>

\* ... and the vector, which carries it.
WriteVector(w) ==
    /\ pc[w] = "vector"
    /\ rows' = [rows EXCEPT ![Op(w).path] = NewEntry(w)]
    /\ Answer(w, << >>)
    /\ Forget(w) /\ UNCHANGED <<entries>>

\* _put of None is memory.delete: the object ...
RemoveEntry(w) ==
    /\ pc[w] = "delete"
    /\ SetEntry(w, Op(w).path, None)
    /\ IF Embeds THEN Goto(w, "forget") /\ UNCHANGED locals ELSE Answer(w, << >>)
    /\ UNCHANGED <<rows, missed>>

\* ... and the vector.
ForgetVector(w) ==
    /\ pc[w] = "forget"
    /\ rows' = [rows EXCEPT ![Op(w).path] = None]
    /\ Answer(w, << >>)
    /\ Forget(w) /\ UNCHANGED <<entries>>

\* memory.list(prefix): the places of what there is.
ListedPlaces(op) ==
    {i \in DOMAIN Order : entries[Order[i]] # None /\ Listed(op.prefix, Order[i])}

\* Mutant: the page is cut before the filter.
ListPage(w) ==
    /\ pc[w] = "search" /\ ~Op(w).query
    /\ LET op == Op(w)
           before(i) == {j \in ListedPlaces(op) : j < i}
       IN  found' = [found EXCEPT ![w] =
               {i \in ListedPlaces(op) :
                   Cardinality(before(i)) \in op.offset..(op.offset + op.limit - 1)}]
    /\ Goto(w, "fetch")
    /\ UNCHANGED <<entries, rows, now, created, items, alone, missed, past>>

\* _search without a query lists the paths ...
ListPaths(w) ==
    /\ pc[w] = "search" /\ ~Op(w).query
    /\ found' = [found EXCEPT ![w] = ListedPlaces(Op(w))]
    /\ Goto(w, "fetch")
    /\ UNCHANGED <<entries, rows, now, created, items, alone, missed, past>>

\* ... and reads those that split one by one; a path that is gone raises.
FetchItem(w) ==
    /\ pc[w] = "fetch"
    /\ \E i \in found[w] :
         LET p == Order[i] IN
         /\ \A j \in found[w] : i <= j
         /\ Splits(p) => entries[p] # None
         /\ items' = [items EXCEPT ![w] =
                        IF Splits(p) /\ Selects(Op(w), entries[p])
                        THEN Append(@, <<p, entries[p]>>) ELSE @]
         /\ found' = [found EXCEPT ![w] = @ \ {i}]
    /\ Goto(w, "fetch")
    /\ UNCHANGED <<entries, rows, now, created, alone, missed, past>>

ReturnItems(w) ==
    /\ pc[w] = "fetch" /\ found[w] = {}
    /\ Answer(w, Page(items[w], Op(w)))
    /\ Forget(w) /\ UNCHANGED <<entries, rows>>

\* memory.search: the nearest k rows, in an order that is left open.
Nearest(k) ==
    LET hits == {p \in Paths : rows[p] # None}
    IN  UNION {SetToSeqs(h) : h \in {h \in SUBSET hits :
                   Cardinality(h) = (IF k < Cardinality(hits) THEN k ELSE Cardinality(hits))}}

\* _search with a query fetches four times what is asked for and filters.
SearchVectors(w) ==
    /\ pc[w] = "search" /\ Op(w).query /\ Embeds
    /\ LET op == Op(w)
           k  == IF op.limit + op.offset = 0 THEN 10 ELSE (op.limit + op.offset) * 4
       IN  \E hits \in Nearest(k) :
             LET kept == SelectSeq(hits, LAMBDA p : Under(op.prefix, p) /\ Splits(p)
                                                                      /\ Selects(op, rows[p]))
             IN  Answer(w, Page([i \in 1..Len(kept) |-> <<kept[i], rows[kept[i]]>>], op))
    /\ Forget(w) /\ UNCHANGED <<entries, rows>>

\* _list_namespaces; sorting is left out, so it is left open which come first.
ListNamespaces(w) ==
    /\ pc[w] = "namespaces"
    /\ LET op      == Op(w)
           seen    == {Truncate(Namespace(p), op) :
                          p \in {q \in Paths : entries[q] # None /\ Splits(q)}}
           matched == {ns \in seen : Matches(ns, op)}
       IN  \E sorted \in SetToSeqs(matched) :
             LET page == Page(sorted, op)
             IN  Answer(w, [i \in DOMAIN page |-> <<page[i], None>>])
    /\ Forget(w) /\ UNCHANGED <<entries, rows>>

\* A request fails, a path does not pass _check_segments, what is read is no
\* JSON, or the process stops: the rest of the batch is not run.
Raise(w) ==
    /\ pc[w] # "idle"
    /\ pc' = [pc EXCEPT ![w] = "idle"] /\ batch' = [batch EXCEPT ![w] = << >>]
    /\ answer' = [answer EXCEPT ![w] = Error]
    /\ Leave(w)
    /\ Forget(w) /\ UNCHANGED <<entries, rows, begun>>

\* Another user of the MemoryStore puts a text that is no envelope.
PutText ==
    /\ begun < MaxBatches /\ begun' = begun + 1
    /\ \E p \in Paths : SetEntry(None, p, Text)
    /\ UNCHANGED <<rows, pc, batch, locals, answer, missed>>

Step(w) ==
    \/ Start(w) \/ Get(w) \/ ReadExisting(w) \/ MissExisting(w) \/ WriteEntry(w)
    \/ WriteVector(w) \/ RemoveEntry(w) \/ ForgetVector(w) \/ ListPaths(w) \/ FetchItem(w)
    \/ ReturnItems(w) \/ SearchVectors(w) \/ ListNamespaces(w) \/ Raise(w)

AllIdle == (\A w \in Workers : pc[w] = "idle") /\ begun = MaxBatches /\ UNCHANGED vars

Next == PutText \/ AllIdle \/ \E w \in Workers : Begin(w) \/ Step(w)

Spec == Init /\ [][Next]_vars

-----------------------------------------------------------------------------
ItemsOK ==
    /\ entries \in [Paths -> Envelope \cup {None, Text}]
    /\ rows \in [Paths -> Envelope \cup {None}]

WorkersOK ==
    /\ pc \in [Workers -> {"idle", "next", "get", "put", "write", "vector", "delete", "forget",
                           "search", "fetch", "namespaces"}]
    /\ batch \in [Workers -> Seq(Operations)] /\ answer = [w \in Workers |-> answer[w]]
    /\ now \in [Workers -> Time] /\ created \in [Workers -> Time]
    /\ found \in [Workers -> SUBSET DOMAIN Order]
    /\ items \in [Workers -> Seq(Paths \X Envelope)]

HistoryOK ==
    /\ alone \in [Workers -> BOOLEAN] /\ missed \in [Workers -> BOOLEAN]
    /\ past \in [Workers -> SUBSET (Paths \X (Envelope \cup {None, Text}))]

TypeOK == ItemsOK /\ WorkersOK /\ HistoryOK

\* A worker is where its operation takes it, and has locals only in a search.
InPlace(w) ==
    /\ batch[w] = << >> <=> pc[w] = "idle"
    /\ pc[w] \in {"put", "write", "vector"} => Op(w).op = "put"
    /\ pc[w] \in {"delete", "forget"} => Op(w).op = "delete"
    /\ pc[w] \in {"search", "fetch"} => Op(w).op = "search"
    /\ pc[w] \in {"get", "namespaces"} => Op(w).op = pc[w]
    /\ pc[w] # "fetch" => found[w] = {} /\ items[w] = << >>

\* A put that nobody disturbs works on the item that was there when it began.
Undisturbed(w) ==
    alone[w] =>
        /\ pc[w] = "put" =>
              past[w] = {<<Op(w).path, entries[Op(w).path]>>} /\ created[w] = now[w]
        /\ pc[w] \in {"write", "vector"} /\ ~missed[w] =>
              \A old \in past[w] :
                 created[w] = IF old[2] = None THEN now[w] ELSE old[2].created
        /\ pc[w] = "vector" => entries[Op(w).path] = NewEntry(w)

\* w's search has to return the object at p: it was there, and was wanted, all the
\* time.
Wanted(w, p) ==
    /\ Splits(p) /\ Under(Op(w).prefix, p)
    /\ \A was \in past[w] : was[1] = p => Selects(Op(w), was[2])

\* A search has seen what there is, has found what it knows, and what is wanted is
\* found or still to be looked at.
Searching(w) ==
    /\ pc[w] \in {"search", "fetch"} => \A p \in Paths : <<p, entries[p]>> \in past[w]
    /\ pc[w] = "fetch" =>
          /\ \A i \in DOMAIN items[w] : items[w][i] \in past[w]
          /\ \A p \in Paths : Wanted(w, p) =>
                \/ \E i \in found[w] : Order[i] = p
                \/ \E i \in DOMAIN items[w] : items[w][i][1] = p

\* The inductive invariant.
StoreInv ==
    /\ TypeOK
    /\ \A w \in Workers : InPlace(w) /\ Undisturbed(w) /\ Searching(w)

\* w's operation returns in this step.
Returns(w, op) ==
    /\ pc[w] \notin {"idle", "next"} /\ pc'[w] \in {"idle", "next"} /\ answer'[w] # Error
    /\ Op(w).op = op

KeepsCreated(w) ==
    Returns(w, "put") /\ alone[w] /\ ~missed[w] =>
        LET new == entries'[Op(w).path] IN
        /\ new.value = Op(w).value
        /\ \A old \in past[w] :
              new.created = IF old[2] = None THEN new.updated ELSE old[2].created
        /\ Op(w).index /\ Embeds => rows'[Op(w).path] = new

\* "Timestamps round-trip through the stored envelope rather than being invented"
\* (test_langgraph.py:103): a put that nobody disturbs, and whose read comes
\* through, keeps the creation time of the item it replaces, and a new item is created
\* when it is updated; the index carries the object.
PutKeepsCreated == [][\A w \in Workers : KeepsCreated(w)]_vars

ReturnsFresh(w) ==
    pc[w] = "fetch" /\ Returns(w, "search") =>
        LET got == {answer'[w][i] : i \in DOMAIN answer'[w]} IN
        /\ got \subseteq past[w]
        /\ Len(answer'[w]) < Op(w).limit /\ Op(w).offset = 0 =>
             \A p \in Paths : Wanted(w, p) => \E item \in got : item[1] = p

\* A search that lists first and reads later returns objects that were there
\* while it ran, and a page that is not full misses none of the namespace that
\* was there, and was wanted, all the time.
SearchesAreFresh == [][\A w \in Workers : ReturnsFresh(w)]_vars
=============================================================================
