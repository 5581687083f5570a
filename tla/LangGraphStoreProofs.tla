------------------------ MODULE LangGraphStoreProofs ------------------------
(***************************************************************************)
(* The theorems about LangGraphStore, for any workers, values, paths,      *)
(* batches and any bounds.                                                 *)
(***************************************************************************)
EXTENDS LangGraphStore, SequenceTheorems, TLAPS

USE DEF Time

\* What a worker holds of its own.
Same(u) ==
    /\ pc'[u] = pc[u] /\ batch'[u] = batch[u] /\ now'[u] = now[u]
    /\ created'[u] = created[u] /\ found'[u] = found[u] /\ items'[u] = items[u]

\* w's operation is over.
Over(w) ==
    /\ pc'[w] \in {"idle", "next"} /\ now'[w] = 0 /\ created'[w] = 0
    /\ InPlace(w)' /\ \A u \in Workers \ {w} : Same(u)

\* The history of an operation of another worker is not touched.
Untouched(u) == alone'[u] = alone[u] /\ missed'[u] = missed[u] /\ past'[u] = past[u]

-----------------------------------------------------------------------------
\* The operation a worker is at.
LEMMA OpTyped ==
    ASSUME StoreInv, NEW w \in Workers, pc[w] # "idle"
    PROVE  Op(w) \in Operations /\ batch[w] \in Seq(Operations) /\ batch[w] # << >>
<1>1. batch[w] \in Seq(Operations) /\ batch[w] # << >>
  BY DEF StoreInv, TypeOK, WorkersOK, InPlace
<1> QED
  BY <1>1, HeadTailProperties DEF Op

\* The fields of an operation.
LEMMA OpFields ==
    ASSUME NEW op \in Operations
    PROVE  /\ op.op \in {"get", "put", "delete", "search", "namespaces"}
           /\ op.op \in {"get", "put", "delete"} => op.path \in Paths /\ Touches(op) = {op.path}
           /\ op.op = "put" => op.value \in Values /\ op.index \in BOOLEAN
           /\ op.op = "search" =>
                 /\ op.prefix \in Seq(Segments) /\ op.limit \in Nat /\ op.offset \in Nat
                 /\ op.values \subseteq Values
           /\ op.op \in {"search", "namespaces"} => Touches(op) = Paths
           /\ Touches(op) \subseteq Paths
  BY DEF Operations, Touches

\* An operation returns: the worker is at the next one, or the batch is over.
LEMMA AnswerOver ==
    ASSUME StoreInv, NEW w \in Workers, pc[w] # "idle", NEW a, Answer(w, a)
    PROVE  WorkersOK' /\ Over(w)
<1>1. batch[w] \in Seq(Operations) /\ batch[w] # << >>
  BY OpTyped
<1>2. /\ Tail(batch[w]) \in Seq(Operations)
      /\ Len(batch[w]) = 1 <=> Tail(batch[w]) = << >>
  <2>1. Tail(batch[w]) \in Seq(Operations) /\ Len(Tail(batch[w])) = Len(batch[w]) - 1
    BY <1>1, HeadTailProperties
  <2>2. Len(Tail(batch[w])) = 0 <=> Tail(batch[w]) = << >>
    BY <2>1, EmptySeq
  <2>3. Len(batch[w]) \in Nat
    BY <1>1, LenProperties
  <2> QED
    BY <2>1, <2>2, <2>3
<1>3. /\ pc' = [pc EXCEPT ![w] = IF Len(batch[w]) = 1 THEN "idle" ELSE "next"]
      /\ batch' = [batch EXCEPT ![w] = Tail(batch[w])]
      /\ answer' = [answer EXCEPT ![w] = a]
      /\ now' = [now EXCEPT ![w] = 0] /\ created' = [created EXCEPT ![w] = 0]
      /\ found' = [found EXCEPT ![w] = {}] /\ items' = [items EXCEPT ![w] = << >>]
  BY DEF Answer, Leave
<1>4. WorkersOK'
  <2> USE DEF StoreInv, TypeOK, WorkersOK
  <2>1. << >> \in Seq(Paths \X Envelope) /\ 0 \in Time
    BY StoreAssumption
  <2>2. pc' \in [Workers -> {"idle", "next", "get", "put", "write", "vector", "delete",
                            "forget", "search", "fetch", "namespaces"}]
    BY <1>3
  <2>3. batch' \in [Workers -> Seq(Operations)]
    BY <1>2, <1>3
  <2>4. answer' = [u \in Workers |-> answer'[u]]
    BY <1>3
  <2>5. now' \in [Workers -> Time] /\ created' \in [Workers -> Time]
    BY <1>3, <2>1
  <2>6. found' \in [Workers -> SUBSET DOMAIN Order]
    BY <1>3
  <2>7. items' \in [Workers -> Seq(Paths \X Envelope)]
    BY <1>3, <2>1
  <2> QED
    BY <2>2, <2>3, <2>4, <2>5, <2>6, <2>7
<1>5. /\ pc'[w] = IF Len(batch[w]) = 1 THEN "idle" ELSE "next"
      /\ batch'[w] = Tail(batch[w]) /\ now'[w] = 0 /\ created'[w] = 0
      /\ found'[w] = {} /\ items'[w] = << >>
  BY <1>3 DEF StoreInv, TypeOK, WorkersOK
<1>6. InPlace(w)'
  BY <1>2, <1>5 DEF InPlace
<1>7. \A u \in Workers \ {w} : Same(u)
  BY <1>3 DEF Same, StoreInv, TypeOK, WorkersOK
<1> QED
  BY <1>4, <1>5, <1>6, <1>7 DEF Over

\* A worker that is left alone stays where it is.
LEMMA SameInPlace ==
    ASSUME NEW u \in Workers, InPlace(u), Same(u)
    PROVE  InPlace(u)'
  BY DEF InPlace, Same, Op

\* The parts of the invariant about another worker hold while the items stay.
LEMMA OthersStay ==
    ASSUME NEW u \in Workers, Undisturbed(u), Searching(u), Same(u), Untouched(u),
           entries' = entries
    PROVE  Undisturbed(u)' /\ Searching(u)'
<1>1. Undisturbed(u)'
  BY DEF Undisturbed, Same, Untouched, Op, NewEntry
<1>2. Searching(u)'
  BY DEF Searching, Wanted, Same, Untouched, Op
<1> QED
  BY <1>1, <1>2

\* A worker between two operations.
LEMMA RestingInv ==
    ASSUME NEW w \in Workers, pc'[w] \in {"idle", "next"}
    PROVE  Undisturbed(w)' /\ Searching(w)'
  BY DEF Undisturbed, Searching

-----------------------------------------------------------------------------
\* An operation that ends and leaves the items as they are.
LEMMA EndInv ==
    ASSUME StoreInv, NEW w \in Workers, Forget(w), UNCHANGED <<entries>>,
           WorkersOK', Over(w), ItemsOK'
    PROVE  StoreInv'
<1>1. HistoryOK' /\ \A u \in Workers \ {w} : Untouched(u)
  BY DEF Forget, StoreInv, TypeOK, HistoryOK, Untouched
<1>3. ASSUME NEW u \in Workers PROVE InPlace(u)' /\ Undisturbed(u)' /\ Searching(u)'
  <2>1. CASE u = w
    BY <2>1, RestingInv DEF Over
  <2>2. CASE u # w
    BY <1>1, <2>2, SameInPlace, OthersStay DEF Over, StoreInv
  <2> QED
    BY <2>1, <2>2
<1> QED
  BY <1>1, <1>3 DEF StoreInv, TypeOK

\* Get, ReturnItems, SearchVectors and ListNamespaces: an answer, and nothing else.
LEMMA AnswerInv ==
    ASSUME StoreInv, NEW w \in Workers, pc[w] # "idle", NEW a, Answer(w, a),
           Forget(w), UNCHANGED <<entries, rows>>
    PROVE  StoreInv'
<1>1. ItemsOK'
  BY DEF StoreInv, TypeOK, ItemsOK
<1> QED
  BY <1>1, AnswerOver, EndInv

LEMMA NewEntryTyped ==
    ASSUME StoreInv, NEW w \in Workers, pc[w] \in {"write", "vector"}
    PROVE  /\ NewEntry(w) \in Envelope /\ Op(w).path \in Paths
           /\ NewEntry(w).created = created[w] /\ NewEntry(w).updated = now[w]
           /\ NewEntry(w).value = Op(w).value
<1>1. Op(w).path \in Paths /\ Op(w).value \in Values
  BY OpTyped, OpFields DEF StoreInv, InPlace
<1> QED
  BY <1>1 DEF NewEntry, Envelope, StoreInv, TypeOK, WorkersOK

LEMMA WriteVectorInv ==
    ASSUME StoreInv, NEW w \in Workers, WriteVector(w)
    PROVE  StoreInv'
<1>1. NewEntry(w) \in Envelope
  BY NewEntryTyped DEF WriteVector
<1>2. ItemsOK'
  BY <1>1 DEF WriteVector, StoreInv, TypeOK, ItemsOK
<1> QED
  BY <1>2, AnswerOver, EndInv DEF WriteVector

LEMMA ForgetVectorInv ==
    ASSUME StoreInv, NEW w \in Workers, ForgetVector(w)
    PROVE  StoreInv'
<1>1. ItemsOK'
  BY DEF ForgetVector, StoreInv, TypeOK, ItemsOK
<1> QED
  BY <1>1, AnswerOver, EndInv DEF ForgetVector

LEMMA RaiseInv ==
    ASSUME StoreInv, NEW w \in Workers, Raise(w)
    PROVE  StoreInv'
<1>1. /\ pc' = [pc EXCEPT ![w] = "idle"] /\ batch' = [batch EXCEPT ![w] = << >>]
      /\ answer' = [answer EXCEPT ![w] = Error]
      /\ now' = [now EXCEPT ![w] = 0] /\ created' = [created EXCEPT ![w] = 0]
      /\ found' = [found EXCEPT ![w] = {}] /\ items' = [items EXCEPT ![w] = << >>]
      /\ UNCHANGED <<entries, rows>> /\ Forget(w)
  BY DEF Raise, Leave
<1>2. WorkersOK'
  <2> USE DEF StoreInv, TypeOK, WorkersOK
  <2>1. /\ << >> \in Seq(Paths \X Envelope) /\ << >> \in Seq(Operations) /\ 0 \in Time
        /\ {} \in SUBSET DOMAIN Order
    BY StoreAssumption
  <2>2. /\ batch' \in [Workers -> Seq(Operations)]
        /\ items' \in [Workers -> Seq(Paths \X Envelope)]
        /\ found' \in [Workers -> SUBSET DOMAIN Order]
    BY <1>1, <2>1
  <2>3. /\ now' \in [Workers -> Time] /\ created' \in [Workers -> Time]
        /\ answer' = [u \in Workers |-> answer'[u]]
    BY <1>1, <2>1
  <2>4. pc' \in [Workers -> {"idle", "next", "get", "put", "write", "vector", "delete",
                            "forget", "search", "fetch", "namespaces"}]
    BY <1>1
  <2> QED
    BY <2>2, <2>3, <2>4
<1>3. Over(w)
  BY <1>1 DEF Over, Same, InPlace, StoreInv, TypeOK, WorkersOK
<1>4. ItemsOK'
  BY <1>1 DEF StoreInv, TypeOK, ItemsOK
<1> QED
  BY <1>1, <1>2, <1>3, <1>4, EndInv

-----------------------------------------------------------------------------
\* A step inside an operation that leaves the items as they are: what is left to
\* show is about w.
LEMMA InsideInv ==
    ASSUME StoreInv, NEW w \in Workers, UNCHANGED <<entries, rows>>,
           WorkersOK', HistoryOK', InPlace(w)', Undisturbed(w)', Searching(w)',
           \A u \in Workers \ {w} : Same(u) /\ Untouched(u)
    PROVE  StoreInv'
<1>1. ItemsOK'
  BY DEF StoreInv, TypeOK, ItemsOK
<1>3. ASSUME NEW u \in Workers \ {w} PROVE InPlace(u)' /\ Undisturbed(u)' /\ Searching(u)'
  BY SameInPlace, OthersStay DEF StoreInv
<1> QED
  BY <1>1, <1>3 DEF StoreInv, TypeOK

LEMMA BeginInv ==
    ASSUME StoreInv, NEW w \in Workers, Begin(w)
    PROVE  StoreInv'
<1>1. PICK b \in Batches : batch' = [batch EXCEPT ![w] = b]
  BY DEF Begin
<1>2. /\ pc[w] = "idle" /\ pc' = [pc EXCEPT ![w] = "next"]
      /\ answer' = [answer EXCEPT ![w] = << >>]
      /\ UNCHANGED <<entries, rows, now, created, found, items, alone, missed, past>>
  BY DEF Begin, locals, history
<1>3. b \in Seq(Operations) /\ b # << >>
  BY StoreAssumption
<1>4. WorkersOK' /\ HistoryOK'
  BY <1>1, <1>2, <1>3 DEF StoreInv, TypeOK, WorkersOK, HistoryOK
<1>5. pc'[w] = "next" /\ batch'[w] = b
  BY <1>1, <1>2 DEF StoreInv, TypeOK, WorkersOK
<1>6. InPlace(w)' /\ Undisturbed(w)' /\ Searching(w)'
  BY <1>2, <1>3, <1>5, RestingInv DEF InPlace, StoreInv
<1>7. \A u \in Workers \ {w} : Same(u) /\ Untouched(u)
  BY <1>1, <1>2 DEF Same, Untouched, StoreInv, TypeOK, WorkersOK
<1> QED
  BY <1>2, <1>4, <1>6, <1>7, InsideInv

LEMMA StartInv ==
    ASSUME StoreInv, NEW w \in Workers, Start(w)
    PROVE  StoreInv'
<1>0. PICK t \in (IF Op(w).op = "put" THEN Time ELSE {0}) :
        now' = [now EXCEPT ![w] = t] /\ created' = [created EXCEPT ![w] = t]
  BY DEF Start
<1>1. /\ pc[w] = "next" /\ pc' = [pc EXCEPT ![w] = Op(w).op]
      /\ now' = [now EXCEPT ![w] = t] /\ created' = [created EXCEPT ![w] = t]
      /\ alone' = [alone EXCEPT ![w] = TRUE] /\ missed' = [missed EXCEPT ![w] = FALSE]
      /\ past' = [past EXCEPT ![w] = {<<p, entries[p]>> : p \in Touches(Op(w))}]
      /\ UNCHANGED <<batch, answer, entries, rows, found, items>>
  BY <1>0 DEF Start, Goto
<1>2. Op(w) \in Operations /\ batch[w] # << >>
  BY <1>1, OpTyped
<1>3. /\ Op(w).op \in {"get", "put", "delete", "search", "namespaces"}
      /\ Touches(Op(w)) \subseteq Paths
      /\ Op(w).op = "put" => Op(w).path \in Paths /\ Touches(Op(w)) = {Op(w).path}
      /\ Op(w).op = "search" => Touches(Op(w)) = Paths
  BY <1>2, OpFields
<1>4. WorkersOK'
  <2>1. t \in Time
    BY StoreAssumption
  <2> QED
    BY <1>1, <1>3, <2>1 DEF StoreInv, TypeOK, WorkersOK
<1>5. HistoryOK'
  <2>1. {<<p, entries[p]>> : p \in Touches(Op(w))} \subseteq Paths \X (Envelope \cup {None, Text})
    BY <1>3 DEF StoreInv, TypeOK, ItemsOK
  <2> QED
    BY <1>1, <2>1 DEF StoreInv, TypeOK, HistoryOK
<1>6. /\ pc'[w] = Op(w).op /\ now'[w] = t /\ created'[w] = t /\ batch'[w] = batch[w]
      /\ past'[w] = {<<p, entries[p]>> : p \in Touches(Op(w))}
  BY <1>1 DEF StoreInv, TypeOK, WorkersOK, HistoryOK
<1>7. InPlace(w)'
  BY <1>1, <1>2, <1>3, <1>6 DEF InPlace, Op, StoreInv
<1>8. Undisturbed(w)'
  <2>1. Op(w)' = Op(w) /\ entries' = entries
    BY <1>1 DEF Op
  <2>2. CASE Op(w).op = "put"
    <3>1. past'[w] = {<<Op(w).path, entries[Op(w).path]>>}
      BY <1>3, <1>6, <2>2
    <3> QED
      BY <1>6, <2>1, <2>2, <3>1 DEF Undisturbed
  <2>3. CASE Op(w).op # "put"
    BY <1>3, <1>6, <2>3 DEF Undisturbed
  <2> QED
    BY <2>2, <2>3
<1>9. Searching(w)'
  <2>1. pc'[w] # "fetch" /\ (pc'[w] = "search" => Touches(Op(w)) = Paths)
    BY <1>3, <1>6
  <2> QED
    BY <1>1, <1>6, <2>1 DEF Searching
<1>10. \A u \in Workers \ {w} : Same(u) /\ Untouched(u)
  BY <1>1 DEF Same, Untouched, StoreInv, TypeOK, WorkersOK, HistoryOK
<1> QED
  BY <1>1, <1>4, <1>5, <1>7, <1>8, <1>9, <1>10, InsideInv

\* The item that a put reads is the one that was there when it began, if nobody disturbs it.
LEMMA ReadExistingInv ==
    ASSUME StoreInv, NEW w \in Workers, ReadExisting(w)
    PROVE  StoreInv'
<1> DEFINE old == entries[Op(w).path]
<1>1. /\ pc[w] = "put" /\ pc' = [pc EXCEPT ![w] = "write"] /\ old # Text
      /\ IF old = None THEN created' = created ELSE created' = [created EXCEPT ![w] = old.created]
      /\ UNCHANGED <<batch, answer, entries, rows, now, found, items, alone, missed, past>>
  BY DEF ReadExisting, Goto
<1>2. Op(w).op = "put" /\ Op(w).path \in Paths
  BY <1>1, OpTyped, OpFields DEF StoreInv, InPlace
<1>3. old = None \/ old \in Envelope
  BY <1>1, <1>2 DEF StoreInv, TypeOK, ItemsOK
<1>4. old # None => old.created \in Time
  BY <1>3 DEF Envelope
<1>5. /\ pc'[w] = "write" /\ created'[w] = IF old = None THEN created[w] ELSE old.created
      /\ created' \in [Workers -> Time]
  BY <1>1, <1>4 DEF StoreInv, TypeOK, WorkersOK
<1>6. WorkersOK' /\ HistoryOK'
  BY <1>1, <1>5 DEF StoreInv, TypeOK, WorkersOK, HistoryOK
<1>7. InPlace(w)'
  BY <1>1, <1>2, <1>5 DEF InPlace, Op, StoreInv
<1>8. Undisturbed(w)'
  <2>1. CASE alone[w]
    <3>1. past[w] = {<<Op(w).path, old>>} /\ created[w] = now[w]
      BY <1>1, <2>1 DEF StoreInv, Undisturbed
    <3>2. \A o \in past[w] : created'[w] = IF o[2] = None THEN now[w] ELSE o[2].created
      BY <1>5, <3>1
    <3> QED
      BY <1>1, <1>5, <3>2 DEF Undisturbed
  <2>2. CASE ~alone[w]
    BY <1>1, <2>2 DEF Undisturbed
  <2> QED
    BY <2>1, <2>2
<1>9. Searching(w)'
  BY <1>5 DEF Searching
<1>10. \A u \in Workers \ {w} : Same(u) /\ Untouched(u)
  BY <1>1 DEF Same, Untouched, StoreInv, TypeOK, WorkersOK
<1> QED
  BY <1>1, <1>6, <1>7, <1>8, <1>9, <1>10, InsideInv

LEMMA MissExistingInv ==
    ASSUME StoreInv, NEW w \in Workers, MissExisting(w)
    PROVE  StoreInv'
<1>1. /\ pc[w] = "put" /\ pc' = [pc EXCEPT ![w] = "write"]
      /\ missed' = [missed EXCEPT ![w] = TRUE]
      /\ UNCHANGED <<batch, answer, entries, rows, now, created, found, items, alone, past>>
  BY DEF MissExisting, Goto
<1>2. pc'[w] = "write" /\ missed'[w]
  BY <1>1 DEF StoreInv, TypeOK, WorkersOK, HistoryOK
<1>3. WorkersOK' /\ HistoryOK'
  BY <1>1 DEF StoreInv, TypeOK, WorkersOK, HistoryOK
<1>4. InPlace(w)'
  BY <1>1, <1>2 DEF InPlace, Op, StoreInv
<1>5. Undisturbed(w)'
  BY <1>1, <1>2 DEF Undisturbed
<1>6. Searching(w)'
  BY <1>2 DEF Searching
<1>7. \A u \in Workers \ {w} : Same(u) /\ Untouched(u)
  BY <1>1 DEF Same, Untouched, StoreInv, TypeOK, WorkersOK, HistoryOK
<1> QED
  BY <1>1, <1>3, <1>4, <1>5, <1>6, <1>7, InsideInv

\* list compares strings, so it finds all that is in the namespace, and may find
\* more.
LEMMA UnderIsListed ==
    ASSUME NEW prefix \in Seq(Segments), NEW p \in Seq(Segments), Under(prefix, p)
    PROVE  Listed(prefix, p)
<1>1. /\ Len(prefix) \in Nat /\ Len(p) \in Nat /\ Len(prefix) <= Len(p)
      /\ SubSeq(prefix, 1, Len(prefix)) = SubSeq(p, 1, Len(prefix))
  BY LenProperties DEF Under, IsStrictPrefix, IsPrefix
<1>2. SUFFICES ASSUME prefix # << >> PROVE Listed(prefix, p)
  BY DEF Listed
<1>3. Len(prefix) \in 1..Len(p)
  BY <1>1, <1>2, EmptySeq
<1> DEFINE n == Len(prefix)
<1>4. \A i \in 1..n : prefix[i] = p[i]
  <2>1. \A i \in 1..n : SubSeq(prefix, 1, n)[i] = prefix[i]
    <3>1. SubSeq(prefix, 1, n) = prefix
      BY SubSeqFull
    <3> QED
      BY <3>1
  <2>2. \A i \in 1..n : SubSeq(p, 1, n)[i] = p[i]
    <3>1. \A i \in 1..n : p[i] \in Segments
      BY <1>3, ElementOfSeq
    <3> QED
      BY <1>3, <3>1, SubSeqProperties
  <2> QED
    BY <1>1, <2>1, <2>2
<1>5. Last(prefix) = p[n]
  BY <1>3, <1>4 DEF Last
<1>6. Front(prefix) = SubSeq(p, 1, n - 1)
  <2>1. \A i \in 1..(n - 1) : prefix[i] \in Segments /\ p[i] \in Segments /\ prefix[i] = p[i]
    BY <1>3, <1>4, ElementOfSeq
  <2>2. /\ SubSeq(prefix, 1, n - 1) \in Seq(Segments) /\ SubSeq(p, 1, n - 1) \in Seq(Segments)
        /\ Len(SubSeq(prefix, 1, n - 1)) = n - 1 /\ Len(SubSeq(p, 1, n - 1)) = n - 1
        /\ \A i \in 1..(n - 1) : SubSeq(prefix, 1, n - 1)[i] = prefix[i]
        /\ \A i \in 1..(n - 1) : SubSeq(p, 1, n - 1)[i] = p[i]
    <3>1. n - 1 \in Int /\ 1 \in Int /\ n \in Nat /\ n >= 1
      BY <1>3
    <3>2. /\ SubSeq(prefix, 1, n - 1) \in Seq(Segments)
          /\ Len(SubSeq(prefix, 1, n - 1)) = IF 1 <= n - 1 THEN (n - 1) - 1 + 1 ELSE 0
          /\ \A i \in 1..((n - 1) - 1 + 1) : SubSeq(prefix, 1, n - 1)[i] = prefix[1 + i - 1]
      BY <2>1, <3>1, SubSeqProperties
    <3>3. /\ SubSeq(p, 1, n - 1) \in Seq(Segments)
          /\ Len(SubSeq(p, 1, n - 1)) = IF 1 <= n - 1 THEN (n - 1) - 1 + 1 ELSE 0
          /\ \A i \in 1..((n - 1) - 1 + 1) : SubSeq(p, 1, n - 1)[i] = p[1 + i - 1]
      BY <2>1, <3>1, SubSeqProperties
    <3>4. \A k \in Nat : k >= 1 =>
            /\ (k - 1) - 1 + 1 = k - 1 /\ (IF 1 <= k - 1 THEN (k - 1) - 1 + 1 ELSE 0) = k - 1
            /\ \A i \in 1..(k - 1) : 1 + i - 1 = i
      OBVIOUS
    <3> HIDE DEF n
    <3>5. Len(SubSeq(prefix, 1, n - 1)) = n - 1 /\ Len(SubSeq(p, 1, n - 1)) = n - 1
      BY <3>1, <3>2, <3>3, <3>4
    <3>6. /\ \A i \in 1..(n - 1) : SubSeq(prefix, 1, n - 1)[i] = prefix[i]
          /\ \A i \in 1..(n - 1) : SubSeq(p, 1, n - 1)[i] = p[i]
      BY <3>1, <3>2, <3>3, <3>4
    <3> QED
      BY <3>2, <3>3, <3>5, <3>6
  <2>3. SubSeq(prefix, 1, n - 1) = SubSeq(p, 1, n - 1)
    <3> DEFINE a == SubSeq(prefix, 1, n - 1)
               b == SubSeq(p, 1, n - 1)
    <3>1. a \in Seq(Segments) /\ b \in Seq(Segments) /\ Len(a) = Len(b)
          /\ \A i \in 1..Len(a) : a[i] = b[i]
      BY <2>1, <2>2
    <3> HIDE DEF a, b
    <3>2. a = b
      BY <3>1, SeqEqual
    <3> QED
      BY <3>2 DEF a, b
  <2> QED
    BY <2>3 DEF Front
<1> QED
  BY <1>1, <1>5, <1>6 DEF Listed

\* Each path is somewhere in Order, and is a sequence of segments.
LEMMA PathsTyped ==
    /\ \A p \in Paths : p \in Seq(Segments) /\ \E i \in DOMAIN Order : Order[i] = p
    /\ \A i \in DOMAIN Order : Order[i] \in Paths
<1>1. DOMAIN Order = 1..Len(Order)
  BY StoreAssumption, LenProperties
<1>2. \A i \in 1..Len(Order) : Order[i] \in Seq(Segments)
  BY StoreAssumption, ElementOfSeq
<1> QED
  BY <1>1, <1>2 DEF Paths

LEMMA ListPathsInv ==
    ASSUME StoreInv, NEW w \in Workers, ListPaths(w)
    PROVE  StoreInv'
<1>1. /\ pc[w] = "search" /\ pc' = [pc EXCEPT ![w] = "fetch"]
      /\ found' = [found EXCEPT ![w] = ListedPlaces(Op(w))]
      /\ UNCHANGED <<batch, answer, entries, rows, now, created, items, alone, missed, past>>
  BY DEF ListPaths, Goto
<1>2. ListedPlaces(Op(w)) \subseteq DOMAIN Order
  BY DEF ListedPlaces
<1>3. pc'[w] = "fetch" /\ found'[w] = ListedPlaces(Op(w))
  BY <1>1 DEF StoreInv, TypeOK, WorkersOK
<1>4. WorkersOK' /\ HistoryOK'
  BY <1>1, <1>2 DEF StoreInv, TypeOK, WorkersOK, HistoryOK
<1>5. Op(w).op = "search" /\ Op(w).prefix \in Seq(Segments)
  BY <1>1, OpTyped, OpFields DEF StoreInv, InPlace
<1>6. InPlace(w)'
  BY <1>1, <1>3, <1>5 DEF InPlace, Op, StoreInv
<1>7. Undisturbed(w)'
  BY <1>3 DEF Undisturbed
<1>8. Searching(w)'
  <2>1. \A p \in Paths : <<p, entries[p]>> \in past[w]
    BY <1>1 DEF StoreInv, Searching
  <2>2. items[w] = << >> /\ DOMAIN items[w] = {}
    BY <1>1 DEF StoreInv, InPlace
  <2>3. ASSUME NEW p \in Paths, Wanted(w, p)
        PROVE  \E i \in ListedPlaces(Op(w)) : Order[i] = p
    <3>1. Selects(Op(w), entries[p])
      BY <2>1, <2>3 DEF Wanted
    <3>2. entries[p] # None
      BY <3>1, StoreAssumption DEF Selects
    <3>3. Listed(Op(w).prefix, p)
      BY <1>5, <2>3, PathsTyped, UnderIsListed DEF Wanted
    <3> QED
      BY <3>2, <3>3, PathsTyped DEF ListedPlaces
  <2>4. \A p \in Paths : Wanted(w, p)' => Wanted(w, p)
    BY <1>1 DEF Wanted, Op
  <2> QED
    BY <1>1, <1>3, <2>1, <2>2, <2>3, <2>4 DEF Searching
<1>9. \A u \in Workers \ {w} : Same(u) /\ Untouched(u)
  BY <1>1 DEF Same, Untouched, StoreInv, TypeOK, WorkersOK
<1> QED
  BY <1>1, <1>4, <1>6, <1>7, <1>8, <1>9, InsideInv

LEMMA FetchItemInv ==
    ASSUME StoreInv, NEW w \in Workers, FetchItem(w)
    PROVE  StoreInv'
<1>1. PICK i \in found[w] :
        /\ pc[w] = "fetch" /\ pc' = [pc EXCEPT ![w] = "fetch"]
        /\ items' = [items EXCEPT ![w] =
                       IF Splits(Order[i]) /\ Selects(Op(w), entries[Order[i]])
                       THEN Append(items[w], <<Order[i], entries[Order[i]]>>) ELSE items[w]]
        /\ found' = [found EXCEPT ![w] = found[w] \ {i}]
        /\ UNCHANGED <<batch, answer, entries, rows, now, created, alone, missed, past>>
  BY DEF FetchItem, Goto
<1> DEFINE p == Order[i]
<1>2. i \in DOMAIN Order /\ p \in Paths
  BY PathsTyped DEF StoreInv, TypeOK, WorkersOK
<1>3. items[w] \in Seq(Paths \X Envelope)
  BY DEF StoreInv, TypeOK, WorkersOK
<1>4. Splits(p) /\ Selects(Op(w), entries[p]) => <<p, entries[p]>> \in Paths \X Envelope
  BY <1>2 DEF Selects
<1>5. /\ pc'[w] = "fetch" /\ found'[w] = found[w] \ {i}
      /\ items'[w] = IF Splits(p) /\ Selects(Op(w), entries[p])
                     THEN Append(items[w], <<p, entries[p]>>) ELSE items[w]
  BY <1>1 DEF StoreInv, TypeOK, WorkersOK
<1>6. /\ items'[w] \in Seq(Paths \X Envelope) /\ Len(items[w]) \in Nat
      /\ DOMAIN items[w] = 1..Len(items[w]) /\ DOMAIN items'[w] = 1..Len(items'[w])
      /\ \A k \in DOMAIN items[w] : k \in DOMAIN items'[w] /\ items'[w][k] = items[w][k]
      /\ \A k \in DOMAIN items'[w] : k \in DOMAIN items[w] \/ items'[w][k] = <<p, entries[p]>>
      /\ Splits(p) /\ Selects(Op(w), entries[p]) =>
            \E k \in DOMAIN items'[w] : items'[w][k] = <<p, entries[p]>>
  <2>1. CASE Splits(p) /\ Selects(Op(w), entries[p])
    <3> DEFINE elt == <<p, entries[p]>>
    <3>1. elt \in Paths \X Envelope /\ items'[w] = Append(items[w], elt)
      BY <1>4, <1>5, <2>1
    <3> HIDE DEF elt
    <3>2. /\ items'[w] \in Seq(Paths \X Envelope) /\ Len(items'[w]) = Len(items[w]) + 1
          /\ \A k \in 1..Len(items[w]) : items'[w][k] = items[w][k]
          /\ items'[w][Len(items[w]) + 1] = elt
      BY <1>3, <3>1, AppendProperties
    <3>3. /\ Len(items[w]) \in Nat /\ DOMAIN items[w] = 1..Len(items[w])
          /\ DOMAIN items'[w] = 1..Len(items'[w])
      BY <1>3, <3>2, LenProperties
    <3> QED
      BY <3>2, <3>3 DEF elt
  <2>2. CASE ~(Splits(p) /\ Selects(Op(w), entries[p]))
    BY <1>3, <1>5, <2>2, LenProperties
  <2> QED
    BY <2>1, <2>2
<1>7. WorkersOK' /\ HistoryOK'
  <2>1. items' \in [Workers -> Seq(Paths \X Envelope)]
    BY <1>1, <1>5, <1>6 DEF StoreInv, TypeOK, WorkersOK
  <2> QED
    BY <1>1, <2>1 DEF StoreInv, TypeOK, WorkersOK, HistoryOK
<1>8. InPlace(w)'
  BY <1>1, <1>5 DEF InPlace, Op, StoreInv
<1>9. Undisturbed(w)'
  BY <1>5 DEF Undisturbed
<1>10. Searching(w)'
  <2>1. /\ \A q \in Paths : <<q, entries[q]>> \in past[w]
        /\ \A k \in DOMAIN items[w] : items[w][k] \in past[w]
        /\ \A q \in Paths : Wanted(w, q) =>
              \/ \E k \in found[w] : Order[k] = q
              \/ \E k \in DOMAIN items[w] : items[w][k][1] = q
    BY <1>1 DEF StoreInv, Searching
  <2>2. \A k \in DOMAIN items'[w] : items'[w][k] \in past[w]
    BY <1>2, <1>6, <2>1
  <2>3. ASSUME NEW q \in Paths, Wanted(w, q)
        PROVE  \/ \E k \in found'[w] : Order[k] = q
               \/ \E k \in DOMAIN items'[w] : items'[w][k][1] = q
    <3>1. CASE q = p
      <4>1. Splits(p) /\ Selects(Op(w), entries[p])
        BY <2>1, <2>3, <3>1 DEF Wanted
      <4> QED
        BY <1>6, <3>1, <4>1
    <3>2. CASE q # p
      BY <1>5, <1>6, <2>1, <2>3, <3>2
    <3> QED
      BY <3>1, <3>2
  <2>4. \A q \in Paths : Wanted(w, q)' => Wanted(w, q)
    BY <1>1 DEF Wanted, Op
  <2>5. /\ \A q \in Paths : <<q, entries'[q]>> \in past'[w]
        /\ \A k \in DOMAIN items'[w] : items'[w][k] \in past'[w]
    BY <1>1, <2>1, <2>2
  <2> QED
    BY <2>3, <2>4, <2>5 DEF Searching
<1>11. \A u \in Workers \ {w} : Same(u) /\ Untouched(u)
  BY <1>1 DEF Same, Untouched, StoreInv, TypeOK, WorkersOK
<1> QED
  BY <1>1, <1>7, <1>8, <1>9, <1>10, <1>11, InsideInv

-----------------------------------------------------------------------------
\* An object changes: another worker's operation that looks at it is disturbed, and
\* a search has seen it.
LEMMA OthersSee ==
    ASSUME StoreInv, NEW by, NEW p \in Paths, NEW obj, SetEntry(by, p, obj),
           NEW u \in Workers, u # by, Same(u), missed'[u] = missed[u]
    PROVE  Undisturbed(u)' /\ Searching(u)'
<1>1. /\ entries' = [entries EXCEPT ![p] = obj]
      /\ alone'[u] = (alone[u] /\ (pc[u] \in {"idle", "next"} \/ p \notin Touches(Op(u))))
      /\ past'[u] = IF pc[u] \in {"search", "fetch"} THEN past[u] \cup {<<p, obj>>} ELSE past[u]
  BY DEF SetEntry
<1>2. /\ pc'[u] = pc[u] /\ Op(u)' = Op(u) /\ now'[u] = now[u] /\ created'[u] = created[u]
      /\ found'[u] = found[u] /\ items'[u] = items[u] /\ NewEntry(u)' = NewEntry(u)
  BY DEF Same, Op, NewEntry
<1>3. \A q \in Paths : entries'[q] = IF q = p THEN obj ELSE entries[q]
  BY <1>1 DEF StoreInv, TypeOK, ItemsOK
<1>4. Undisturbed(u)'
  <2>1. CASE alone'[u] /\ pc[u] \in {"put", "write", "vector"}
    <3>1. Op(u).path \in Paths /\ Touches(Op(u)) = {Op(u).path}
      BY <2>1, OpTyped, OpFields DEF StoreInv, InPlace
    <3>2. alone[u] /\ entries'[Op(u).path] = entries[Op(u).path] /\ past'[u] = past[u]
      BY <1>1, <1>3, <2>1, <3>1
    <3> QED
      BY <1>2, <3>2 DEF StoreInv, Undisturbed
  <2>2. CASE ~(alone'[u] /\ pc[u] \in {"put", "write", "vector"})
    BY <1>2, <2>2 DEF Undisturbed
  <2> QED
    BY <2>1, <2>2
<1>5. Searching(u)'
  <2>1. CASE pc[u] \in {"search", "fetch"}
    <3>1. past'[u] = past[u] \cup {<<p, obj>>}
      BY <1>1, <2>1
    <3>2. \A q \in Paths : <<q, entries'[q]>> \in past'[u]
      BY <1>3, <2>1, <3>1 DEF StoreInv, Searching
    <3>3. \A q \in Paths : Wanted(u, q)' => Wanted(u, q)
      BY <1>2, <3>1 DEF Wanted
    <3> QED
      BY <1>2, <2>1, <3>1, <3>2, <3>3 DEF StoreInv, Searching
  <2>2. CASE pc[u] \notin {"search", "fetch"}
    BY <1>2, <2>2 DEF Searching
  <2> QED
    BY <2>1, <2>2
<1> QED
  BY <1>4, <1>5

\* The types of items and history after it.
LEMMA SetEntryTypes ==
    ASSUME StoreInv, NEW by, NEW p \in Paths, NEW obj \in Envelope \cup {None, Text},
           SetEntry(by, p, obj), UNCHANGED <<rows, missed>>
    PROVE  ItemsOK' /\ HistoryOK'
<1>1. /\ entries' = [entries EXCEPT ![p] = obj]
      /\ alone' = [w \in Workers |->
                     alone[w] /\ (w = by \/ pc[w] \in {"idle", "next"} \/ p \notin Touches(Op(w)))]
      /\ past' = [w \in Workers |->
                    IF pc[w] \in {"search", "fetch"} THEN past[w] \cup {<<p, obj>>} ELSE past[w]]
  BY DEF SetEntry
<1>2. ItemsOK'
  BY <1>1 DEF StoreInv, TypeOK, ItemsOK
<1>3. alone' \in [Workers -> BOOLEAN]
  BY <1>1
<1>4. past' \in [Workers -> SUBSET (Paths \X (Envelope \cup {None, Text}))]
  BY <1>1 DEF StoreInv, TypeOK, HistoryOK
<1> QED
  BY <1>2, <1>3, <1>4 DEF StoreInv, TypeOK, HistoryOK

\* A worker changes an object; what is left to show is about that worker.
LEMMA ChangeInv ==
    ASSUME StoreInv, NEW w \in Workers, NEW p \in Paths, NEW obj \in Envelope \cup {None, Text},
           SetEntry(w, p, obj), UNCHANGED <<rows, missed>>,
           WorkersOK', InPlace(w)', Undisturbed(w)', Searching(w)',
           \A u \in Workers \ {w} : Same(u)
    PROVE  StoreInv'
<1>1. ItemsOK' /\ HistoryOK'
  BY SetEntryTypes
<1>4. ASSUME NEW u \in Workers \ {w} PROVE InPlace(u)' /\ Undisturbed(u)' /\ Searching(u)'
  BY SameInPlace, OthersSee DEF StoreInv
<1> QED
  BY <1>1, <1>4 DEF StoreInv, TypeOK

LEMMA WriteEntryInv ==
    ASSUME StoreInv, NEW w \in Workers, WriteEntry(w)
    PROVE  StoreInv'
<1>1. /\ pc[w] = "write" /\ SetEntry(w, Op(w).path, NewEntry(w))
      /\ UNCHANGED <<rows, missed>>
  BY DEF WriteEntry
<1>2. NewEntry(w) \in Envelope /\ Op(w).path \in Paths
  BY <1>1, NewEntryTyped
<1>3. CASE Answer(w, << >>)
  <2>1. WorkersOK' /\ Over(w)
    BY <1>1, <1>3, AnswerOver
  <2>2. InPlace(w)' /\ Undisturbed(w)' /\ Searching(w)'
    BY <2>1, RestingInv DEF Over
  <2>3. \A u \in Workers \ {w} : Same(u)
    BY <2>1 DEF Over
  <2> QED
    BY <1>1, <1>2, <2>1, <2>2, <2>3, ChangeInv
<1>4. CASE Goto(w, "vector") /\ UNCHANGED locals
  <2>1. /\ pc' = [pc EXCEPT ![w] = "vector"]
        /\ UNCHANGED <<batch, answer, now, created, found, items>>
    BY <1>4 DEF Goto, locals
  <2>2. WorkersOK' /\ pc'[w] = "vector" /\ Op(w)' = Op(w)
    BY <2>1 DEF StoreInv, TypeOK, WorkersOK, Op
  <2>3. InPlace(w)'
    BY <1>1, <2>1, <2>2 DEF InPlace, StoreInv
  <2>4. Undisturbed(w)'
    <3>1. alone'[w] => alone[w]
      BY <1>1 DEF SetEntry
    <3>2. past'[w] = past[w] /\ entries'[Op(w).path] = NewEntry(w)
      BY <1>1, <1>2 DEF SetEntry, StoreInv, TypeOK, ItemsOK
    <3>3. NewEntry(w)' = NewEntry(w) /\ created'[w] = created[w] /\ now'[w] = now[w]
      BY <2>1, <2>2 DEF NewEntry
    <3> QED
      BY <1>1, <2>2, <3>1, <3>2, <3>3 DEF Undisturbed, StoreInv
  <2>5. Searching(w)'
    BY <2>2 DEF Searching
  <2>7. \A u \in Workers \ {w} : Same(u)
    BY <2>1 DEF Same, StoreInv, TypeOK, WorkersOK
  <2> QED
    BY <1>1, <1>2, <2>2, <2>3, <2>4, <2>5, <2>7, ChangeInv
<1> QED
  BY <1>3, <1>4 DEF WriteEntry

LEMMA RemoveEntryInv ==
    ASSUME StoreInv, NEW w \in Workers, RemoveEntry(w)
    PROVE  StoreInv'
<1>1. /\ pc[w] = "delete" /\ SetEntry(w, Op(w).path, None)
      /\ UNCHANGED <<rows, missed>> /\ None \notin Envelope
  BY StoreAssumption DEF RemoveEntry
<1>2. Op(w).path \in Paths
  BY <1>1, OpTyped, OpFields DEF StoreInv, InPlace
<1>3. CASE Answer(w, << >>)
  <2>1. WorkersOK' /\ Over(w)
    BY <1>1, <1>3, AnswerOver
  <2>2. InPlace(w)' /\ Undisturbed(w)' /\ Searching(w)'
    BY <2>1, RestingInv DEF Over
  <2>3. \A u \in Workers \ {w} : Same(u)
    BY <2>1 DEF Over
  <2> QED
    BY <1>1, <1>2, <2>1, <2>2, <2>3, ChangeInv
<1>4. CASE Goto(w, "forget") /\ UNCHANGED locals
  <2>1. /\ pc' = [pc EXCEPT ![w] = "forget"]
        /\ UNCHANGED <<batch, answer, now, created, found, items>>
    BY <1>4 DEF Goto, locals
  <2>2. WorkersOK' /\ pc'[w] = "forget" /\ Op(w)' = Op(w)
    BY <2>1 DEF StoreInv, TypeOK, WorkersOK, Op
  <2>3. InPlace(w)' /\ Undisturbed(w)' /\ Searching(w)'
    BY <1>1, <2>1, <2>2 DEF InPlace, Undisturbed, Searching, StoreInv
  <2>5. \A u \in Workers \ {w} : Same(u)
    BY <2>1 DEF Same, StoreInv, TypeOK, WorkersOK
  <2> QED
    BY <1>1, <1>2, <2>2, <2>3, <2>5, ChangeInv
<1> QED
  BY <1>3, <1>4 DEF RemoveEntry

LEMMA PutTextInv ==
    ASSUME StoreInv, PutText
    PROVE  StoreInv'
<1>1. PICK p \in Paths : SetEntry(None, p, Text)
  BY DEF PutText
<1>2. UNCHANGED <<rows, pc, batch, now, created, found, items, answer, missed>>
  BY DEF PutText, locals
<1>3. ItemsOK' /\ HistoryOK'
  BY <1>1, <1>2, SetEntryTypes, StoreAssumption
<1>4. WorkersOK'
  BY <1>2 DEF StoreInv, TypeOK, WorkersOK
<1>5. ASSUME NEW u \in Workers PROVE InPlace(u)' /\ Undisturbed(u)' /\ Searching(u)'
  <2>1. Same(u) /\ missed'[u] = missed[u] /\ u # None
    BY <1>2, StoreAssumption DEF Same
  <2> QED
    BY <1>1, <2>1, SameInPlace, OthersSee DEF StoreInv
<1> QED
  BY <1>3, <1>4, <1>5 DEF StoreInv, TypeOK

\* Steps that change nothing.
LEMMA OutsideInv ==
    ASSUME StoreInv, UNCHANGED vars
    PROVE  StoreInv'
<1>1. UNCHANGED <<entries, rows, pc, batch, now, created, found, items, answer, alone, missed, past>>
  BY DEF vars
<1>3. TypeOK'
  BY <1>1 DEF StoreInv, TypeOK, ItemsOK, WorkersOK, HistoryOK
<1>5. ASSUME NEW u \in Workers PROVE InPlace(u)' /\ Undisturbed(u)' /\ Searching(u)'
  BY <1>1, SameInPlace, OthersStay DEF StoreInv, Same, Untouched
<1> QED
  BY <1>3, <1>5 DEF StoreInv

-----------------------------------------------------------------------------
LEMMA InitInv == Init => StoreInv
<1> SUFFICES ASSUME Init PROVE StoreInv
  OBVIOUS
<1>1. /\ << >> \in Seq(Paths \X Envelope) /\ << >> \in Seq(Operations) /\ 0 \in Time
      /\ {} \in SUBSET DOMAIN Order /\ {} \in SUBSET (Paths \X (Envelope \cup {None, Text}))
  BY StoreAssumption
<1>2. ItemsOK /\ HistoryOK
  BY <1>1 DEF Init, ItemsOK, HistoryOK
<1>3. WorkersOK
  BY <1>1 DEF Init, WorkersOK
<1>5. \A w \in Workers : InPlace(w) /\ Undisturbed(w) /\ Searching(w)
  BY DEF Init, InPlace, Undisturbed, Searching
<1> QED
  BY <1>2, <1>3, <1>5 DEF StoreInv, TypeOK

\* The steps that return something.
LEMMA ReturnsInv ==
    ASSUME StoreInv, NEW w \in Workers,
           Get(w) \/ ReturnItems(w) \/ SearchVectors(w) \/ ListNamespaces(w)
    PROVE  StoreInv'
<1>1. /\ pc[w] # "idle" /\ Forget(w) /\ UNCHANGED <<entries, rows>>
      /\ \E a : Answer(w, a)
  BY DEF Get, ReturnItems, SearchVectors, ListNamespaces
<1> QED
  BY <1>1, AnswerInv

LEMMA NextInv == StoreInv /\ [Next]_vars => StoreInv'
<1> SUFFICES ASSUME StoreInv, [Next]_vars PROVE StoreInv'
  OBVIOUS
<1>1. CASE PutText
  BY <1>1, PutTextInv
<1>2. CASE AllIdle \/ UNCHANGED vars
  BY <1>2, OutsideInv DEF AllIdle
<1>3. ASSUME NEW w \in Workers, Begin(w) \/ Step(w) PROVE StoreInv'
  BY <1>3, BeginInv, StartInv, ReadExistingInv, MissExistingInv, WriteEntryInv, WriteVectorInv,
     RemoveEntryInv, ForgetVectorInv, ListPathsInv, FetchItemInv, ReturnsInv, RaiseInv DEF Step
<1> QED
  BY <1>1, <1>2, <1>3 DEF Next

\* Types, and what a put and a search know half way.
THEOREM LangGraphInvariant == Spec => []StoreInv
  BY InitInv, NextInv, PTL DEF Spec

-----------------------------------------------------------------------------
\* Only w itself makes w's operation return.
LEMMA ReturnIsOwn ==
    ASSUME StoreInv, Next, NEW w \in Workers, NEW op, Returns(w, op)
    PROVE  \/ Get(w) \/ WriteEntry(w) \/ WriteVector(w) \/ RemoveEntry(w) \/ ForgetVector(w)
           \/ ReturnItems(w) \/ SearchVectors(w) \/ ListNamespaces(w)
<1>1. pc[w] \notin {"idle", "next"} /\ pc'[w] \in {"idle", "next"} /\ answer'[w] # Error
  BY DEF Returns
<1>2. ASSUME NEW u \in Workers \ {w}, Begin(u) \/ Step(u) PROVE FALSE
  <2>1. PICK to : pc' = [pc EXCEPT ![u] = to]
    BY <1>2 DEF Begin, Step, Start, Get, ReadExisting, MissExisting, WriteEntry, WriteVector,
       RemoveEntry, ForgetVector, ListPaths, FetchItem, ReturnItems, SearchVectors,
       ListNamespaces, Raise, Goto, Answer
  <2>2. pc'[w] = pc[w]
    BY <1>2, <2>1 DEF StoreInv, TypeOK, WorkersOK
  <2> QED
    BY <1>1, <2>2
<1>3. ~PutText /\ ~AllIdle
  BY <1>1 DEF PutText, AllIdle, vars
<1>4. Begin(w) \/ Step(w)
  BY <1>2, <1>3 DEF Next
<1>5. ~Begin(w) /\ ~Start(w)
  BY <1>1 DEF Begin, Start
<1>6. ASSUME NEW to, pc' = [pc EXCEPT ![w] = to], to \in {"write", "fetch"} PROVE FALSE
  BY <1>1, <1>6 DEF StoreInv, TypeOK, WorkersOK
<1>7. ~ReadExisting(w) /\ ~MissExisting(w) /\ ~ListPaths(w) /\ ~FetchItem(w)
  BY <1>6 DEF ReadExisting, MissExisting, ListPaths, FetchItem, Goto
<1>8. ~Raise(w)
  <2>1. Raise(w) => answer'[w] = Error
    BY DEF Raise, StoreInv, TypeOK, WorkersOK
  <2> QED
    BY <1>1, <2>1
<1> QED
  BY <1>4, <1>5, <1>7, <1>8 DEF Step

LEMMA KeepsCreatedHolds ==
    ASSUME StoreInv, Next, NEW w \in Workers
    PROVE  KeepsCreated(w)
<1> SUFFICES ASSUME Returns(w, "put"), alone[w], ~missed[w] PROVE KeepsCreated(w)
  BY DEF KeepsCreated
<1>1. Op(w).op = "put" /\ InPlace(w) /\ Undisturbed(w)
  BY DEF Returns, StoreInv
<1>2. WriteEntry(w) \/ WriteVector(w)
  BY <1>1, ReturnIsOwn DEF InPlace, Get, RemoveEntry, ForgetVector, ReturnItems, SearchVectors,
     ListNamespaces
<1>3. pc[w] \in {"write", "vector"}
  BY <1>2 DEF WriteEntry, WriteVector
<1>4. \A old \in past[w] : created[w] = IF old[2] = None THEN now[w] ELSE old[2].created
  BY <1>1, <1>3 DEF Undisturbed
<1>5. /\ Op(w).path \in Paths /\ NewEntry(w).created = created[w]
      /\ NewEntry(w).updated = now[w] /\ NewEntry(w).value = Op(w).value
  BY <1>3, NewEntryTyped
<1>6. CASE WriteEntry(w)
  <2>1. entries'[Op(w).path] = NewEntry(w)
    BY <1>5, <1>6 DEF WriteEntry, SetEntry, StoreInv, TypeOK, ItemsOK
  <2>2. ~(Op(w).index /\ Embeds)
    <3>1. pc' # [pc EXCEPT ![w] = "vector"]
      BY DEF Returns, StoreInv, TypeOK, WorkersOK
    <3> QED
      BY <1>6, <3>1 DEF WriteEntry, Goto
  <2> QED
    BY <1>4, <1>5, <2>1, <2>2 DEF KeepsCreated
<1>7. CASE WriteVector(w)
  <2>1. entries'[Op(w).path] = NewEntry(w)
    BY <1>1, <1>7 DEF WriteVector, Undisturbed
  <2>2. rows'[Op(w).path] = NewEntry(w)
    BY <1>5, <1>7 DEF WriteVector, StoreInv, TypeOK, ItemsOK
  <2> QED
    BY <1>4, <1>5, <2>1, <2>2 DEF KeepsCreated
<1> QED
  BY <1>2, <1>6, <1>7

\* What a page has comes from the sequence it is cut from; a page from the start
\* that is not full is all of it.
LEMMA PageProperties ==
    ASSUME NEW S, NEW seq \in Seq(S), NEW op, op.offset \in Nat, op.limit \in Nat
    PROVE  /\ \A i \in DOMAIN Page(seq, op) : \E k \in DOMAIN seq : Page(seq, op)[i] = seq[k]
           /\ Len(Page(seq, op)) < op.limit /\ op.offset = 0 => Page(seq, op) = seq
<1> DEFINE first == op.offset + 1
           last  == IF op.offset + op.limit < Len(seq) THEN op.offset + op.limit ELSE Len(seq)
<1>1. /\ Len(seq) \in Nat /\ DOMAIN seq = 1..Len(seq) /\ first \in Int /\ last \in Int
      /\ first >= 1 /\ last <= Len(seq)
  BY LenProperties
<1>2. \A i \in first..last : i \in 1..Len(seq) /\ seq[i] \in S
  BY <1>1, ElementOfSeq
<1>3. Page(seq, op) = SubSeq(seq, first, last)
  BY DEF Page
<1>4. last \in Nat /\ (op.offset = 0 => first = 1)
      /\ (op.offset = 0 /\ last # Len(seq) => last = op.limit)
  BY <1>1
<1> HIDE DEF first, last
<1>5. /\ SubSeq(seq, first, last) \in Seq(S)
      /\ Len(SubSeq(seq, first, last)) = IF first <= last THEN last - first + 1 ELSE 0
      /\ \A i \in 1..(last - first + 1) : SubSeq(seq, first, last)[i] = seq[first + i - 1]
  BY <1>1, <1>2, SubSeqProperties
<1>6. DOMAIN SubSeq(seq, first, last) = 1..Len(SubSeq(seq, first, last))
  BY <1>5, LenProperties
<1>7. ASSUME NEW i \in DOMAIN SubSeq(seq, first, last)
      PROVE  \E k \in DOMAIN seq : SubSeq(seq, first, last)[i] = seq[k]
  <2>1. i \in 1..(last - first + 1)
    BY <1>1, <1>5, <1>6
  <2>2. first + i - 1 \in first..last
    BY <1>1, <2>1
  <2> QED
    BY <1>1, <1>2, <1>5, <2>1, <2>2
<1>8. ASSUME Len(SubSeq(seq, first, last)) < op.limit, op.offset = 0
      PROVE  SubSeq(seq, first, last) = seq
  <2>1. first = 1 /\ (last = Len(seq) \/ last = op.limit)
    BY <1>4, <1>8
  <2>2. last # op.limit \/ last = Len(seq)
    BY <1>4, <1>5, <1>8, <2>1
  <2>3. last = Len(seq)
    BY <2>1, <2>2
  <2> QED
    BY <2>1, <2>3, SubSeqFull
<1> QED
  BY <1>3, <1>7, <1>8

LEMMA ReturnsFreshHolds ==
    ASSUME StoreInv, Next, NEW w \in Workers
    PROVE  ReturnsFresh(w)
<1> SUFFICES ASSUME pc[w] = "fetch", Returns(w, "search") PROVE ReturnsFresh(w)
  BY DEF ReturnsFresh
<1>1. ReturnItems(w)
  BY ReturnIsOwn DEF Get, WriteEntry, WriteVector, RemoveEntry, ForgetVector, SearchVectors,
     ListNamespaces
<1>2. found[w] = {} /\ answer'[w] = Page(items[w], Op(w))
  BY <1>1 DEF ReturnItems, Answer, StoreInv, TypeOK, WorkersOK
<1>3. items[w] \in Seq(Paths \X Envelope)
  BY DEF StoreInv, TypeOK, WorkersOK
<1>4. Op(w).limit \in Nat /\ Op(w).offset \in Nat
  BY OpTyped, OpFields DEF StoreInv, InPlace
<1>5. /\ \A i \in DOMAIN items[w] : items[w][i] \in past[w]
      /\ \A p \in Paths : Wanted(w, p) => \E i \in DOMAIN items[w] : items[w][i][1] = p
  BY <1>2 DEF StoreInv, Searching
<1>6. /\ \A i \in DOMAIN answer'[w] : \E k \in DOMAIN items[w] : answer'[w][i] = items[w][k]
      /\ Len(answer'[w]) < Op(w).limit /\ Op(w).offset = 0 => answer'[w] = items[w]
  BY <1>2, <1>3, <1>4, PageProperties
<1> QED
  BY <1>5, <1>6 DEF ReturnsFresh

\* "Timestamps round-trip through the stored envelope rather than being invented"
\* (test_langgraph.py:103): an undisturbed put keeps the creation time.
THEOREM LangGraphPutKeepsCreated == Spec => PutKeepsCreated
<1>1. StoreInv /\ [Next]_vars => [\A w \in Workers : KeepsCreated(w)]_vars
  BY KeepsCreatedHolds
<1> QED
  BY <1>1, LangGraphInvariant, PTL DEF Spec, PutKeepsCreated

\* A search without a query returns what was there while it ran, and a page that
\* is not full misses nothing that was there all the time.
THEOREM LangGraphSearchesAreFresh == Spec => SearchesAreFresh
<1>1. StoreInv /\ [Next]_vars => [\A w \in Workers : ReturnsFresh(w)]_vars
  BY ReturnsFreshHolds
<1> QED
  BY <1>1, LangGraphInvariant, PTL DEF Spec, SearchesAreFresh
=============================================================================
