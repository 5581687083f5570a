-------------------------- MODULE SkillStoreProofs --------------------------
(***************************************************************************)
(* The theorems about SkillStore, for any number of callers, principals,   *)
(* names, texts, front matters and queues.  SkillInv is inductive; LoadInv *)
(* says what a load knows half way, for the theorem about loads.           *)
(***************************************************************************)
EXTENDS SkillStore, TLAPS

-----------------------------------------------------------------------------
\* The object that document d is filed as under n.
FileOf(n, d) == [name |-> n, version |-> Hash(d), doc |-> d]

\* What the keys of a table say is true.
Telling(files) == files \subseteq File /\ \A f \in files : f.version = Hash(f.doc)

\* The object that a document is filed as, and its fields.
LEMMA FileOfType ==
    ASSUME NEW n \in Names, NEW d \in Document
    PROVE  /\ FileOf(n, d) \in File
           /\ FileOf(n, d).name = n /\ FileOf(n, d).version = Hash(d) /\ FileOf(n, d).doc = d
  BY DEF FileOf, File, Version

\* The fields of an object in a table.
LEMMA FileFields ==
    ASSUME NEW f \in File
    PROVE  /\ f.name \in Names /\ f.version \in Version /\ f.doc \in Document
           /\ f = [name |-> f.name, version |-> f.version, doc |-> f.doc]
  BY DEF File

\* Content-addressed objects are never overwritten with anything else: putting a
\* document under its own hash adds it (skills.py:27).
LEMMA WriteAdds ==
    ASSUME NEW files, Telling(files), NEW n \in Names, NEW d \in Document
    PROVE  /\ Write(files, n, Hash(d), d) = files \cup {FileOf(n, d)}
           /\ Telling(files \cup {FileOf(n, d)})
<1>1. \A f \in files : <<f.name, f.version>> = <<n, Hash(d)>> => f = FileOf(n, d)
  <2> SUFFICES ASSUME NEW f \in files, f.name = n, f.version = Hash(d)
               PROVE  f = FileOf(n, d)
    OBVIOUS
  <2>1. f \in File /\ f.version = Hash(f.doc)
    BY DEF Telling
  <2>2. f.doc \in Document /\ f = [name |-> f.name, version |-> f.version, doc |-> f.doc]
    BY <2>1, FileFields
  <2>3. f.doc = d
    BY <2>1, <2>2, HashAssumption
  <2> QED
    BY <2>2, <2>3 DEF FileOf
<1>2. Write(files, n, Hash(d), d) = files \cup {FileOf(n, d)}
  BY <1>1 DEF Write, FileOf
<1> QED
  BY <1>2, FileOfType DEF Telling

\* Whatever its front matter says, a document has a name (skills.py:314).
LEMMA NameOfType ==
    ASSUME NEW d \in Document, NEW n \in Names
    PROVE  NameOf(d, n) \in Names
  BY DEF Document, NameOf

\* A proposed document has the type of one, whatever front matter it brings.
LEMMA FormatType ==
    ASSUME NEW n \in Names, NEW p \in Principals, NEW x \in Texts,
           NEW d \in Format(n, p, x, Fronts)
    PROVE  d \in Document
<1>1. CASE d = [name |-> n, by |-> p, text |-> x]
  BY <1>1 DEF Document
<1>2. CASE \E f \in Fronts : d = [name |-> f.name, by |-> f.by, text |-> x]
  <2>1. PICK f \in Fronts : d = [name |-> f.name, by |-> f.by, text |-> x]
    BY <1>2
  <2>2. f.name \in Names \cup {None} /\ f.by \in Principals \cup {None}
    BY FrontAssumption
  <2> QED
    BY <2>1, <2>2 DEF Document
<1> QED
  BY <1>1, <1>2 DEF Format

\* What the type of a call says of its fields.
LEMMA JobFields ==
    ASSUME TypeOK, NEW c \in Callers
    PROVE  /\ job[c].op = "propose" => job[c].name \in Names /\ job[c].doc \in Document
           /\ job[c].op = "revoke" => job[c].name \in Names
           /\ job[c].op \in {"approve", "reject"} =>
                 /\ job[c].proposal \in Proposal
                 /\ job[c].proposal.name \in Names
                 /\ job[c].proposal.proposer \in Principals
                 /\ Queue[job[c].proposal.proposer] \in Queues
<1>1. job[c] \in Job
  BY DEF TypeOK
<1>2. \A p \in Proposal : p.name \in Names /\ p.proposer \in Principals /\ Queue[p.proposer] \in Queues
  BY QueueAssumption DEF Proposal
<1> QED
  BY <1>1, <1>2 DEF Job

-----------------------------------------------------------------------------
\* The part of CallInv that is about caller c.
CallOK(c) ==
    /\ pc[c] = "file" => job[c].op = "propose"
    /\ pc[c] \in {"read", "record", "publish", "note"} => job[c].op \in {"approve", "reject"}
    /\ pc[c] = "withdraw" => job[c].op = "revoke"
    /\ pc[c] \in {"record", "publish", "note"} =>
          [name |-> job[c].proposal.name, version |-> job[c].proposal.version,
           doc |-> held[c]] \in queues[Queue[job[c].proposal.proposer]]
    /\ pc[c] = "publish" =>
          [name |-> DecidedName(c), version |-> job[c].proposal.version,
           doc |-> held[c]] \in approved

\* CallInv is about one caller at a time.
LEMMA CallInvIsCallOK == CallInv <=> \A c \in Callers : CallOK(c)
  BY DEF CallInv, CallOK

\* What is in every table says what it is.
LEMMA TablesTell ==
    ASSUME SkillInv
    PROVE  Telling(approved) /\ \A q \in Queues : Telling(queues[q])
  BY DEF SkillInv, TypeOK, VersionsTell, Telling

\* And the other way round.
LEMMA TellingVersions ==
    ASSUME Telling(approved), \A q \in Queues : Telling(queues[q])
    PROVE  VersionsTell
  BY DEF Telling, VersionsTell

\* A decision is about the document that lies in the proposer's queue, under its hash.
LEMMA DecisionFacts ==
    ASSUME SkillInv, NEW c \in Callers, pc[c] \in {"record", "publish", "note"}
    PROVE  /\ held[c] \in Document
           /\ job[c].proposal.version = Hash(held[c])
           /\ DecidedName(c) \in Names
           /\ NameOf(held[c], DecidedName(c)) = DecidedName(c)
           /\ Queue[job[c].proposal.proposer] \in Queues
           /\ FileOf(job[c].proposal.name, held[c]) \in queues[Queue[job[c].proposal.proposer]]
           /\ pc[c] = "publish" => FileOf(DecidedName(c), held[c]) \in approved
<1> DEFINE p == job[c].proposal
           q == Queue[p.proposer]
           f == [name |-> p.name, version |-> p.version, doc |-> held[c]]
<1>1. TypeOK /\ CallOK(c)
  BY CallInvIsCallOK DEF SkillInv
<1>2. job[c].op \in {"approve", "reject"} /\ f \in queues[q]
  BY <1>1 DEF CallOK
<1>3. p.name \in Names /\ q \in Queues
  BY <1>1, <1>2, JobFields
<1>4. f \in File /\ f.version = Hash(f.doc)
  BY <1>2, <1>3, TablesTell DEF Telling
<1>5. held[c] \in Document /\ p.version = Hash(held[c])
  <2>1. f.doc \in Document
    BY <1>4, FileFields
  <2> QED
    BY <1>4, <2>1
<1>6. DecidedName(c) \in Names
  BY <1>3, <1>5, NameOfType DEF DecidedName
<1>7. NameOf(held[c], DecidedName(c)) = DecidedName(c)
  BY DEF NameOf, DecidedName
<1>8. FileOf(p.name, held[c]) \in queues[q]
  BY <1>2, <1>5 DEF FileOf
<1>9. pc[c] = "publish" => FileOf(DecidedName(c), held[c]) \in approved
  BY <1>1, <1>5 DEF CallOK, FileOf
<1> QED
  BY <1>3, <1>5, <1>6, <1>7, <1>8, <1>9

\* What the steps that put an object into a queue or record a version do.
LEMMA FileProposalAdds ==
    ASSUME SkillInv, NEW c \in Callers, FileProposal(c)
    PROVE  /\ job[c].name \in Names /\ job[c].doc \in Document /\ OwnQueue(c) \in Queues
           /\ queues' = [queues EXCEPT ![OwnQueue(c)] = @ \cup {FileOf(job[c].name, job[c].doc)}]
           /\ Telling(queues[OwnQueue(c)] \cup {FileOf(job[c].name, job[c].doc)})
<1>1. TypeOK /\ CallOK(c) /\ pc[c] = "file"
  BY CallInvIsCallOK DEF SkillInv, FileProposal
<1>2. job[c].name \in Names /\ job[c].doc \in Document
  BY <1>1, JobFields DEF CallOK
<1>3. OwnQueue(c) \in Queues
  BY QueueAssumption, CallerAssumption DEF OwnQueue
<1>4. Telling(queues[OwnQueue(c)])
  BY <1>3, TablesTell
<1>5. /\ Write(queues[OwnQueue(c)], job[c].name, Hash(job[c].doc), job[c].doc)
            = queues[OwnQueue(c)] \cup {FileOf(job[c].name, job[c].doc)}
      /\ Telling(queues[OwnQueue(c)] \cup {FileOf(job[c].name, job[c].doc)})
  BY <1>2, <1>4, WriteAdds
<1>6. queues' = [queues EXCEPT ![OwnQueue(c)] = Write(@, job[c].name, Hash(job[c].doc), job[c].doc)]
  BY DEF FileProposal, VersionOf
<1> QED
  BY <1>2, <1>3, <1>5, <1>6

\* The first write of approve adds an object to the approved table.
LEMMA RecordVersionAdds ==
    ASSUME SkillInv, NEW c \in Callers, RecordVersion(c)
    PROVE  /\ approved' = approved \cup {FileOf(DecidedName(c), held[c])}
           /\ Telling(approved')
<1>1. pc[c] = "record" /\ approved' = Write(approved, DecidedName(c), job[c].proposal.version, held[c])
  BY DEF RecordVersion
<1>2. held[c] \in Document /\ DecidedName(c) \in Names /\ job[c].proposal.version = Hash(held[c])
  BY <1>1, DecisionFacts
<1>3. Telling(approved)
  BY TablesTell
<1>4. /\ Write(approved, DecidedName(c), Hash(held[c]), held[c])
            = approved \cup {FileOf(DecidedName(c), held[c])}
      /\ Telling(approved \cup {FileOf(DecidedName(c), held[c])})
  BY <1>2, <1>3, WriteAdds
<1>5. approved' = approved \cup {FileOf(DecidedName(c), held[c])}
  BY <1>1, <1>2, <1>4
<1> QED
  BY <1>4, <1>5 DEF Telling, File

-----------------------------------------------------------------------------
Places == {"idle", "proposed", "approved", "rejected", "file", "read", "record", "publish",
           "note", "withdraw", "list", "load"}

\* The types of the variables of a caller and of the history.
CallTypes ==
    /\ pc \in [Callers -> Places]
    /\ job \in [Callers -> Job] /\ held \in [Callers -> Document \cup {None}]
    /\ todo \in [Callers -> SUBSET Names] /\ got \in [Callers -> SUBSET (Names \X Document)]
    /\ seen \in [Callers -> SUBSET (Names \X Document)]
    /\ steady \in [Callers -> SUBSET Names] /\ begun \in Nat

StoreTypes ==
    /\ tables \subseteq Tables /\ queues \in [Queues -> SUBSET File]
    /\ approved \subseteq File /\ live \in [Names -> Document \cup {None}]
    /\ rejected \subseteq File

\* TypeOK in its two halves.
LEMMA TypesAreTypes == TypeOK <=> StoreTypes /\ CallTypes
  BY DEF TypeOK, StoreTypes, CallTypes, Places

\* What is live, as pairs.
LEMMA LiveTypes ==
    ASSUME TypeOK
    PROVE  /\ ListApproved \subseteq Names
           /\ \A n \in ListApproved : live[n] \in Document
           /\ {<<n, live[n]>> : n \in ListApproved} \subseteq Names \X Document
  BY DEF TypeOK, ListApproved

\* The history has its types: when a load begins, ...
LEMMA WatchTypes ==
    ASSUME TypeOK, NEW c \in Callers, NEW wanted, Watch(c, wanted)
    PROVE  /\ seen' \in [Callers -> SUBSET (Names \X Document)]
           /\ steady' \in [Callers -> SUBSET Names]
<1>1. seen' = [seen EXCEPT ![c] = {<<n, live[n]>> : n \in ListApproved}]
      /\ steady' = [steady EXCEPT ![c] = ListApproved \cap wanted]
  BY DEF Watch
<1> QED
  BY <1>1, LiveTypes DEF TypeOK

\* ... when it ends, ...
LEMMA ForgetTypes ==
    ASSUME TypeOK, NEW c \in Callers, Forget(c)
    PROVE  /\ seen' \in [Callers -> SUBSET (Names \X Document)]
           /\ steady' \in [Callers -> SUBSET Names]
  BY DEF TypeOK, Forget

\* ... and when a SKILL.md is put or removed.
LEMMA SetLiveTypes ==
    ASSUME TypeOK, NEW n \in Names, NEW d \in Document \cup {None}, SetLive(n, d)
    PROVE  /\ live' \in [Names -> Document \cup {None}]
           /\ seen' \in [Callers -> SUBSET (Names \X Document)]
           /\ steady' \in [Callers -> SUBSET Names]
<1>1. live' \in [Names -> Document \cup {None}]
  BY DEF TypeOK, SetLive
<1>2. \A c \in Callers : seen[c] \in SUBSET (Names \X Document) /\ steady[c] \in SUBSET Names
  BY DEF TypeOK
<1>3. d # None => <<n, d>> \in Names \X Document
  OBVIOUS
<1>4. seen' \in [Callers -> SUBSET (Names \X Document)]
  BY <1>2, <1>3 DEF SetLive
<1>5. steady' \in [Callers -> SUBSET Names]
  BY <1>2 DEF SetLive
<1> QED
  BY <1>1, <1>4, <1>5

\* A caller has its types when its call ends ...
LEMMA ReturnTypes ==
    ASSUME TypeOK, NEW c \in Callers, Return(c)
    PROVE  /\ pc' \in [Callers -> Places] /\ job' \in [Callers -> Job]
           /\ held' \in [Callers -> Document \cup {None}] /\ todo' \in [Callers -> SUBSET Names]
           /\ begun' \in Nat
<1>1. [op |-> "none"] \in Job
  BY DEF Job
<1> QED
  BY <1>1 DEF TypeOK, Return, Places

\* ... and when it goes on.
LEMMA GotoTypes ==
    ASSUME TypeOK, NEW c \in Callers, NEW to \in Places, Goto(c, to)
    PROVE  /\ pc' \in [Callers -> Places] /\ job' \in [Callers -> Job]
           /\ held' \in [Callers -> Document \cup {None}] /\ todo' \in [Callers -> SUBSET Names]
           /\ begun' \in Nat
  BY DEF TypeOK, Goto, Places

\* A call that begins has the type of a call, and is where its method begins.
LEMMA BeginTypes ==
    ASSUME TypeOK, NEW c \in Callers, NEW call \in Job, NEW first \in Places,
           Begin(c, call, first), todo' \in [Callers -> SUBSET Names],
           seen' \in [Callers -> SUBSET (Names \X Document)], steady' \in [Callers -> SUBSET Names]
    PROVE  TypeOK'
<1>1. StoreTypes /\ CallTypes
  BY TypesAreTypes
<1>2. StoreTypes'
  BY <1>1 DEF StoreTypes, Begin, storeVars, Tables, File, Version, Document
<1>3. UNCHANGED <<Job, Document>>
  BY DEF Job, Document, Proposal, Version
<1>4. CallTypes'
  <2>1. /\ pc' = [pc EXCEPT ![c] = first] /\ job' = [job EXCEPT ![c] = call]
        /\ got' = [got EXCEPT ![c] = {}] /\ begun' = begun + 1 /\ held' = held
    BY DEF Begin
  <2> QED
    BY <1>1, <1>3, <2>1 DEF CallTypes
<1> QED
  BY <1>2, <1>4, TypesAreTypes, PTL

\* The steps that begin a call preserve the types.
LEMMA CallPreservesTypes ==
    ASSUME TypeOK, NEW c \in Callers, Call(c)
    PROVE  TypeOK'
<1>0. /\ todo \in [Callers -> SUBSET Names]
      /\ seen \in [Callers -> SUBSET (Names \X Document)] /\ steady \in [Callers -> SUBSET Names]
  BY DEF TypeOK
<1>1. CASE EnsureTables(c)
  <2>1. [op |-> "ensure"] \in Job
    BY DEF Job
  <2> QED
    BY <1>0, <1>1, <2>1, BeginTypes DEF EnsureTables, history, Places
<1>2. CASE Propose(c)
  <2>1. PICK n \in Names, x \in Texts : \E d \in Format(n, Self[c], x, Fronts) :
          Begin(c, [op |-> "propose", name |-> n, doc |-> d], "file")
    BY <1>2 DEF Propose
  <2>2. PICK d \in Format(n, Self[c], x, Fronts) :
          Begin(c, [op |-> "propose", name |-> n, doc |-> d], "file")
    BY <2>1
  <2>3. d \in Document
    BY FormatType, CallerAssumption
  <2>4. [op |-> "propose", name |-> n, doc |-> d] \in Job
    BY <2>3 DEF Job
  <2> QED
    BY <1>0, <1>2, <2>2, <2>4, BeginTypes DEF Propose, history, Places
<1>3. CASE Review(c)
  <2>1. PICK p \in UNION {ListProposed(q) : q \in Principals}, op \in {"approve", "reject"} :
          Begin(c, [op |-> op, proposal |-> p], "read")
    BY <1>3 DEF Review
  <2>2. p \in Proposal
    <3>1. PICK q \in Principals : p \in ListProposed(q)
      BY <2>1
    <3>2. PICK f \in queues[Queue[q]] : p = [proposer |-> q, name |-> f.name, version |-> f.version]
      BY <3>1 DEF ListProposed
    <3>3. f \in File
      BY QueueAssumption DEF TypeOK
    <3> QED
      BY <3>2, <3>3, FileFields DEF Proposal
  <2>3. [op |-> op, proposal |-> p] \in Job
    BY <2>1, <2>2 DEF Job
  <2> QED
    BY <1>0, <1>3, <2>1, <2>3, BeginTypes DEF Review, history, Places
<1>4. CASE Revoke(c)
  <2>1. PICK n \in Names : Begin(c, [op |-> "revoke", name |-> n], "withdraw")
    BY <1>4 DEF Revoke
  <2>2. [op |-> "revoke", name |-> n] \in Job
    BY DEF Job
  <2> QED
    BY <1>0, <1>4, <2>1, <2>2, BeginTypes DEF Revoke, history, Places
<1>5. CASE Load(c)
  <2>1. PICK wanted \in {{n} : n \in Names} :
          /\ Begin(c, [op |-> "load"], "load")
          /\ Watch(c, wanted)
          /\ todo' = [todo EXCEPT ![c] = wanted]
    BY <1>5 DEF Load
  <2>2. [op |-> "load"] \in Job
    BY DEF Job
  <2>3. todo' \in [Callers -> SUBSET Names]
    BY <1>0, <2>1
  <2> QED
    BY <2>1, <2>2, <2>3, WatchTypes, BeginTypes DEF Places
<1>6. CASE LoadAll(c)
  <2>1. [op |-> "load_all"] \in Job
    BY DEF Job
  <2> QED
    BY <1>0, <1>6, <2>1, WatchTypes, BeginTypes DEF LoadAll, Places
<1> QED
  BY <1>1, <1>2, <1>3, <1>4, <1>5, <1>6 DEF Call

\* The types of the next state, put together from its parts.
LEMMA NextTypes ==
    ASSUME StoreTypes', CallTypes'
    PROVE  TypeOK'
  BY DEF TypeOK, StoreTypes, CallTypes, Places

\* The steps of a call preserve the types.
LEMMA StepPreservesTypes ==
    ASSUME SkillInv, NEW c \in Callers, Step(c)
    PROVE  TypeOK'
<1>0. TypeOK /\ StoreTypes /\ CallTypes
  BY TypesAreTypes DEF SkillInv
<1>a. ASSUME /\ pc' \in [Callers -> Places] /\ job' \in [Callers -> Job]
             /\ held' \in [Callers -> Document \cup {None}] /\ todo' \in [Callers -> SUBSET Names]
             /\ begun' \in Nat,
             got' \in [Callers -> SUBSET (Names \X Document)],
             seen' \in [Callers -> SUBSET (Names \X Document)], steady' \in [Callers -> SUBSET Names]
      PROVE  CallTypes'
  <2>1. UNCHANGED <<Job, Document>>
    BY DEF Job, Document, Proposal, Version
  <2> QED
    BY <1>a, <2>1 DEF CallTypes, Places
<1>b. ASSUME tables' \subseteq Tables, queues' \in [Queues -> SUBSET File], approved' \subseteq File,
             live' \in [Names -> Document \cup {None}], rejected' \subseteq File
      PROVE  StoreTypes'
  <2>1. UNCHANGED <<Tables, File, Document>>
    BY DEF Tables, File, Document, Version
  <2> QED
    BY <1>b, <2>1 DEF StoreTypes
<1>c. ASSUME UNCHANGED storeVars
      PROVE  StoreTypes'
  BY <1>0, <1>b, <1>c DEF StoreTypes, storeVars
<1>d. ASSUME UNCHANGED history
      PROVE  /\ seen' \in [Callers -> SUBSET (Names \X Document)]
             /\ steady' \in [Callers -> SUBSET Names]
  BY <1>0, <1>d DEF CallTypes, history
<1>e. ASSUME UNCHANGED got
      PROVE  got' \in [Callers -> SUBSET (Names \X Document)]
  BY <1>0, <1>e DEF CallTypes
<1>1. CASE CreateTable(c)
  <2>1. UNCHANGED <<queues, approved, live, rejected, got, history>>
    BY <1>1 DEF CreateTable
  <2>2. tables' \subseteq Tables
    <3>1. OwnQueue(c) \in Queues
      BY QueueAssumption, CallerAssumption DEF OwnQueue
    <3> QED
      BY <1>0, <1>1, <3>1 DEF CreateTable, StoreTypes, Tables
  <2>3. StoreTypes'
    BY <1>0, <1>b, <2>1, <2>2 DEF StoreTypes
  <2>4. Goto(c, "approved") \/ Goto(c, "rejected") \/ Return(c)
    BY <1>1 DEF CreateTable
  <2>5. /\ pc' \in [Callers -> Places] /\ job' \in [Callers -> Job]
        /\ held' \in [Callers -> Document \cup {None}] /\ todo' \in [Callers -> SUBSET Names]
        /\ begun' \in Nat
    <3>1. "approved" \in Places /\ "rejected" \in Places
      BY DEF Places
    <3> QED
      BY <1>0, <2>4, <3>1, GotoTypes, ReturnTypes
  <2> QED
    BY <1>a, <1>d, <1>e, <2>1, <2>3, <2>5, NextTypes
<1>2. CASE FileProposal(c)
  <2>1. UNCHANGED <<tables, approved, live, rejected, got, history>> /\ Return(c)
    BY <1>2 DEF FileProposal
  <2>2. queues' \in [Queues -> SUBSET File]
    BY <1>0, <1>2, FileProposalAdds DEF StoreTypes, Telling
  <2>3. StoreTypes'
    BY <1>0, <1>b, <2>1, <2>2 DEF StoreTypes
  <2> QED
    BY <1>0, <1>a, <1>d, <1>e, <2>1, <2>3, ReturnTypes, NextTypes
<1>3. CASE ReadProposed(c)
  <2>1. /\ UNCHANGED <<storeVars, job, todo, got, history, begun>>
        /\ pc' = [pc EXCEPT ![c] = IF job[c].op = "approve" THEN "record" ELSE "note"]
    BY <1>3 DEF ReadProposed
  <2>2. PICK f \in queues[Queue[job[c].proposal.proposer]] : held' = [held EXCEPT ![c] = f.doc]
    BY <1>3 DEF ReadProposed
  <2>3. f \in File
    <3>1. job[c].op \in {"approve", "reject"}
      BY <1>3, CallInvIsCallOK DEF SkillInv, CallOK, ReadProposed
    <3> QED
      BY <1>0, <3>1, JobFields DEF StoreTypes
  <2>4. held' \in [Callers -> Document \cup {None}]
    BY <1>0, <2>2, <2>3, FileFields DEF CallTypes
  <2>5. pc' \in [Callers -> Places]
    BY <1>0, <2>1 DEF CallTypes, Places
  <2>6. /\ pc' \in [Callers -> Places] /\ job' \in [Callers -> Job]
        /\ held' \in [Callers -> Document \cup {None}] /\ todo' \in [Callers -> SUBSET Names]
        /\ begun' \in Nat
    BY <1>0, <2>1, <2>4, <2>5 DEF CallTypes
  <2> QED
    BY <1>a, <1>c, <1>d, <1>e, <2>1, <2>6, NextTypes
<1>4. CASE RecordVersion(c)
  <2>1. UNCHANGED <<tables, queues, live, rejected, got, history>> /\ Goto(c, "publish")
    BY <1>4 DEF RecordVersion
  <2>2. approved' \subseteq File
    BY <1>4, RecordVersionAdds DEF Telling, File, Version, Document
  <2>3. StoreTypes'
    BY <1>0, <1>b, <2>1, <2>2 DEF StoreTypes
  <2>4. "publish" \in Places
    BY DEF Places
  <2> QED
    BY <1>0, <1>a, <1>d, <1>e, <2>1, <2>3, <2>4, GotoTypes, NextTypes
<1>5. CASE PublishSkill(c)
  <2>1. /\ UNCHANGED <<tables, queues, approved, rejected, got>> /\ Return(c)
        /\ SetLive(DecidedName(c), held[c])
    BY <1>5 DEF PublishSkill
  <2>2. DecidedName(c) \in Names /\ held[c] \in Document \cup {None}
    BY <1>5, DecisionFacts DEF PublishSkill
  <2>3. /\ live' \in [Names -> Document \cup {None}]
        /\ seen' \in [Callers -> SUBSET (Names \X Document)]
        /\ steady' \in [Callers -> SUBSET Names]
    BY <1>0, <2>1, <2>2, SetLiveTypes
  <2>4. StoreTypes'
    BY <1>0, <1>b, <2>1, <2>3 DEF StoreTypes
  <2> QED
    BY <1>0, <1>a, <1>e, <2>1, <2>3, <2>4, ReturnTypes, NextTypes
<1>6. CASE RejectProposal(c)
  <2>1. /\ UNCHANGED <<tables, queues, approved, live, got, history>> /\ Return(c)
        /\ rejected' = Write(rejected, DecidedName(c), job[c].proposal.version, held[c])
    BY <1>6 DEF RejectProposal
  <2>2. /\ held[c] \in Document /\ DecidedName(c) \in Names
        /\ job[c].proposal.version = Hash(held[c])
    BY <1>6, DecisionFacts DEF RejectProposal
  <2>3. rejected' \subseteq File
    <3>1. rejected' \subseteq rejected \cup {FileOf(DecidedName(c), held[c])}
      BY <2>1, <2>2 DEF Write, FileOf
    <3> QED
      BY <1>0, <2>2, <3>1, FileOfType DEF StoreTypes
  <2>4. StoreTypes'
    BY <1>0, <1>b, <2>1, <2>3 DEF StoreTypes
  <2> QED
    BY <1>0, <1>a, <1>d, <1>e, <2>1, <2>4, ReturnTypes, NextTypes
<1>7. CASE WithdrawSkill(c)
  <2>1. /\ UNCHANGED <<tables, queues, approved, rejected, got>> /\ Return(c)
        /\ SetLive(job[c].name, None)
    BY <1>7 DEF WithdrawSkill
  <2>2. job[c].name \in Names
    BY <1>0, <1>7, JobFields, CallInvIsCallOK DEF SkillInv, CallOK, WithdrawSkill
  <2>3. /\ live' \in [Names -> Document \cup {None}]
        /\ seen' \in [Callers -> SUBSET (Names \X Document)]
        /\ steady' \in [Callers -> SUBSET Names]
    BY <1>0, <2>1, <2>2, SetLiveTypes
  <2>4. StoreTypes'
    BY <1>0, <1>b, <2>1, <2>3 DEF StoreTypes
  <2> QED
    BY <1>0, <1>a, <1>e, <2>1, <2>3, <2>4, ReturnTypes, NextTypes
<1>8. CASE ListSkills(c)
  <2>1. UNCHANGED <<storeVars, got>>
    BY <1>8 DEF ListSkills
  <2>2. CASE Return(c) /\ Forget(c)
    BY <1>0, <1>a, <1>c, <1>e, <2>1, <2>2, ReturnTypes, ForgetTypes, NextTypes
  <2>3. CASE /\ pc' = [pc EXCEPT ![c] = "load"] /\ todo' = [todo EXCEPT ![c] = ListApproved]
             /\ UNCHANGED <<job, held, begun, history>>
    <3>1. ListApproved \subseteq Names
      BY <1>0, LiveTypes
    <3>2. /\ pc' \in [Callers -> Places] /\ job' \in [Callers -> Job]
          /\ held' \in [Callers -> Document \cup {None}] /\ todo' \in [Callers -> SUBSET Names]
          /\ begun' \in Nat
      BY <1>0, <2>3, <3>1 DEF CallTypes, Places
    <3> QED
      BY <1>a, <1>c, <1>d, <1>e, <2>1, <2>3, <3>2, NextTypes
  <2> QED
    BY <1>8, <2>2, <2>3 DEF ListSkills
<1>9. CASE LoadSkill(c)
  <2>1. UNCHANGED storeVars
    BY <1>9 DEF LoadSkill
  <2>2. PICK n \in todo[c] :
          /\ live[n] # None
          /\ got' = [got EXCEPT ![c] = @ \cup {<<n, live[n]>>}]
          /\ \/ Return(c) /\ Forget(c)
             \/ /\ todo' = [todo EXCEPT ![c] = @ \ {n}]
                /\ UNCHANGED <<pc, job, held, begun, history>>
    BY <1>9 DEF LoadSkill
  <2>3. n \in Names /\ live[n] \in Document
    BY <1>0, <2>2 DEF CallTypes, StoreTypes
  <2>4. got' \in [Callers -> SUBSET (Names \X Document)]
    BY <1>0, <2>2, <2>3 DEF CallTypes
  <2>5. CASE Return(c) /\ Forget(c)
    BY <1>0, <1>a, <1>c, <2>1, <2>4, <2>5, ReturnTypes, ForgetTypes, NextTypes
  <2>6. CASE /\ todo' = [todo EXCEPT ![c] = @ \ {n}]
             /\ UNCHANGED <<pc, job, held, begun, history>>
    <3>1. /\ pc' \in [Callers -> Places] /\ job' \in [Callers -> Job]
          /\ held' \in [Callers -> Document \cup {None}] /\ todo' \in [Callers -> SUBSET Names]
          /\ begun' \in Nat
      BY <1>0, <2>6 DEF CallTypes
    <3> QED
      BY <1>a, <1>c, <1>d, <2>1, <2>4, <2>6, <3>1, NextTypes
  <2> QED
    BY <2>2, <2>5, <2>6
<1>10. CASE Raise(c)
  <2>1. UNCHANGED storeVars /\ Return(c) /\ Forget(c) /\ got' = [got EXCEPT ![c] = {}]
    BY <1>10 DEF Raise
  <2>2. got' \in [Callers -> SUBSET (Names \X Document)]
    BY <1>0, <2>1 DEF CallTypes
  <2> QED
    BY <1>0, <1>a, <1>c, <2>1, <2>2, ReturnTypes, ForgetTypes, NextTypes
<1> QED
  BY <1>1, <1>2, <1>3, <1>4, <1>5, <1>6, <1>7, <1>8, <1>9, <1>10 DEF Step


-----------------------------------------------------------------------------
\* Neither a queue nor the approved table ever loses an object (skills.py:376).
LEMMA TablesGrow ==
    ASSUME SkillInv, NEW c \in Callers, Call(c) \/ Step(c)
    PROVE  /\ \A q \in Queues : queues[q] \subseteq queues'[q]
           /\ approved \subseteq approved'
<1>1. CASE UNCHANGED queues /\ UNCHANGED approved
  BY <1>1
<1>2. CASE FileProposal(c)
  <2>1. queues' = [queues EXCEPT ![OwnQueue(c)] = @ \cup {FileOf(job[c].name, job[c].doc)}]
    BY <1>2, FileProposalAdds
  <2>2. queues \in [Queues -> SUBSET File]
    BY DEF SkillInv, TypeOK
  <2>3. approved' = approved
    BY <1>2 DEF FileProposal
  <2> QED
    BY <2>1, <2>2, <2>3
<1>3. CASE RecordVersion(c)
  <2>1. approved' = approved \cup {FileOf(DecidedName(c), held[c])} /\ UNCHANGED queues
    BY <1>3, RecordVersionAdds DEF RecordVersion
  <2> QED
    BY <2>1
<1>4. Call(c) => UNCHANGED queues /\ UNCHANGED approved
  BY DEF Call, EnsureTables, Propose, Review, Revoke, Load, LoadAll, Begin, storeVars
<1>5. Step(c) /\ ~FileProposal(c) /\ ~RecordVersion(c) => UNCHANGED queues /\ UNCHANGED approved
  BY DEF Step, CreateTable, ReadProposed, PublishSkill, RejectProposal, WithdrawSkill,
         ListSkills, LoadSkill, Raise, storeVars
<1> QED
  BY <1>1, <1>2, <1>3, <1>4, <1>5

\* A step of one caller leaves the others what they may be doing.
LEMMA OthersStayOK ==
    ASSUME SkillInv, NEW o \in Callers,
           pc'[o] = pc[o], job'[o] = job[o], held'[o] = held[o],
           \A q \in Queues : queues[q] \subseteq queues'[q], approved \subseteq approved'
    PROVE  CallOK(o)'
<1>1. CallOK(o)
  BY CallInvIsCallOK DEF SkillInv
<1>2. pc[o] \in {"record", "publish", "note"} => Queue[job[o].proposal.proposer] \in Queues
  BY DecisionFacts
<1>3. DecidedName(o)' = DecidedName(o)
  BY DEF DecidedName, NameOf
<1> QED
  BY <1>1, <1>2, <1>3 DEF CallOK

\* Nothing is asked of a caller that holds no document and names none.
LEMMA ElsewhereOK ==
    ASSUME NEW c, pc'[c] \notin {"file", "read", "record", "publish", "note", "withdraw"}
    PROVE  CallOK(c)'
  BY DEF CallOK

\* A step changes the place, the call and the document of its caller only.
LEMMA OnlyItsCaller ==
    ASSUME TypeOK, NEW c \in Callers, Call(c) \/ Step(c), NEW o \in Callers \ {c}
    PROVE  pc'[o] = pc[o] /\ job'[o] = job[o] /\ held'[o] = held[o]
<1>0. DOMAIN pc = Callers /\ DOMAIN job = Callers /\ DOMAIN held = Callers
  BY DEF TypeOK
<1>1. CASE Call(c)
  <2>1. PICK call, first : Begin(c, call, first)
    BY <1>1 DEF Call, EnsureTables, Propose, Review, Revoke, Load, LoadAll
  <2> QED
    BY <1>0, <2>1 DEF Begin
<1>2. Return(c) => pc'[o] = pc[o] /\ job'[o] = job[o] /\ held'[o] = held[o]
  BY <1>0 DEF Return
<1>3. ASSUME NEW to, Goto(c, to)
      PROVE  pc'[o] = pc[o] /\ job'[o] = job[o] /\ held'[o] = held[o]
  BY <1>0, <1>3 DEF Goto
<1>4. CASE Step(c)
  <2>1. CASE CreateTable(c) \/ RecordVersion(c)
    <3>1. (\E to : Goto(c, to)) \/ Return(c)
      BY <2>1 DEF CreateTable, RecordVersion
    <3> QED
      BY <1>2, <1>3, <3>1
  <2>2. CASE FileProposal(c) \/ PublishSkill(c) \/ RejectProposal(c) \/ WithdrawSkill(c) \/ Raise(c)
    BY <1>2, <2>2 DEF FileProposal, PublishSkill, RejectProposal, WithdrawSkill, Raise
  <2>3. CASE ReadProposed(c)
    BY <1>0, <2>3 DEF ReadProposed
  <2>4. CASE ListSkills(c)
    BY <1>0, <1>2, <2>4 DEF ListSkills
  <2>5. CASE LoadSkill(c)
    BY <1>2, <2>5 DEF LoadSkill
  <2> QED
    BY <1>4, <2>1, <2>2, <2>3, <2>4, <2>5 DEF Step
<1> QED
  BY <1>1, <1>4

\* Every step of a caller leaves it where its method goes.
LEMMA ItselfOK ==
    ASSUME SkillInv, NEW c \in Callers, Call(c) \/ Step(c)
    PROVE  CallOK(c)'
<1>0. /\ DOMAIN pc = Callers /\ DOMAIN job = Callers /\ DOMAIN held = Callers
      /\ CallOK(c)
  BY CallInvIsCallOK DEF SkillInv, TypeOK
<1>r. ASSUME Return(c) PROVE CallOK(c)'
  <2>1. pc'[c] = "idle"
    BY <1>0, <1>r DEF Return
  <2> QED
    BY <2>1, ElsewhereOK
<1>1. CASE Call(c)
  <2>1. CASE EnsureTables(c) \/ Load(c) \/ LoadAll(c)
    <3>1. pc'[c] \in {"proposed", "load", "list"}
      BY <1>0, <2>1 DEF EnsureTables, Load, LoadAll, Begin
    <3> QED
      BY <3>1, ElsewhereOK
  <2>2. CASE Propose(c)
    <3>1. pc'[c] = "file" /\ job'[c].op = "propose"
      BY <1>0, <2>2 DEF Propose, Begin
    <3> QED
      BY <3>1 DEF CallOK
  <2>3. CASE Review(c)
    <3>1. pc'[c] = "read" /\ job'[c].op \in {"approve", "reject"}
      BY <1>0, <2>3 DEF Review, Begin
    <3> QED
      BY <3>1 DEF CallOK
  <2>4. CASE Revoke(c)
    <3>1. pc'[c] = "withdraw" /\ job'[c].op = "revoke"
      BY <1>0, <2>4 DEF Revoke, Begin
    <3> QED
      BY <3>1 DEF CallOK
  <2> QED
    BY <1>1, <2>1, <2>2, <2>3, <2>4 DEF Call
<1>2. CASE CreateTable(c)
  <2>1. Goto(c, "approved") \/ Goto(c, "rejected") \/ Return(c)
    BY <1>2 DEF CreateTable
  <2>2. pc'[c] \in {"idle", "approved", "rejected"}
    BY <1>0, <2>1 DEF Goto, Return
  <2> QED
    BY <2>2, ElsewhereOK
<1>3. CASE FileProposal(c) \/ PublishSkill(c) \/ RejectProposal(c) \/ WithdrawSkill(c) \/ Raise(c)
  BY <1>r, <1>3 DEF FileProposal, PublishSkill, RejectProposal, WithdrawSkill, Raise
<1>4. CASE ReadProposed(c)
  <2> DEFINE p == job[c].proposal
  <2>1. /\ pc[c] = "read" /\ UNCHANGED <<queues, job>>
        /\ pc' = [pc EXCEPT ![c] = IF job[c].op = "approve" THEN "record" ELSE "note"]
    BY <1>4 DEF ReadProposed, storeVars
  <2>2. PICK f \in queues[Queue[p.proposer]] :
          f.name = p.name /\ f.version = p.version /\ held' = [held EXCEPT ![c] = f.doc]
    BY <1>4 DEF ReadProposed
  <2>3. job[c].op \in {"approve", "reject"}
    BY <1>0, <2>1 DEF CallOK
  <2>4. f \in File
    <3>1. Queue[p.proposer] \in Queues
      BY <2>3, JobFields DEF SkillInv
    <3> QED
      BY <3>1, TablesTell DEF Telling
  <2>5. f = [name |-> p.name, version |-> p.version, doc |-> held'[c]]
    BY <1>0, <2>2, <2>4, FileFields
  <2>6. pc'[c] \in {"record", "note"}
    BY <1>0, <2>1
  <2> QED
    BY <2>1, <2>2, <2>3, <2>5, <2>6 DEF CallOK
<1>5. CASE RecordVersion(c)
  <2>1. /\ pc[c] = "record" /\ UNCHANGED <<queues, job, held>>
        /\ pc' = [pc EXCEPT ![c] = "publish"]
    BY <1>5 DEF RecordVersion, Goto
  <2>2. job[c].proposal.version = Hash(held[c])
    BY <2>1, DecisionFacts
  <2>3. approved' = approved \cup {FileOf(DecidedName(c), held[c])}
    BY <1>5, RecordVersionAdds
  <2>4. [name |-> DecidedName(c), version |-> job[c].proposal.version, doc |-> held[c]] \in approved'
    BY <2>2, <2>3 DEF FileOf
  <2>5. DecidedName(c)' = DecidedName(c)
    BY <2>1 DEF DecidedName, NameOf
  <2> QED
    BY <1>0, <2>1, <2>4, <2>5 DEF CallOK
<1>6. CASE ListSkills(c)
  <2>1. pc'[c] = "load" \/ Return(c)
    BY <1>0, <1>6 DEF ListSkills
  <2> QED
    BY <1>r, <2>1, ElsewhereOK
<1>7. CASE LoadSkill(c)
  <2>1. (pc'[c] = pc[c] /\ pc[c] = "load") \/ Return(c)
    BY <1>7 DEF LoadSkill
  <2> QED
    BY <1>r, <2>1, ElsewhereOK
<1> QED
  BY <1>1, <1>2, <1>3, <1>4, <1>5, <1>6, <1>7 DEF Step

\* Each object still holds what its key says.
LEMMA VersionsStillTell ==
    ASSUME SkillInv, NEW c \in Callers, Call(c) \/ Step(c)
    PROVE  VersionsTell'
<1>1. VersionsTell
  BY DEF SkillInv
<1>2. CASE UNCHANGED queues /\ UNCHANGED approved
  BY <1>1, <1>2 DEF VersionsTell
<1>3. CASE FileProposal(c)
  <2>1. /\ queues' = [queues EXCEPT ![OwnQueue(c)] = @ \cup {FileOf(job[c].name, job[c].doc)}]
        /\ Telling(queues[OwnQueue(c)] \cup {FileOf(job[c].name, job[c].doc)})
    BY <1>3, FileProposalAdds
  <2>2. \A q \in Queues : queues'[q] = queues[q] \/ Telling(queues'[q])
    BY <2>1 DEF SkillInv, TypeOK
  <2>3. \A q \in Queues : \A f \in queues'[q] : f.version = Hash(f.doc)
    BY <2>2, TablesTell DEF Telling
  <2>4. \A f \in approved' : f.version = Hash(f.doc)
    BY <1>3, TablesTell DEF FileProposal, Telling
  <2> QED
    BY <2>3, <2>4 DEF VersionsTell
<1>4. CASE RecordVersion(c)
  <2>1. Telling(approved') /\ UNCHANGED queues
    BY <1>4, RecordVersionAdds DEF RecordVersion
  <2> QED
    BY <2>1, TablesTell DEF Telling, VersionsTell
<1>5. Call(c) => UNCHANGED queues /\ UNCHANGED approved
  BY DEF Call, EnsureTables, Propose, Review, Revoke, Load, LoadAll, Begin, storeVars
<1>6. Step(c) /\ ~FileProposal(c) /\ ~RecordVersion(c) => UNCHANGED queues /\ UNCHANGED approved
  BY DEF Step, CreateTable, ReadProposed, PublishSkill, RejectProposal, WithdrawSkill,
         ListSkills, LoadSkill, Raise, storeVars
<1> QED
  BY <1>2, <1>3, <1>4, <1>5, <1>6

\* What is live is still on record: only approve makes a document live, and it has
\* recorded it before; and the record only grows.
LEMMA LiveStaysOnRecord ==
    ASSUME SkillInv, NEW c \in Callers, Call(c) \/ Step(c)
    PROVE  LiveIsOnRecord'
<1>1. LiveIsOnRecord /\ live \in [Names -> Document \cup {None}]
  BY DEF SkillInv, TypeOK
<1>2. approved \subseteq approved'
  BY TablesGrow
<1>3. CASE UNCHANGED live
  BY <1>1, <1>2, <1>3 DEF LiveIsOnRecord, ListApproved, NameOf
<1>4. CASE PublishSkill(c)
  <2>1. pc[c] = "publish" /\ live' = [live EXCEPT ![DecidedName(c)] = held[c]]
    BY <1>4 DEF PublishSkill, SetLive
  <2>2. /\ FileOf(DecidedName(c), held[c]) \in approved
        /\ NameOf(held[c], DecidedName(c)) = DecidedName(c)
    BY <2>1, DecisionFacts
  <2>3. ASSUME NEW n \in Names, live'[n] # None
        PROVE  /\ [name |-> n, version |-> Hash(live'[n]), doc |-> live'[n]] \in approved'
               /\ NameOf(live'[n], n) = n
    <3>1. CASE n = DecidedName(c)
      BY <1>1, <1>2, <2>1, <2>2, <3>1 DEF FileOf
    <3>2. CASE n # DecidedName(c)
      <4>1. live'[n] = live[n]
        BY <1>1, <2>1, <3>2
      <4> QED
        BY <1>1, <1>2, <2>3, <4>1 DEF LiveIsOnRecord, ListApproved
    <3> QED
      BY <3>1, <3>2
  <2> QED
    BY <2>3 DEF LiveIsOnRecord, ListApproved, NameOf
<1>5. CASE WithdrawSkill(c)
  <2>1. live' = [live EXCEPT ![job[c].name] = None]
    BY <1>5 DEF WithdrawSkill, SetLive
  <2>2. \A n \in Names : live'[n] # None => live'[n] = live[n]
    BY <1>1, <2>1
  <2> QED
    BY <1>1, <1>2, <2>2 DEF LiveIsOnRecord, ListApproved, NameOf
<1>6. Call(c) => UNCHANGED live
  BY DEF Call, EnsureTables, Propose, Review, Revoke, Load, LoadAll, Begin, storeVars
<1>7. Step(c) /\ ~PublishSkill(c) /\ ~WithdrawSkill(c) => UNCHANGED live
  BY DEF Step, CreateTable, FileProposal, ReadProposed, RecordVersion, RejectProposal,
         ListSkills, LoadSkill, Raise, storeVars
<1> QED
  BY <1>3, <1>4, <1>5, <1>6, <1>7

\* Empty tables satisfy the invariant, ...
LEMMA SkillInvInit == Init => SkillInv
<1> SUFFICES ASSUME Init
             PROVE  SkillInv
  OBVIOUS
<1>1. StoreTypes
  BY DEF Init, StoreTypes, Tables
<1>2. CallTypes
  <2>1. [op |-> "none"] \in Job
    BY DEF Job
  <2> QED
    BY <2>1 DEF Init, CallTypes, Places
<1>3. CallInv
  BY DEF Init, CallInv
<1>4. VersionsTell
  BY DEF Init, VersionsTell
<1>5. LiveIsOnRecord
  BY DEF Init, LiveIsOnRecord, ListApproved
<1> QED
  BY <1>1, <1>2, <1>3, <1>4, <1>5, TypesAreTypes DEF SkillInv

\* ... and every step keeps it.
LEMMA SkillInvNext == SkillInv /\ [Next]_vars => SkillInv'
<1> SUFFICES ASSUME SkillInv, [Next]_vars
             PROVE  SkillInv'
  OBVIOUS
<1>1. CASE UNCHANGED vars
  <2>1. TypeOK'
    BY <1>1 DEF SkillInv, vars, TypeOK, Tables, File, Version, Document, Job, Proposal
  <2>2. CallInv'
    BY <1>1 DEF SkillInv, vars, CallInv, DecidedName, NameOf
  <2>3. VersionsTell'
    BY <1>1 DEF SkillInv, vars, VersionsTell
  <2>4. LiveIsOnRecord'
    BY <1>1 DEF SkillInv, vars, LiveIsOnRecord, ListApproved, NameOf
  <2> QED
    BY <2>1, <2>2, <2>3, <2>4 DEF SkillInv
<1>2. ASSUME NEW c \in Callers, Call(c) \/ Step(c)
      PROVE  SkillInv'
  <2>1. TypeOK'
    BY <1>2, CallPreservesTypes, StepPreservesTypes DEF SkillInv
  <2>2. CallInv'
    <3>1. ASSUME NEW o \in Callers
          PROVE  CallOK(o)'
      <4>1. CASE o = c
        BY <1>2, <4>1, ItselfOK
      <4>2. CASE o # c
        <5>1. pc'[o] = pc[o] /\ job'[o] = job[o] /\ held'[o] = held[o]
          BY <1>2, <4>2, OnlyItsCaller DEF SkillInv
        <5> QED
          BY <1>2, <5>1, TablesGrow, OthersStayOK
      <4> QED
        BY <4>1, <4>2
    <3> QED
      BY <3>1 DEF CallInv, CallOK
  <2>3. VersionsTell'
    BY <1>2, VersionsStillTell
  <2>4. LiveIsOnRecord'
    BY <1>2, LiveStaysOnRecord
  <2> QED
    BY <2>1, <2>2, <2>3, <2>4 DEF SkillInv
<1> QED
  BY <1>1, <1>2 DEF Next, AllIdle

-----------------------------------------------------------------------------
\* Every object holds what its key says and whatever is live is on record under
\* its own name, whichever calls interleave and wherever they stop
\* (skills.py:27, 329, 376).
THEOREM SkillInvariant == Spec => []SkillInv
  BY SkillInvInit, SkillInvNext, PTL DEF Spec

-----------------------------------------------------------------------------
\* The mapping: what has been filed and what is on record.
Filed    == {f.doc : f \in UNION {queues[q] : q \in Queues}}
Recorded == {<<f.name, f.doc>> : f \in approved}

\* An abstract step, or none.
Implements == [Library!Next]_<<Filed, Recorded, live>>

\* Nothing is filed unless a queue changes, ...
LEMMA QueuesKeptFiled ==
    ASSUME UNCHANGED queues
    PROVE  UNCHANGED Filed
  BY DEF Filed

\* ... and nothing recorded unless the approved table does.
LEMMA ApprovedKeptRecorded ==
    ASSUME UNCHANGED approved
    PROVE  UNCHANGED Recorded
  BY DEF Recorded

\* What another object in one queue adds to what has been filed.
LEMMA FiledAdds ==
    ASSUME SkillInv, NEW c \in Callers, FileProposal(c)
    PROVE  Filed' = Filed \cup {job[c].doc}
<1> DEFINE g == FileOf(job[c].name, job[c].doc)
           q0 == OwnQueue(c)
<1>1. q0 \in Queues /\ queues' = [queues EXCEPT ![q0] = @ \cup {g}] /\ g.doc = job[c].doc
  BY FileProposalAdds, FileOfType
<1>2. queues \in [Queues -> SUBSET File]
  BY DEF SkillInv, TypeOK
<1>3. UNION {queues'[q] : q \in Queues} = (UNION {queues[q] : q \in Queues}) \cup {g}
  <2>1. \A q \in Queues : queues'[q] = IF q = q0 THEN queues[q] \cup {g} ELSE queues[q]
    BY <1>1, <1>2
  <2> HIDE DEF g, q0
  <2> QED
    BY <1>1, <2>1
<1> QED
  BY <1>1, <1>3 DEF Filed

\* What the first write of approve adds to the record.
LEMMA RecordedAdds ==
    ASSUME SkillInv, NEW c \in Callers, RecordVersion(c)
    PROVE  Recorded' = Recorded \cup {<<DecidedName(c), held[c]>>}
<1> DEFINE g == FileOf(DecidedName(c), held[c])
<1>1. held[c] \in Document /\ DecidedName(c) \in Names
  BY DecisionFacts DEF RecordVersion
<1>2. approved' = approved \cup {g} /\ g.name = DecidedName(c) /\ g.doc = held[c]
  BY <1>1, RecordVersionAdds, FileOfType
<1> HIDE DEF g
<1> QED
  BY <1>2 DEF Recorded

\* What a caller that decides about a document knows of what has been filed and recorded.
LEMMA DecidedIsFiled ==
    ASSUME SkillInv, NEW c \in Callers, pc[c] \in {"record", "publish"}
    PROVE  /\ held[c] \in Filed
           /\ pc[c] = "publish" => <<DecidedName(c), held[c]>> \in Recorded
<1> DEFINE g == FileOf(job[c].proposal.name, held[c])
           h == FileOf(DecidedName(c), held[c])
           q == Queue[job[c].proposal.proposer]
<1>1. g \in queues[q] /\ q \in Queues /\ (pc[c] = "publish" => h \in approved)
  BY DecisionFacts
<1>2. g.doc = held[c] /\ h.name = DecidedName(c) /\ h.doc = held[c]
  BY DEF FileOf
<1> HIDE DEF g, h, q
<1> QED
  BY <1>1, <1>2 DEF Filed, Recorded

\* Empty tables are an empty library.
LEMMA InitImplements == Init => Library!Init
  BY DEF Init, Library!Init

\* Each step of a call is one of the abstract specification or none.
LEMMA StepImplements ==
    ASSUME SkillInv, NEW c \in Callers, Call(c) \/ Step(c)
    PROVE  Implements
<1>1. CASE UNCHANGED queues /\ UNCHANGED approved /\ UNCHANGED live
  BY <1>1, QueuesKeptFiled, ApprovedKeptRecorded DEF Implements
<1>2. CASE FileProposal(c)
  <2>1. Filed' = Filed \cup {job[c].doc} /\ job[c].doc \in Document
    BY <1>2, FiledAdds, FileProposalAdds
  <2>2. UNCHANGED Recorded /\ UNCHANGED live
    BY <1>2, ApprovedKeptRecorded DEF FileProposal
  <2>3. PICK d \in Document : d = job[c].doc
    BY <2>1
  <2>4. Library!File(d)
    BY <2>1, <2>2, <2>3 DEF Library!File, Filed, Recorded
  <2> QED
    BY <2>4 DEF Implements, Library!Next
<1>3. CASE RecordVersion(c)
  <2>1. pc[c] = "record" /\ UNCHANGED queues /\ UNCHANGED live
    BY <1>3 DEF RecordVersion
  <2>2. Recorded' = Recorded \cup {<<DecidedName(c), held[c]>>} /\ UNCHANGED Filed
    BY <1>3, <2>1, RecordedAdds, QueuesKeptFiled
  <2>3. held[c] \in Filed /\ held[c] \in Document /\ DecidedName(c) \in Names
    BY <2>1, DecidedIsFiled, DecisionFacts
  <2>4. PICK n \in Names, d \in Document : n = DecidedName(c) /\ d = held[c]
    BY <2>3
  <2>5. Library!Record(n, d)
    BY <2>1, <2>2, <2>3, <2>4 DEF Library!Record, Filed, Recorded
  <2> QED
    BY <2>5 DEF Implements, Library!Next
<1>4. CASE PublishSkill(c)
  <2>1. /\ pc[c] = "publish" /\ UNCHANGED queues /\ UNCHANGED approved
        /\ live' = [live EXCEPT ![DecidedName(c)] = held[c]]
    BY <1>4 DEF PublishSkill, SetLive
  <2>2. UNCHANGED Filed /\ UNCHANGED Recorded
    BY <2>1, QueuesKeptFiled, ApprovedKeptRecorded
  <2>3. /\ <<DecidedName(c), held[c]>> \in Recorded
        /\ held[c] \in Document /\ DecidedName(c) \in Names
    BY <2>1, DecidedIsFiled, DecisionFacts
  <2>4. PICK n \in Names, d \in Document : n = DecidedName(c) /\ d = held[c]
    BY <2>3
  <2>5. Library!Publish(n, d)
    BY <2>1, <2>2, <2>3, <2>4 DEF Library!Publish, Filed, Recorded
  <2> QED
    BY <2>5 DEF Implements, Library!Next
<1>5. CASE WithdrawSkill(c)
  <2>1. /\ pc[c] = "withdraw" /\ UNCHANGED queues /\ UNCHANGED approved
        /\ live' = [live EXCEPT ![job[c].name] = None]
    BY <1>5 DEF WithdrawSkill, SetLive
  <2>2. UNCHANGED Filed /\ UNCHANGED Recorded
    BY <2>1, QueuesKeptFiled, ApprovedKeptRecorded
  <2>3. job[c].name \in Names
    BY <2>1, JobFields, CallInvIsCallOK DEF SkillInv, CallOK
  <2>4. PICK n \in Names : n = job[c].name
    BY <2>3
  <2>5. Library!Withdraw(n)
    BY <2>1, <2>2, <2>4 DEF Library!Withdraw, Filed, Recorded
  <2> QED
    BY <2>5 DEF Implements, Library!Next
<1>6. Call(c) => UNCHANGED queues /\ UNCHANGED approved /\ UNCHANGED live
  BY DEF Call, EnsureTables, Propose, Review, Revoke, Load, LoadAll, Begin, storeVars
<1>7. Step(c) /\ ~FileProposal(c) /\ ~RecordVersion(c) /\ ~PublishSkill(c) /\ ~WithdrawSkill(c)
        => UNCHANGED queues /\ UNCHANGED approved /\ UNCHANGED live
  BY DEF Step, CreateTable, ReadProposed, RejectProposal, ListSkills, LoadSkill, Raise, storeVars
<1> QED
  BY <1>1, <1>2, <1>3, <1>4, <1>5, <1>6, <1>7

\* Proposals, approvals, rejections and revocations of any number of agents, each
\* in steps and failing at any of them, are those of SkillLibrary.
THEOREM SkillsImplementLibrary == Spec => ImplementsLibrary
<1>1. Init => Library!Init
  BY InitImplements
<1>2. SkillInv /\ [Next]_vars => [Library!Next]_(Library!vars)
  <2> SUFFICES ASSUME SkillInv, [Next]_vars
               PROVE  [Library!Next]_(Library!vars)
    OBVIOUS
  <2>1. CASE UNCHANGED vars
    <3>1. UNCHANGED queues /\ UNCHANGED approved /\ UNCHANGED live
      BY <2>1 DEF vars
    <3> QED
      BY <3>1, QueuesKeptFiled, ApprovedKeptRecorded DEF Library!vars, Filed, Recorded
  <2>2. ASSUME NEW c \in Callers, Call(c) \/ Step(c)
        PROVE  [Library!Next]_(Library!vars)
    BY <2>2, StepImplements DEF Implements, Library!vars, Filed, Recorded
  <2> QED
    BY <2>1, <2>2 DEF Next, AllIdle
<1> QED
  BY <1>1, <1>2, SkillInvariant, PTL DEF Spec, ImplementsLibrary, Library!Spec

-----------------------------------------------------------------------------
\* What a load knows: what is live has been seen, what has been live throughout
\* still is, and is either loaded already or still to be loaded.
LoadOK(c) ==
    /\ pc[c] \in {"list", "load"} =>
          /\ \A n \in Names : live[n] # None => <<n, live[n]>> \in seen[c]
          /\ \A n \in steady[c] : n \in Names /\ live[n] # None
    /\ pc[c] = "load" =>
          /\ got[c] \subseteq seen[c]
          /\ \A n \in steady[c] : n \in todo[c] \/ \E d \in Document : <<n, d>> \in got[c]
    /\ pc[c] = "list" => got[c] = {}

LoadInv == \A c \in Callers : LoadOK(c)

\* Nothing is asked of a caller that loads nothing.
LEMMA NotLoadingOK ==
    ASSUME NEW c, pc'[c] \notin {"list", "load"}
    PROVE  LoadOK(c)'
  BY DEF LoadOK

\* Putting or removing a SKILL.md while another caller loads.
LEMMA SetLiveKeepsLoad ==
    ASSUME SkillInv, NEW o \in Callers, LoadOK(o), NEW n \in Names, NEW d \in Document \cup {None},
           SetLive(n, d), pc'[o] = pc[o], todo'[o] = todo[o], got'[o] = got[o]
    PROVE  LoadOK(o)'
<1>1. live \in [Names -> Document \cup {None}]
  BY DEF SkillInv, TypeOK
<1>2. \A m \in Names : live'[m] = IF m = n THEN d ELSE live[m]
  BY <1>1 DEF SetLive
<1>3. CASE pc[o] \notin {"list", "load"}
  BY <1>3, NotLoadingOK
<1>4. CASE pc[o] \in {"list", "load"}
  <2>1. /\ seen'[o] = IF d # None THEN seen[o] \cup {<<n, d>>} ELSE seen[o]
        /\ steady'[o] = IF d = None THEN steady[o] \ {n} ELSE steady[o]
    BY <1>4 DEF SetLive
  <2>2. \A m \in Names : live'[m] # None => <<m, live'[m]>> \in seen'[o]
    <3> SUFFICES ASSUME NEW m \in Names, live'[m] # None
                 PROVE  <<m, live'[m]>> \in seen'[o]
      OBVIOUS
    <3>1. CASE m = n
      BY <1>2, <2>1, <3>1
    <3>2. CASE m # n
      BY <1>2, <1>4, <2>1, <3>2 DEF LoadOK
    <3> QED
      BY <3>1, <3>2
  <2>3. \A m \in steady'[o] : m \in Names /\ live'[m] # None
    BY <1>2, <1>4, <2>1 DEF LoadOK
  <2>4. seen[o] \subseteq seen'[o] /\ steady'[o] \subseteq steady[o]
    BY <2>1
  <2>5. pc[o] = "load" =>
          /\ got'[o] \subseteq seen'[o]
          /\ \A m \in steady'[o] : m \in todo'[o] \/ \E e \in Document : <<m, e>> \in got'[o]
    BY <2>4 DEF LoadOK
  <2>6. pc[o] = "list" => got'[o] = {}
    BY DEF LoadOK
  <2> QED
    BY <2>2, <2>3, <2>5, <2>6 DEF LoadOK
<1> QED
  BY <1>3, <1>4

\* A step of another caller: it may change what is live, and then the history knows.
LEMMA OthersKeepLoad ==
    ASSUME SkillInv, NEW c \in Callers, Call(c) \/ Step(c), NEW o \in Callers \ {c}, LoadOK(o)
    PROVE  LoadOK(o)'
<1>0. /\ DOMAIN pc = Callers /\ DOMAIN todo = Callers /\ DOMAIN got = Callers
      /\ DOMAIN seen = Callers /\ DOMAIN steady = Callers
  BY DEF SkillInv, TypeOK
<1>1. pc'[o] = pc[o]
  BY OnlyItsCaller DEF SkillInv
<1>r. Return(c) => todo'[o] = todo[o]
  BY <1>0 DEF Return
<1>f. Forget(c) => seen'[o] = seen[o] /\ steady'[o] = steady[o]
  BY <1>0 DEF Forget
<1>2. ASSUME UNCHANGED live, todo'[o] = todo[o], got'[o] = got[o],
             seen'[o] = seen[o], steady'[o] = steady[o]
      PROVE  LoadOK(o)'
  BY <1>1, <1>2 DEF LoadOK
<1>3. CASE Call(c)
  <2>1. UNCHANGED live /\ got'[o] = got[o]
    BY <1>0, <1>3 DEF Call, EnsureTables, Propose, Review, Revoke, Load, LoadAll, Begin, storeVars
  <2>2. CASE UNCHANGED <<todo, history>>
    BY <1>2, <2>1, <2>2 DEF history
  <2>3. ASSUME NEW wanted, Watch(c, wanted)
        PROVE  seen'[o] = seen[o] /\ steady'[o] = steady[o]
    BY <1>0, <2>3 DEF Watch
  <2>4. CASE Load(c) \/ LoadAll(c)
    <3>1. todo'[o] = todo[o] /\ \E wanted : Watch(c, wanted)
      BY <1>0, <2>4 DEF Load, LoadAll
    <3> QED
      BY <1>2, <2>1, <2>3, <3>1
  <2> QED
    BY <1>3, <2>2, <2>4 DEF Call, EnsureTables, Propose, Review, Revoke
<1>4. CASE CreateTable(c) \/ FileProposal(c) \/ RecordVersion(c) \/ RejectProposal(c)
  <2>1. UNCHANGED <<live, got, history>> /\ (Return(c) \/ UNCHANGED todo)
    BY <1>4 DEF CreateTable, FileProposal, RecordVersion, RejectProposal, Goto
  <2> QED
    BY <1>2, <1>r, <2>1 DEF history
<1>5. CASE ReadProposed(c)
  BY <1>2, <1>5 DEF ReadProposed, storeVars, history
<1>6. CASE PublishSkill(c)
  <2>1. pc[c] = "publish" /\ SetLive(DecidedName(c), held[c]) /\ Return(c) /\ UNCHANGED got
    BY <1>6 DEF PublishSkill
  <2> QED
    BY <1>1, <1>r, <2>1, DecisionFacts, SetLiveKeepsLoad
<1>7. CASE WithdrawSkill(c)
  <2>1. pc[c] = "withdraw" /\ SetLive(job[c].name, None) /\ Return(c) /\ UNCHANGED got
    BY <1>7 DEF WithdrawSkill
  <2>2. job[c].name \in Names
    BY <2>1, JobFields, CallInvIsCallOK DEF SkillInv, CallOK
  <2> QED
    BY <1>1, <1>r, <2>1, <2>2, SetLiveKeepsLoad
<1>8. CASE ListSkills(c)
  <2>1. UNCHANGED live /\ UNCHANGED got
    BY <1>8 DEF ListSkills, storeVars
  <2>2. todo'[o] = todo[o] /\ seen'[o] = seen[o] /\ steady'[o] = steady[o]
    BY <1>0, <1>8, <1>r, <1>f DEF ListSkills, history
  <2> QED
    BY <1>2, <2>1, <2>2
<1>9. CASE LoadSkill(c)
  <2>1. UNCHANGED live /\ got'[o] = got[o]
    BY <1>0, <1>9 DEF LoadSkill, storeVars
  <2>2. todo'[o] = todo[o] /\ seen'[o] = seen[o] /\ steady'[o] = steady[o]
    BY <1>0, <1>9, <1>r, <1>f DEF LoadSkill, history
  <2> QED
    BY <1>2, <2>1, <2>2
<1>10. CASE Raise(c)
  <2>1. UNCHANGED live /\ got'[o] = got[o] /\ Return(c) /\ Forget(c)
    BY <1>0, <1>10 DEF Raise, storeVars
  <2> QED
    BY <1>2, <1>r, <1>f, <2>1
<1> QED
  BY <1>3, <1>4, <1>5, <1>6, <1>7, <1>8, <1>9, <1>10 DEF Step

\* A step of the caller itself.
LEMMA ItselfKeepsLoad ==
    ASSUME SkillInv, NEW c \in Callers, Call(c) \/ Step(c), LoadOK(c)
    PROVE  LoadOK(c)'
<1>0. /\ DOMAIN pc = Callers /\ DOMAIN todo = Callers /\ DOMAIN got = Callers
      /\ DOMAIN seen = Callers /\ DOMAIN steady = Callers
      /\ live \in [Names -> Document \cup {None}]
  BY DEF SkillInv, TypeOK
<1>r. ASSUME Return(c) PROVE LoadOK(c)'
  <2>1. pc'[c] = "idle"
    BY <1>0, <1>r DEF Return
  <2> QED
    BY <2>1, NotLoadingOK
<1>1. CASE EnsureTables(c) \/ Propose(c) \/ Review(c) \/ Revoke(c)
  <2>1. pc'[c] \in {"proposed", "file", "read", "withdraw"}
    BY <1>0, <1>1 DEF EnsureTables, Propose, Review, Revoke, Begin
  <2> QED
    BY <2>1, NotLoadingOK
<1>2. ASSUME NEW call, NEW first, NEW wanted, Begin(c, call, first), Watch(c, wanted),
             first = "list" \/ (first = "load" /\ todo'[c] = wanted)
      PROVE  LoadOK(c)'
  <2>1. pc'[c] = first /\ got'[c] = {} /\ live' = live
    BY <1>0, <1>2 DEF Begin, storeVars
  <2>2. /\ seen'[c] = {<<n, live[n]>> : n \in ListApproved}
        /\ steady'[c] = ListApproved \cap wanted
    BY <1>0, <1>2 DEF Watch
  <2> QED
    BY <1>2, <2>1, <2>2 DEF LoadOK, ListApproved
<1>3. CASE Load(c)
  <2>1. PICK wanted \in {{n} : n \in Names} :
          Begin(c, [op |-> "load"], "load") /\ Watch(c, wanted) /\ todo' = [todo EXCEPT ![c] = wanted]
    BY <1>3 DEF Load
  <2> QED
    BY <1>0, <1>2, <2>1
<1>4. CASE LoadAll(c)
  BY <1>2, <1>4 DEF LoadAll
<1>5. CASE CreateTable(c)
  <2>1. Goto(c, "approved") \/ Goto(c, "rejected") \/ Return(c)
    BY <1>5 DEF CreateTable
  <2>2. pc'[c] \in {"idle", "approved", "rejected"}
    BY <1>0, <2>1 DEF Goto, Return
  <2> QED
    BY <2>2, NotLoadingOK
<1>6. CASE ReadProposed(c) \/ RecordVersion(c)
  <2>1. pc'[c] \in {"record", "note", "publish"}
    BY <1>0, <1>6 DEF ReadProposed, RecordVersion, Goto
  <2> QED
    BY <2>1, NotLoadingOK
<1>7. CASE FileProposal(c) \/ PublishSkill(c) \/ RejectProposal(c) \/ WithdrawSkill(c) \/ Raise(c)
  BY <1>r, <1>7 DEF FileProposal, PublishSkill, RejectProposal, WithdrawSkill, Raise
<1>8. CASE ListSkills(c)
  <2>1. CASE Return(c)
    BY <1>r, <2>1
  <2>2. CASE /\ pc' = [pc EXCEPT ![c] = "load"] /\ todo' = [todo EXCEPT ![c] = ListApproved]
             /\ UNCHANGED history
    <3>1. pc[c] = "list" /\ UNCHANGED live /\ UNCHANGED got
      BY <1>8 DEF ListSkills, storeVars
    <3>2. pc'[c] = "load" /\ todo'[c] = ListApproved /\ got'[c] = {}
          /\ seen'[c] = seen[c] /\ steady'[c] = steady[c]
      BY <1>0, <2>2, <3>1 DEF LoadOK, history
    <3> QED
      BY <3>1, <3>2 DEF LoadOK, ListApproved
  <2> QED
    BY <1>8, <2>1, <2>2 DEF ListSkills
<1>9. CASE LoadSkill(c)
  <2>1. PICK n \in todo[c] :
          /\ live[n] # None
          /\ got' = [got EXCEPT ![c] = @ \cup {<<n, live[n]>>}]
          /\ \/ Return(c)
             \/ todo' = [todo EXCEPT ![c] = @ \ {n}] /\ UNCHANGED <<pc, history>>
    BY <1>9 DEF LoadSkill
  <2>2. CASE todo' = [todo EXCEPT ![c] = @ \ {n}] /\ UNCHANGED <<pc, history>>
    <3>1. /\ pc'[c] = "load" /\ pc[c] = "load" /\ live' = live
          /\ got'[c] = got[c] \cup {<<n, live[n]>>} /\ todo'[c] = todo[c] \ {n}
          /\ seen'[c] = seen[c] /\ steady'[c] = steady[c]
      BY <1>0, <1>9, <2>1, <2>2 DEF LoadSkill, history, storeVars
    <3>2. n \in Names /\ live[n] \in Document
      BY <1>0, <2>1 DEF SkillInv, TypeOK
    <3>3. got'[c] \subseteq seen'[c]
      BY <2>1, <3>1, <3>2 DEF LoadOK
    <3>4. \A m \in steady'[c] : m \in todo'[c] \/ \E d \in Document : <<m, d>> \in got'[c]
      BY <3>1, <3>2 DEF LoadOK
    <3> QED
      BY <3>1, <3>3, <3>4 DEF LoadOK
  <2> QED
    BY <1>r, <2>1, <2>2
<1> QED
  BY <1>1, <1>3, <1>4, <1>5, <1>6, <1>7, <1>8, <1>9 DEF Call, Step

\* Every step keeps what loads know.
LEMMA LoadInvNext == SkillInv /\ LoadInv /\ [Next]_vars => LoadInv'
<1> SUFFICES ASSUME SkillInv, LoadInv, [Next]_vars
             PROVE  LoadInv'
  OBVIOUS
<1>1. CASE UNCHANGED vars
  BY <1>1 DEF LoadInv, LoadOK, vars
<1>2. ASSUME NEW c \in Callers, Call(c) \/ Step(c), NEW o \in Callers
      PROVE  LoadOK(o)'
  BY <1>2, ItselfKeepsLoad, OthersKeepLoad DEF LoadInv
<1> QED
  BY <1>1, <1>2 DEF Next, AllIdle, LoadInv

\* What a step that ends a load hands out.
FreshLoad ==
    \A c \in Callers :
        pc[c] = "load" /\ pc'[c] = "idle" /\ got'[c] # {} =>
           /\ got'[c] \subseteq seen[c]
           /\ \A n \in steady[c] : \E d \in Document : <<n, d>> \in got'[c]

\* With what a load knows, what it hands out is fresh and complete.
LEMMA LoadInvFresh == SkillInv /\ LoadInv /\ [Next]_vars => FreshLoad \/ UNCHANGED vars
<1> SUFFICES ASSUME SkillInv, LoadInv, NEW c \in Callers, Call(c) \/ Step(c), NEW o \in Callers,
                    pc[o] = "load", pc'[o] = "idle", got'[o] # {}
             PROVE  /\ got'[o] \subseteq seen[o]
                    /\ \A n \in steady[o] : \E d \in Document : <<n, d>> \in got'[o]
  BY DEF Next, AllIdle, FreshLoad
<1>0. /\ DOMAIN pc = Callers /\ DOMAIN got = Callers /\ LoadOK(o)
  BY DEF SkillInv, TypeOK, LoadInv
<1>1. o = c
  BY OnlyItsCaller DEF SkillInv
<1>2. ~Call(c)
  BY <1>1 DEF Call, EnsureTables, Propose, Review, Revoke, Load, LoadAll, Begin
<1>3. LoadSkill(c)
  <2>1. ~Raise(c)
    BY <1>0, <1>1 DEF Raise
  <2> QED
    BY <1>1, <1>2, <2>1 DEF Step, CreateTable, FileProposal, ReadProposed, RecordVersion,
         PublishSkill, RejectProposal, WithdrawSkill, ListSkills
<1>4. PICK n \in todo[c] :
        /\ live[n] # None
        /\ got' = [got EXCEPT ![c] = @ \cup {<<n, live[n]>>}]
        /\ todo[c] = {n} \/ UNCHANGED pc
  BY <1>3 DEF LoadSkill
<1>5. n \in Names /\ live[n] \in Document
  BY <1>4 DEF SkillInv, TypeOK
<1>6. todo[c] = {n} /\ got'[c] = got[c] \cup {<<n, live[n]>>}
  BY <1>0, <1>1, <1>4
<1> QED
  BY <1>0, <1>1, <1>4, <1>5, <1>6 DEF LoadOK

\* What load and load_all return was live at some time while they ran, and no
\* skill that was live all the time is missing, although load_all lists first and
\* reads later (skills.py:281).
THEOREM LoadsAreFreshHolds == Spec => LoadsAreFresh
<1>1. Init => LoadInv
  BY DEF Init, LoadInv, LoadOK
<1>2. Spec => []LoadInv
  BY <1>1, LoadInvNext, SkillInvariant, PTL DEF Spec
<1>3. SkillInv /\ LoadInv /\ [Next]_vars => [FreshLoad]_vars
  BY LoadInvFresh
<1>4. Spec => [][FreshLoad]_vars
  BY <1>2, <1>3, SkillInvariant, PTL DEF Spec
<1> QED
  BY <1>4 DEF LoadsAreFresh, FreshLoad
=============================================================================
