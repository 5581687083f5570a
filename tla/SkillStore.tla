----------------------------- MODULE SkillStore -----------------------------
(***************************************************************************)
(* pylakekeeper.agents.SkillStore (agents/skills.py): agents propose       *)
(* skills into tables of their own, reviewers approve, reject and revoke   *)
(* them in shared ones, and agents load what is approved.                  *)
(*                                                                         *)
(* A table is the set of its objects <name>/<version>.md; the SKILL.md of  *)
(* each name in the approved table is kept apart, as live.  Every object   *)
(* that is written, read or removed is a step, and every step may fail.    *)
(* Hash stands for the first 12 digits of SHA-256, Queue for path_safe.    *)
(* Names contain no "/".                                                   *)
(***************************************************************************)
EXTENDS Naturals, FiniteSets

CONSTANTS
    Callers, Principals, Names, Texts,
    Self,        \* the principal each caller is authenticated as
    Approvers,   \* the callers that hold modify on approved and rejected
    Fronts,      \* the front matters that bodies bring along: [name, by]
    Queues,      \* the names of proposal tables
    Queue,       \* path_safe: the proposal table of each principal
    Hash(_),     \* content hash of a document
    None,        \* no name, no principal, no document
    MaxCalls     \* bound on the calls

Document == [name : Names \cup {None}, by : Principals \cup {None}, text : Texts]

ASSUME CallerAssumption ==
    Self \in [Callers -> Principals] /\ Approvers \subseteq Callers /\ MaxCalls \in Nat
ASSUME FrontAssumption ==
    /\ Fronts \subseteq [name : Names \cup {None}, by : Principals \cup {None}]
    /\ None \notin Names \cup Principals \cup Document
ASSUME QueueAssumption == Queue \in [Principals -> Queues]
ASSUME HashAssumption  == \A d, e \in Document : Hash(d) = Hash(e) => d = e

VARIABLES
    tables,    \* catalog: the tables that exist
    queues,    \* the objects of each proposal table
    approved,  \* the versions in the approved table
    live,      \* SKILL.md of each name in the approved table, or None
    rejected,  \* the notes in the rejected table, with the document they quote
    pc,        \* where each caller is
    job,       \* its call
    held,      \* the document it has read, or None
    todo,      \* the names it has still to load
    got,       \* the skills it has loaded, <<name, document>>, also when done
    seen,      \* history: what has been live at some time during its load
    steady,    \* history: the names it asked for that were live all the time since
    begun      \* number of calls so far

storeVars == <<tables, queues, approved, live, rejected>>
history   == <<seen, steady>>
vars      == <<tables, queues, approved, live, rejected, pc, job, held, todo, got,
               seen, steady, begun>>

Version  == {Hash(d) : d \in Document}
File     == [name : Names, version : Version, doc : Document]
Proposal == [proposer : Principals, name : Names, version : Version]

\* Both shared tables, and the queue of each proposer.
Tables == Queues \cup {"approved", "rejected"}

Init ==
    /\ tables \in {{}, Tables}
    /\ queues = [q \in Queues |-> {}]
    /\ approved = {} /\ live = [n \in Names |-> None] /\ rejected = {}
    /\ pc = [c \in Callers |-> "idle"]
    /\ job = [c \in Callers |-> [op |-> "none"]]
    /\ held = [c \in Callers |-> None]
    /\ todo = [c \in Callers |-> {}] /\ got = [c \in Callers |-> {}]
    /\ seen = [c \in Callers |-> {}] /\ steady = [c \in Callers |-> {}]
    /\ begun = 0

-----------------------------------------------------------------------------
\* format_frontmatter: a body that brings a front matter keeps it.
Format(n, proposer, x, own) ==
    {[name |-> n, by |-> proposer, text |-> x]} \cup
    {[name |-> f.name, by |-> f.by, text |-> x] : f \in own}

\* meta.get("name", ...): the front matter has the word, then the path.
NameOf(doc, n) == IF doc.name = None THEN n ELSE doc.name

\* Mutant: the hash of the body the caller gave, without the front matter.
VersionOfBody(doc) == Hash([doc EXCEPT !.by = None])

\* version_of
VersionOf(doc) == Hash(doc)

\* put: an object replaces the one with its key.
Write(files, n, v, doc) ==
    {f \in files : <<f.name, f.version>> # <<n, v>>} \cup
    {[name |-> n, version |-> v, doc |-> doc]}

\* _proposed: the queue of the principal the caller is authenticated as.
OwnQueue(c) == Queue[Self[c]]

\* list_proposed of one proposer's queue.
ListProposed(p) ==
    {[proposer |-> p, name |-> f.name, version |-> f.version] : f \in queues[Queue[p]]}

\* list, as names: the objects <name>/SKILL.md.
ListApproved == {n \in Names : live[n] # None}

-----------------------------------------------------------------------------
\* c calls a method of its store.
Begin(c, call, first) ==
    /\ pc[c] = "idle" /\ begun < MaxCalls
    /\ pc' = [pc EXCEPT ![c] = first]
    /\ job' = [job EXCEPT ![c] = call]
    /\ got' = [got EXCEPT ![c] = {}]
    /\ begun' = begun + 1
    /\ UNCHANGED <<storeVars, held>>

\* A load begins: what is live now counts.
Watch(c, wanted) ==
    /\ seen' = [seen EXCEPT ![c] = {<<n, live[n]>> : n \in ListApproved}]
    /\ steady' = [steady EXCEPT ![c] = ListApproved \cap wanted]

\* The load is over.
Forget(c) == seen' = [seen EXCEPT ![c] = {}] /\ steady' = [steady EXCEPT ![c] = {}]

\* The call goes on at `to`, ...
Goto(c, to) == pc' = [pc EXCEPT ![c] = to] /\ UNCHANGED <<job, held, todo, begun>>

\* The call of c ends, and what it held in its variables is gone.
Return(c) ==
    /\ pc' = [pc EXCEPT ![c] = "idle"]
    /\ job' = [job EXCEPT ![c] = [op |-> "none"]]
    /\ held' = [held EXCEPT ![c] = None]
    /\ todo' = [todo EXCEPT ![c] = {}]
    /\ UNCHANGED begun

EnsureTables(c) == Begin(c, [op |-> "ensure"], "proposed") /\ UNCHANGED <<todo, history>>

Propose(c) ==
    /\ \E n \in Names, x \in Texts : \E d \in Format(n, Self[c], x, Fronts) :
         Begin(c, [op |-> "propose", name |-> n, doc |-> d], "file")
    /\ UNCHANGED <<todo, history>>

\* approve and reject take a version that was listed at some time.
Review(c) ==
    /\ \E p \in UNION {ListProposed(q) : q \in Principals}, op \in {"approve", "reject"} :
         Begin(c, [op |-> op, proposal |-> p], "read")
    /\ UNCHANGED <<todo, history>>

Revoke(c) ==
    /\ \E n \in Names : Begin(c, [op |-> "revoke", name |-> n], "withdraw")
    /\ UNCHANGED <<todo, history>>

\* load and load_all; of a load it is known what it asks for.
Load(c) ==
    /\ \E wanted \in {{n} : n \in Names} :
         /\ Begin(c, [op |-> "load"], "load")
         /\ Watch(c, wanted)
         /\ todo' = [todo EXCEPT ![c] = wanted]

LoadAll(c) ==
    /\ Begin(c, [op |-> "load_all"], "list")
    /\ Watch(c, Names)
    /\ UNCHANGED todo

-----------------------------------------------------------------------------
\* ensure_tables makes one table after the other; a conflict is success.
CreateTable(c) ==
    /\ pc[c] \in {"proposed", "approved", "rejected"}
    /\ tables' = tables \cup {IF pc[c] = "proposed" THEN OwnQueue(c) ELSE pc[c]}
    /\ CASE pc[c] = "proposed" -> Goto(c, "approved")
         [] pc[c] = "approved" -> Goto(c, "rejected")
         [] pc[c] = "rejected" -> Return(c)
    /\ UNCHANGED <<queues, approved, live, rejected, got, history>>

\* propose writes into the caller's own queue.
FileProposal(c) ==
    /\ pc[c] = "file" /\ OwnQueue(c) \in tables
    /\ queues' = [queues EXCEPT ![OwnQueue(c)] =
                    Write(@, job[c].name, VersionOf(job[c].doc), job[c].doc)]
    /\ Return(c)
    /\ UNCHANGED <<tables, approved, live, rejected, got, history>>

\* read_proposed
ReadProposed(c) ==
    /\ pc[c] = "read"
    /\ LET p == job[c].proposal IN
         \E f \in queues[Queue[p.proposer]] :
            /\ f.name = p.name /\ f.version = p.version
            /\ held' = [held EXCEPT ![c] = f.doc]
    /\ pc' = [pc EXCEPT ![c] = IF job[c].op = "approve" THEN "record" ELSE "note"]
    /\ UNCHANGED <<storeVars, job, todo, got, history, begun>>

\* The name a decision is filed under, and a write that the grants allow.
DecidedName(c) == NameOf(held[c], job[c].proposal.name)
MayDecide(c, t) == c \in Approvers /\ t \in tables

\* SKILL.md of n becomes d.
SetLive(n, d) ==
    /\ live' = [live EXCEPT ![n] = d]
    /\ seen' = [c \in Callers |->
                  IF pc[c] \in {"list", "load"} /\ d # None THEN seen[c] \cup {<<n, d>>}
                                                            ELSE seen[c]]
    /\ steady' = [c \in Callers |-> IF d = None THEN steady[c] \ {n} ELSE steady[c]]

\* Mutant: SKILL.md is put first.
PublishFirst(c) ==
    /\ pc[c] = "record" /\ MayDecide(c, "approved")
    /\ SetLive(DecidedName(c), held[c])
    /\ Goto(c, "publish")
    /\ UNCHANGED <<tables, queues, approved, rejected, got>>

\* approve: first the version is put ...
RecordVersion(c) ==
    /\ pc[c] = "record" /\ MayDecide(c, "approved")
    /\ approved' = Write(approved, DecidedName(c), job[c].proposal.version, held[c])
    /\ Goto(c, "publish")
    /\ UNCHANGED <<tables, queues, live, rejected, got, history>>

\* ... then the pointer to it.
PublishSkill(c) ==
    /\ pc[c] = "publish" /\ MayDecide(c, "approved")
    /\ SetLive(DecidedName(c), held[c])
    /\ Return(c)
    /\ UNCHANGED <<tables, queues, approved, rejected, got>>

\* reject: the note quotes the document and goes under the proposed version.
RejectProposal(c) ==
    /\ pc[c] = "note" /\ MayDecide(c, "rejected")
    /\ rejected' = Write(rejected, DecidedName(c), job[c].proposal.version, held[c])
    /\ Return(c)
    /\ UNCHANGED <<tables, queues, approved, live, got, history>>

\* revoke; a missing object is no error on S3 and one of Raise elsewhere.
WithdrawSkill(c) ==
    /\ pc[c] = "withdraw" /\ MayDecide(c, "approved")
    /\ SetLive(job[c].name, None)
    /\ Return(c)
    /\ UNCHANGED <<tables, queues, approved, rejected, got>>

\* load_all: the names are listed ...
ListSkills(c) ==
    /\ pc[c] = "list" /\ "approved" \in tables
    /\ IF ListApproved = {}
       THEN Return(c) /\ Forget(c)
       ELSE /\ pc' = [pc EXCEPT ![c] = "load"]
            /\ todo' = [todo EXCEPT ![c] = ListApproved]
            /\ UNCHANGED <<job, held, begun, history>>
    /\ UNCHANGED <<storeVars, got>>

\* Mutant: load takes a version from the listing.
LoadVersion(c) ==
    /\ pc[c] = "load"
    /\ \E f \in approved :
         /\ f.name \in todo[c]
         /\ got' = [got EXCEPT ![c] = @ \cup {<<f.name, f.doc>>}]
         /\ IF todo[c] = {f.name}
            THEN Return(c) /\ Forget(c)
            ELSE /\ todo' = [todo EXCEPT ![c] = @ \ {f.name}]
                 /\ UNCHANGED <<pc, job, held, begun, history>>
    /\ UNCHANGED storeVars

\* ... and loaded one by one, in alphabetical order, which is left open here.
LoadSkill(c) ==
    /\ pc[c] = "load" /\ "approved" \in tables
    /\ \E n \in todo[c] :
         /\ live[n] # None
         /\ got' = [got EXCEPT ![c] = @ \cup {<<n, live[n]>>}]
         /\ IF todo[c] = {n}
            THEN Return(c) /\ Forget(c)
            ELSE /\ todo' = [todo EXCEPT ![c] = @ \ {n}]
                 /\ UNCHANGED <<pc, job, held, begun, history>>
    /\ UNCHANGED storeVars

\* A request fails, is refused, finds no table or no object, or the process
\* stops; load calls all of that SkillNotFound.
Raise(c) ==
    /\ pc[c] # "idle"
    /\ Return(c) /\ Forget(c)
    /\ got' = [got EXCEPT ![c] = {}]
    /\ UNCHANGED storeVars

Call(c) == EnsureTables(c) \/ Propose(c) \/ Review(c) \/ Revoke(c) \/ Load(c) \/ LoadAll(c)

Step(c) ==
    \/ CreateTable(c) \/ FileProposal(c) \/ ReadProposed(c) \/ RecordVersion(c)
    \/ PublishSkill(c) \/ RejectProposal(c) \/ WithdrawSkill(c)
    \/ ListSkills(c) \/ LoadSkill(c) \/ Raise(c)

AllIdle == (\A c \in Callers : pc[c] = "idle") /\ begun = MaxCalls /\ UNCHANGED vars

Next == AllIdle \/ \E c \in Callers : Call(c) \/ Step(c)

Spec == Init /\ [][Next]_vars

-----------------------------------------------------------------------------
Job ==
    [op : {"none", "ensure", "load", "load_all"}] \cup [op : {"revoke"}, name : Names] \cup
    [op : {"propose"}, name : Names, doc : Document] \cup
    [op : {"approve", "reject"}, proposal : Proposal]

TypeOK ==
    /\ tables \subseteq Tables /\ queues \in [Queues -> SUBSET File]
    /\ approved \subseteq File /\ live \in [Names -> Document \cup {None}]
    /\ rejected \subseteq File
    /\ pc \in [Callers -> {"idle", "proposed", "approved", "rejected", "file", "read",
                           "record", "publish", "note", "withdraw", "list", "load"}]
    /\ job \in [Callers -> Job] /\ held \in [Callers -> Document \cup {None}]
    /\ todo \in [Callers -> SUBSET Names] /\ got \in [Callers -> SUBSET (Names \X Document)]
    /\ seen \in [Callers -> SUBSET (Names \X Document)]
    /\ steady \in [Callers -> SUBSET Names] /\ begun \in Nat

\* What a call may be doing: its place belongs to its method, and what approve
\* and reject hold is what lies under the version they were given.
CallInv ==
    \A c \in Callers :
        /\ pc[c] = "file" => job[c].op = "propose"
        /\ pc[c] \in {"read", "record", "publish", "note"} => job[c].op \in {"approve", "reject"}
        /\ pc[c] = "withdraw" => job[c].op = "revoke"
        /\ pc[c] \in {"record", "publish", "note"} =>
              [name |-> job[c].proposal.name, version |-> job[c].proposal.version,
               doc |-> held[c]] \in queues[Queue[job[c].proposal.proposer]]
        /\ pc[c] = "publish" =>
              [name |-> DecidedName(c), version |-> job[c].proposal.version,
               doc |-> held[c]] \in approved

\* "versioned by content hash, so approving a skill never overwrites the version
\* someone already reviewed" (skills.py:27): each object holds what its key says,
\* in every queue and in the approved table.
VersionsTell ==
    \A f \in approved \cup UNION {queues[q] : q \in Queues} : f.version = Hash(f.doc)

\* "the approval history is the object listing" (skills.py:329) and "the approved
\* versions stay as the record of what was once live" (skills.py:376): what is
\* live is on record, whatever stopped half way; and it is listed under the name
\* that its front matter gives it, the name under which load returns it.
LiveIsOnRecord ==
    \A n \in ListApproved :
        /\ [name |-> n, version |-> Hash(live[n]), doc |-> live[n]] \in approved
        /\ NameOf(live[n], n) = n

SkillInv == TypeOK /\ CallInv /\ VersionsTell /\ LiveIsOnRecord

\* Proposals, approvals, rejections and revocations of several agents, each in
\* steps and each failing at any of them, are those of SkillLibrary.
Library == INSTANCE SkillLibrary WITH
    Documents <- Document,
    filed     <- {f.doc : f \in UNION {queues[q] : q \in Queues}},
    history   <- {<<f.name, f.doc>> : f \in approved}

ImplementsLibrary == Library!Spec

\* What load and load_all return was live at some time while they ran, and no
\* skill is missing from load_all that was live all the time, although it lists
\* first and reads later.
LoadsAreFresh ==
    [][\A c \in Callers :
          pc[c] = "load" /\ pc'[c] = "idle" /\ got'[c] # {} =>
             /\ got'[c] \subseteq seen[c]
             /\ \A n \in steady[c] : \E d \in Document : <<n, d>> \in got'[c]]_vars
=============================================================================
