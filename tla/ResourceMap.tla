----------------------------- MODULE ResourceMap -----------------------------
(***************************************************************************)
(* What the management store promises (internal/manager/store.go,          *)
(* backup.go, compat_store.go): a map of documents that requests change    *)
(* one at a time, each entirely or not at all, also when the process ends  *)
(* in the middle of one.                                                   *)
(*                                                                         *)
(* The exception: when all documents are replaced and the disk does not    *)
(* confirm it, the old ones are removed all the same, and until the disk   *)
(* confirms a later replacement a crash may bring back what is left of     *)
(* them, perhaps nothing, in place of the new ones.                        *)
(*                                                                         *)
(* A document has a body, a revision that every edit changes, and a share  *)
(* that edits keep.  view is the document a client bases its request on,   *)
(* sent as If-Match; NoView when it sends none.  ManagerStore implements   *)
(* this module.                                                            *)
(***************************************************************************)
EXTENDS Naturals

CONSTANTS
    Ids, Clients,
    Bodies,         \* contents of documents
    Tokens,         \* digests of share tokens
    KindOf,         \* the kind of each id: its documents never have another
    NameOf,         \* the name in each body
    NoDoc, NoToken, NoView

VARIABLES
    docs,           \* the document of each id, or NoDoc
    status,         \* of each client: "idle", its request, "done" or "refused"
    view,
    past            \* what is left of maps whose replacement the disk has not confirmed

vars == <<docs, status, view, past>>

Requests  == {"create", "edit", "delete", "share", "restore", "replace", "snapshot"}
Wholesale == {"restore", "replace"}

Doc      == [body : Bodies, rev : Nat, share : Tokens \cup {NoToken}]
Contents == [Ids -> Doc \cup {NoDoc}]
View     == [id : Ids, doc : Doc] \cup {NoView}

Present(m) == {i \in Ids : m[i] # NoDoc}

\* No other document of the kind has the name that id i has in m.
SoleName(m, i) ==
    \A j \in Present(m) \ {i} :
        KindOf[j] = KindOf[i] => NameOf[m[j].body] # NameOf[m[i].body]

Init ==
    /\ docs \in Contents
    /\ status = [c \in Clients |-> "idle"]
    /\ view = [c \in Clients |-> NoView]
    /\ past = {}

-----------------------------------------------------------------------------
(* The changes a request may make of the map d to m; v is the version it names. *)

Others(d, i, m) == \A j \in Ids \ {i} : m[j] = d[j]

Current(v, d, i) == v = NoView \/ (v.id = i /\ v.doc.body = d[i].body /\ v.doc.rev = d[i].rev)

Create(d, m) ==
    \E i \in Ids \ Present(d) :
        m[i] # NoDoc /\ m[i].share = NoToken /\ Others(d, i, m)

\* Nobody's edit is lost: one that names a version is made to that version.
Edit(v, d, m) ==
    \E i \in Present(d) :
        /\ Current(v, d, i)
        /\ v = NoView => m[i] # NoDoc /\ SoleName(m, i)
        /\ m[i] # NoDoc /\ m[i].rev # d[i].rev /\ m[i].share = d[i].share
        /\ Others(d, i, m)

Delete(v, d, m) ==
    \E i \in Present(d) : Current(v, d, i) /\ m[i] = NoDoc /\ Others(d, i, m)

Share(d, m) ==
    \E i \in Present(d), t \in Tokens \cup {NoToken} :
        m[i] = [body |-> d[i].body, rev |-> d[i].rev, share |-> t] /\ Others(d, i, m)

\* All documents, with new revisions; or those of one kind, with unique names, where a
\* name that was there keeps its id and with it its share.
Restore(d, m) == \A i \in Present(m) \cap Present(d) : m[i].rev # d[i].rev

ReplaceKind(d, m) ==
    \E k \in {KindOf[i] : i \in Ids} : \A i \in Ids :
        IF KindOf[i] # k THEN m[i] = d[i]
        ELSE m[i] # NoDoc => /\ SoleName(m, i)
                             /\ m[i].share = IF d[i] = NoDoc THEN NoToken ELSE d[i].share
                             /\ d[i] # NoDoc => m[i].rev # d[i].rev

Change(r, v, d, m) ==
    \/ r = "create"   /\ Create(d, m)
    \/ r = "edit"     /\ Edit(v, d, m)
    \/ r = "delete"   /\ Delete(v, d, m)
    \/ r = "share"    /\ Share(d, m)
    \/ r = "restore"  /\ Restore(d, m)
    \/ r = "replace"  /\ ReplaceKind(d, m)
    \/ r = "snapshot" /\ m = d

Effect(c, m) == m \in Contents /\ Change(status[c], view[c], docs, m)

-----------------------------------------------------------------------------
Load(c) ==
    /\ status[c] = "idle"
    /\ \E i \in Present(docs) : view' = [view EXCEPT ![c] = [id |-> i, doc |-> docs[i]]]
    /\ UNCHANGED <<docs, status>>

Begin(c) ==
    /\ status[c] = "idle"
    /\ \E r \in Requests : status' = [status EXCEPT ![c] = r]
    /\ UNCHANGED <<docs, view>>

Perform(c) ==
    /\ status' = [status EXCEPT ![c] = "done"]
    /\ view' = [view EXCEPT ![c] = NoView]
    /\ Effect(c, docs')

\* A request that is refused or fails has changed nothing.
Refuse(c) ==
    /\ status[c] \in Requests \cup {"idle"}
    /\ status' = [status EXCEPT ![c] = "refused"]
    /\ view' = [view EXCEPT ![c] = NoView]
    /\ UNCHANGED docs

\* The answer; a request may also be refused at once.
Return(c) ==
    /\ status[c] \in {"done", "refused", "idle"}
    /\ status' = [status EXCEPT ![c] = "idle"]
    /\ view' = [view EXCEPT ![c] = NoView]
    /\ UNCHANGED docs

\* What one client does, but for a replacement of all documents.
Ordinary ==
    \E c \in Clients :
        Load(c) \/ Begin(c) \/ Refuse(c) \/ Return(c) \/ (status[c] \notin Wholesale /\ Perform(c))

\* One that the disk confirms, and all before it, or one that it does not.
Replace(c) ==
    /\ status[c] \in Wholesale /\ Perform(c)
    /\ past' \in {{}, past \cup {docs}}

\* Documents that were replaced are removed.
Part(m, d) == m \in Contents /\ \A i \in Ids : m[i] \in {d[i], NoDoc}

Remove ==
    /\ \A m \in past' : \E d \in past : Part(m, d)
    /\ UNCHANGED <<docs, status, view>>

\* The process ends: what was under way has happened entirely or not at all, unless what
\* was there before a replacement comes back.
Crash ==
    /\ status' = [c \in Clients |-> "idle"]
    /\ view' = [c \in Clients |-> NoView]
    /\ docs' = docs \/ (\E c \in Clients : Effect(c, docs')) \/ docs' \in past
    /\ past' = {}

Next ==
    \/ Remove
    \/ Ordinary /\ UNCHANGED past
    \/ \E c \in Clients : Replace(c)
    \/ Crash

Spec == Init /\ [][Next]_vars
=============================================================================
