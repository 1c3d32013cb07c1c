------------------------------ MODULE EditChat ------------------------------
(***************************************************************************)
(* The chat that edits an app: the sessions of one user for one app, the   *)
(* operations the model proposes in them one at a time, and their          *)
(* confirmation.  That an operation was applied is a message of the        *)
(* session, the marker, appended after the fact: a confirmation looks only *)
(* at the last message.                                                    *)
(***************************************************************************)
EXTENDS Naturals, FiniteSets

CONSTANTS EditReqs,  \* requests in flight at once
          MaxEditChats, \* bound: sessions ever created
          MaxOps     \* bound: operations ever proposed

ASSUME EditBounds == {MaxEditChats, MaxOps} \subseteq Nat \ {0}

VARIABLES edit,       \* ai_build_sessions of mode edit: status, last message, latest proposal
          edits,      \* rows ever inserted
          proposals,  \* operations ever proposed
          applied,    \* how often each operation was applied, at most twice
          editReq,    \* requests in flight
          overlapped, \* history: operations proposed while a confirmation was in flight
          repeated    \* history: operations confirmed again before the marker was there

editVars == <<edit, edits, proposals, applied, editReq, overlapped, repeated>>

-----------------------------------------------------------------------------
EditIds == 1 .. MaxEditChats
OpIds == 1 .. MaxOps

NoEdit == [status |-> "none", last |-> "nothing", op |-> 0]
Edit == [status : {"none", "in_progress", "abandoned"}, last : {"nothing", "text", "op", "marker"},
         op : 0 .. MaxOps]
EditIdle == [pc |-> "idle", edit |-> 0, op |-> 0]
EditReq == [pc : {"idle", "open", "insert", "say", "model", "apply", "mark"}, edit : 0 .. MaxEditChats, op : 0 .. MaxOps]

EditInit ==
    /\ edit = [s \in EditIds |-> NoEdit] /\ edits = 0 /\ proposals = 0
    /\ applied = [o \in OpIds |-> 0]
    /\ editReq = [r \in EditReqs |-> EditIdle]
    /\ overlapped = {} /\ repeated = {}

EditAt(r, pc) == editReq[r].pc = pc
EditTo(r, q) == editReq' = [editReq EXCEPT ![r] = q]
OpenEdits == {s \in EditIds : edit[s].status = "in_progress"}
Confirmations(s) == {r \in EditReqs : editReq[r].pc \in {"apply", "mark"} /\ editReq[r].edit = s}

-----------------------------------------------------------------------------
(* Sessions: at most one is in progress, by a unique index.                *)

GetOrCreateInProgressEditSession(r, new, found) ==
    /\ EditAt(r, "idle")
    /\ \/ OpenEdits = {} /\ EditTo(r, [EditIdle EXCEPT !.pc = new])
       \/ \E s \in OpenEdits : EditTo(r, [EditIdle EXCEPT !.pc = found, !.edit = IF found = "idle" THEN 0 ELSE s])
    /\ UNCHANGED <<edit, edits, proposals, applied, overlapped, repeated>>

GetEditChatSession(r) == GetOrCreateInProgressEditSession(r, "open", "idle")
BeginEditTurn(r) == GetOrCreateInProgressEditSession(r, "insert", "say")

\* The request whose insert meets the index fails: EditRequestEnds.
CreateEditSession(r) ==
    /\ editReq[r].pc \in {"open", "insert"}
    /\ OpenEdits = {} /\ edits < MaxEditChats
    /\ edits' = edits + 1
    /\ edit' = [edit EXCEPT ![edits + 1].status = "in_progress"]
    /\ EditTo(r, IF EditAt(r, "open") THEN EditIdle ELSE [EditIdle EXCEPT !.pc = "say", !.edit = edits + 1])
    /\ UNCHANGED <<proposals, applied, overlapped, repeated>>

RestartEditChatSession(r) ==
    /\ EditAt(r, "idle")
    /\ edit' = [s \in EditIds |-> IF s \in OpenEdits THEN [edit[s] EXCEPT !.status = "abandoned"] ELSE edit[s]]
    /\ EditTo(r, [EditIdle EXCEPT !.pc = "open"])
    /\ UNCHANGED <<edits, proposals, applied, overlapped, repeated>>

AppendMessage(s, kind, o) == edit' = [edit EXCEPT ![s].last = kind, ![s].op = o]

\* What a call of the model comes to, after its rounds of tools that only read.
CallEditModel == {"op", "text", "error"}

\* The message of the user, then the answer of the model: each whatever the status is by then.
SayToEditChat(r) ==
    LET s == editReq[r].edit IN
    /\ EditAt(r, "say")
    /\ AppendMessage(s, "text", edit[s].op)
    /\ EditTo(r, [editReq[r] EXCEPT !.pc = "model"])
    /\ UNCHANGED <<edits, proposals, applied, overlapped, repeated>>

AnswerEditChat(r) ==
    LET s == editReq[r].edit IN
    /\ EditAt(r, "model")
    /\ \E answer \in CallEditModel :
        \/ answer = "error" /\ UNCHANGED <<edit, proposals, overlapped>>
        \/ answer = "text" /\ AppendMessage(s, "text", edit[s].op) /\ UNCHANGED <<proposals, overlapped>>
        \/ /\ answer = "op"
           /\ proposals < MaxOps
           /\ proposals' = proposals + 1
           /\ AppendMessage(s, "op", proposals + 1)
           /\ overlapped' = IF Confirmations(s) = {} THEN overlapped ELSE overlapped \cup {proposals + 1}
    /\ EditTo(r, EditIdle)
    /\ UNCHANGED <<edits, applied, repeated>>

\* The model or the operation fails, the caller goes away, the pod dies.
EditRequestEnds(r) ==
    /\ ~EditAt(r, "idle")
    /\ EditTo(r, EditIdle)
    /\ repeated' = IF EditAt(r, "mark") THEN repeated \cup {editReq[r].op} ELSE repeated
    /\ UNCHANGED <<edit, edits, proposals, applied, overlapped>>

-----------------------------------------------------------------------------
(* Confirmation.                                                           *)

ConfirmOf(r, pending(_)) ==
    /\ EditAt(r, "idle")
    /\ \E s \in OpenEdits :
        /\ pending(edit[s])
        /\ EditTo(r, [pc |-> "apply", edit |-> s, op |-> edit[s].op])
        /\ repeated' = IF Confirmations(s) = {} THEN repeated ELSE repeated \cup {edit[s].op}
    /\ UNCHANGED <<edit, edits, proposals, applied, overlapped>>

\* Mutant: the latest proposal is confirmed, as in the chat that builds an app.
ConfirmLatestProposal(r) == ConfirmOf(r, LAMBDA e : e.op # 0)

\* When the marker is the last message, the answer is "applied" and nothing is done.
EditChatConfirm(r) == ConfirmOf(r, LAMBDA e : e.last = "op")

ApplyEdit(r) ==
    LET o == editReq[r].op IN
    /\ EditAt(r, "apply")
    /\ applied[o] < 2
    /\ applied' = [applied EXCEPT ![o] = @ + 1]
    /\ EditTo(r, [editReq[r] EXCEPT !.pc = "mark"])
    /\ UNCHANGED <<edit, edits, proposals, overlapped, repeated>>

MarkApplied(r) ==
    /\ EditAt(r, "mark")
    /\ AppendMessage(editReq[r].edit, "marker", edit[editReq[r].edit].op)
    /\ EditTo(r, EditIdle)
    /\ UNCHANGED <<edits, proposals, applied, overlapped, repeated>>

EditNext == \E r \in EditReqs :
    \/ GetEditChatSession(r) \/ BeginEditTurn(r) \/ CreateEditSession(r) \/ RestartEditChatSession(r)
    \/ SayToEditChat(r) \/ AnswerEditChat(r) \/ EditRequestEnds(r)
    \/ EditChatConfirm(r) \/ ApplyEdit(r) \/ MarkApplied(r)

EditSpec == EditInit /\ [][EditNext]_editVars

-----------------------------------------------------------------------------
\* Sessions, operations and requests have their types.
EditTypeOK ==
    /\ edit \in [EditIds -> Edit] /\ edits \in 0 .. MaxEditChats
    /\ proposals \in 0 .. MaxOps /\ applied \in [OpIds -> 0 .. 2]
    /\ editReq \in [EditReqs -> EditReq]
    /\ overlapped \cup repeated \subseteq OpIds

\* A repeated confirmation is told "applied" only when the latest proposal of the session was
\* applied, unless that was made while the confirmation of the one before was
\* in flight, whose marker then follows it.  (ai_edit_chat_handlers.go: the marker)
AppliedIsTrue ==
    \A s \in EditIds :
        edit[s].last = "marker" => applied[edit[s].op] > 0 \/ edit[s].op \in overlapped

\* An operation is applied once, unless it was confirmed again before the marker of the
\* first time was there, or that request died before it appended it.
AppliedOnce == \A o \in OpIds : applied[o] > 1 => o \in repeated

\* Two confirmations, or a confirmation and a proposal, that overlap apply nothing twice and
\* leave no false marker, but as named.
ConfirmationsAreTrue == AppliedIsTrue /\ AppliedOnce

\* What the code says of the marker: it is what tells a repeated confirmation that the operation
\* was applied already.  Not so when the operation was proposed while another one
\* was being applied: it is answered as applied, and never is.
MarkerIsOfTheLatest ==
    \A s \in EditIds : edit[s].last = "marker" => applied[edit[s].op] > 0
=============================================================================
