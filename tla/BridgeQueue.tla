----------------------------- MODULE BridgeQueue -----------------------------
(***************************************************************************)
(* The filesystem queue of the Python bridge: FilesystemCommandClient      *)
(* processes that write commands/<id>.json and wait for                    *)
(* responses/<id>.json, and the one loop inside Resolve                    *)
(* (run_persistent_bridge) that claims a command by renaming it to         *)
(* processing/, executes it and answers it.  What survives a crash is what *)
(* is in a file: the queue directories, state/receipts/<key>.json,         *)
(* state/render-starts/<job>.json, backups/ and logs/audit/<id>.json.      *)
(*                                                                         *)
(* A command id is one call of request(); a retry is another id with the   *)
(* same idempotency key.  A render job is named by the id of the command   *)
(* that prepared it.  A deadline may pass at any moment.                   *)
(***************************************************************************)
EXTENDS Naturals, FiniteSets, Functions

CONSTANTS
    Ids,            \* command ids (uuid4); a behaviour draws at most these
    Keys,           \* idempotency keys of write commands
    Kinds,          \* the kinds of command that the clients submit
    Earlier,        \* ids that prepared a render job in an earlier session
    None            \* no key, no job, no command

ReadKinds == {"read", "stop"}
WriteKinds == {"create", "edit", "prepare", "start"}

ASSUME NoneAssumption == None \notin Ids \cup Keys
ASSUME KindsAssumption == Kinds \subseteq ReadKinds \cup WriteKinds
ASSUME EarlierAssumption ==
    Earlier \subseteq Ids /\ (Earlier # {} => "prepare" \in Kinds)

VARIABLES
    \* files
    commands, processing, failed,   \* ids whose file is in that directory
    response,       \* [Ids -> {"none", "success", "error"}]
    receipts,       \* state/receipts
    reserved,       \* jobs that have a record in state/render-starts
    backups,        \* ids whose project backup exists
    audited,        \* ids that have a record logs/audit/<id>.json
    \* the clients
    command,        \* what each id asks for
    call,           \* how far its call of request() is
    \* the bridge loop
    pc, current, stop_requested,
    \* time and history
    expired,        \* ids whose expires_at passed before they were claimed
    bare,           \* creations that found no project to back up
    applied,        \* per id: mutating Resolve API calls made for it
    renders         \* per job: StartRendering calls Resolve accepted

disk    == <<commands, processing, failed, response, receipts, reserved, backups>>
clients == <<audited, command, call>>
bridge  == <<pc, current, stop_requested>>
history == <<expired, bare, applied, renders>>
vars    == <<disk, clients, bridge, history>>

-----------------------------------------------------------------------------

Commands ==
    [kind: Kinds \cap ReadKinds, key: {None}, job: {None}]
    \cup [kind: Kinds \cap {"create", "edit", "prepare"}, key: Keys, job: {None}]
    \cup [kind: Kinds \cap {"start"}, key: Keys, job: Ids]
NoCommand == [kind |-> "none", key |-> None, job |-> None]

\* _request_fingerprint: the action and its arguments.
Fingerprint(c) == <<c.kind, c.job>>

\* A receipt stores the fingerprint and the result of one execution; "by" is
\* the command that was executed.
Receipts == [of: {Fingerprint(c) : c \in Commands}, by: Ids]
NoReceipt == [of |-> <<"none", None>>, by |-> None]

Calls == {"new", "queueing", "waiting", "not_queued", "success", "raised"}
PCs == {"down", "idle", "claimed", "backed_up", "reserved", "mutated",
        "recorded", "responding", "responded", "failing", "failed"}

TypeOK ==
    /\ commands \subseteq Ids /\ processing \subseteq Ids /\ failed \subseteq Ids
    /\ response \in [Ids -> {"none", "success", "error"}]
    /\ receipts \in [Keys -> Receipts \cup {NoReceipt}]
    /\ reserved \subseteq Ids /\ backups \subseteq Ids
    /\ audited \subseteq Ids
    /\ command \in [Ids -> Commands \cup {NoCommand}]
    /\ call \in [Ids -> Calls]
    /\ pc \in PCs /\ current \in Ids \cup {None} /\ stop_requested \in BOOLEAN
    /\ expired \subseteq Ids /\ bare \subseteq Ids
    /\ applied \in [Ids -> Nat] /\ renders \in [Ids -> Nat]

PreparedBy(id) == [of |-> <<"prepare", None>>, by |-> id]

\* The directories as an earlier session left them: each job it prepared has a
\* receipt under a key of its own, and nobody waits for an answer any more.
Init ==
    /\ commands = {} /\ processing = {} /\ failed = {}
    /\ response = [i \in Ids |-> "none"]
    /\ \E key \in Injection(Earlier, Keys) :
          /\ receipts = [k \in Keys |->
                IF \E i \in Earlier : key[i] = k
                THEN PreparedBy(CHOOSE i \in Earlier : key[i] = k) ELSE NoReceipt]
          /\ command = [i \in Ids |->
                IF i \in Earlier THEN [kind |-> "prepare", key |-> key[i], job |-> None]
                ELSE NoCommand]
    /\ reserved = {} /\ backups = Earlier
    /\ audited = Earlier
    /\ call = [i \in Ids |-> IF i \in Earlier THEN "success" ELSE "new"]
    /\ pc = "down" /\ current = None /\ stop_requested = FALSE
    /\ expired = {} /\ bare = {}
    /\ applied = [i \in Ids |-> IF i \in Earlier THEN 1 ELSE 0]
    /\ renders = [i \in Ids |-> 0]

-----------------------------------------------------------------------------
(* FilesystemCommandClient.request *)

\* The audit record must be durable before the command is queued.  Its later
\* transitions may fail, are then suppressed, and are left out.
Submit(id) ==
    /\ call[id] = "new"
    /\ \/ /\ audited' = audited \cup {id}
          /\ \E c \in Commands : command' = [command EXCEPT ![id] = c]
          /\ call' = [call EXCEPT ![id] = "queueing"]
       \/ /\ call' = [call EXCEPT ![id] = "not_queued"]
          /\ UNCHANGED <<audited, command>>
    /\ UNCHANGED <<disk, bridge, history>>

\* atomic_write_json publishes the whole command or nothing.
Enqueue(id) ==
    /\ call[id] = "queueing"
    /\ \/ /\ commands' = commands \cup {id}
          /\ call' = [call EXCEPT ![id] = "waiting"]
       \/ /\ call' = [call EXCEPT ![id] = "not_queued"]
          /\ UNCHANGED commands
    /\ UNCHANGED <<processing, failed, response, receipts, reserved, backups,
                   audited, command, bridge, history>>

ReceiveResponse(id) ==
    /\ call[id] = "waiting" /\ response[id] = "success"
    /\ call' = [call EXCEPT ![id] = "success"]
    /\ UNCHANGED <<disk, audited, command, bridge, history>>

\* BridgeCommandError for an error response, BridgeProtocolError for one that
\* stays unreadable, CommandTimeoutError at the deadline: none of them tells
\* the caller whether the command took effect.
Raise(id) ==
    /\ call[id] = "waiting"
    /\ call' = [call EXCEPT ![id] = "raised"]
    /\ UNCHANGED <<disk, audited, command, bridge, history>>

\* The agent process dies; whatever it queued stays queued.
ClientCrash(id) ==
    /\ call[id] \in {"queueing", "waiting"}
    /\ call' = [call EXCEPT ![id] = "raised"]
    /\ UNCHANGED <<disk, audited, command, bridge, history>>

ClientStep(id) ==
    Submit(id) \/ Enqueue(id) \/ ReceiveResponse(id) \/ Raise(id)

-----------------------------------------------------------------------------
(* The bridge loop: one command per iteration *)

Kind == command[current].kind
Job == command[current].job
Saved == receipts[command[current].key]
Goto(label) == pc' = label /\ UNCHANGED <<current, stop_requested>>

\* The user starts the script from Resolve's menu.
StartBridge ==
    /\ pc = "down"
    /\ Goto("idle")
    /\ UNCHANGED <<disk, clients, history>>

\* Files are taken in the order of their random names.
Claim ==
    /\ pc = "idle"
    /\ \E id \in commands :
        /\ commands' = commands \ {id}
        /\ processing' = processing \cup {id}
        /\ current' = id
    /\ pc' = "claimed"
    /\ UNCHANGED <<failed, response, receipts, reserved, backups, clients,
                   stop_requested, history>>

\* validate_command, the receipt and the preflight of the action come before
\* any change: an expired command, a key of another request, an unreadable
\* file or any failed check or API call ends here.
RefuseCommand ==
    /\ pc = "claimed"
    /\ Goto("failing")
    /\ UNCHANGED <<disk, clients, history>>

Valid == current \notin expired

AnswerRead ==
    /\ pc = "claimed" /\ Valid /\ Kind \in ReadKinds
    /\ pc' = "responding"
    /\ stop_requested' = (Kind = "stop")
    /\ UNCHANGED <<disk, clients, current, history>>

\* _execute_write_command returns the result of the key's receipt.
Replay ==
    /\ pc = "claimed" /\ Valid /\ Kind \in WriteKinds
    /\ Saved.of = Fingerprint(command[current])
    /\ Goto("recorded")
    /\ UNCHANGED <<disk, clients, history>>

\* _verify_agent_prepared_render_job: the job is the result of a receipt.
Prepared(job) ==
    \E k \in Keys : receipts[k].of[1] = "prepare" /\ receipts[k].by = job

\* Seeded fault: a receipt of another request does not count.
KeyUnusedByRequest == Saved.of # Fingerprint(command[current])
KeyUnused == Saved = NoReceipt

\* The preflight of a write has passed.
Ready ==
    /\ pc = "claimed" /\ Valid /\ Kind \in WriteKinds
    /\ KeyUnused
    /\ Kind = "start" => Prepared(Job) /\ Job \notin reserved

\* _create_project_backup: the project is saved and exported under this id.
BackUp ==
    /\ Ready
    /\ backups' = backups \cup {current}
    /\ Goto("backed_up")
    /\ UNCHANGED <<commands, processing, failed, response, receipts, reserved,
                   clients, history>>

\* _execute_create_project with no project, or with the empty and unsaved
\* "Untitled Project", current: there is nothing to back up.  What is current
\* is Resolve's state, read here.
SkipBackUp ==
    /\ Ready /\ Kind = "create"
    /\ bare' = bare \cup {current}
    /\ Goto("backed_up")
    /\ UNCHANGED <<disk, clients, expired, applied, renders>>

\* The branches of an editing action, AddRenderJob or CreateProject: the API call and the
\* readback that verifies it.  Either may fail, the readback after the change.
Mutate ==
    /\ pc = "backed_up" /\ Kind \in {"create", "edit", "prepare"}
    /\ \E done \in {0, 1}, verified \in BOOLEAN :
        /\ verified => done = 1
        /\ applied' = [applied EXCEPT ![current] = @ + done]
        /\ Goto(IF verified THEN "mutated" ELSE "failing")
    /\ UNCHANGED <<disk, clients, expired, bare, renders>>

\* Seeded faults: the start is recorded only afterwards; every write is
\* recorded as a start.
StartUnreserved ==
    /\ pc = "backed_up" /\ Kind = "start"
    /\ Goto("reserved")
    /\ UNCHANGED <<disk, clients, history>>
ReserveEveryWrite ==
    /\ pc = "backed_up"
    /\ reserved' = reserved \cup {Job} /\ Goto("reserved")
    /\ UNCHANGED <<commands, processing, failed, response, receipts, backups,
                   clients, history>>

\* The record of the start is written before Resolve is asked to render.
ReserveRenderStart ==
    /\ pc = "backed_up" /\ Kind = "start"
    /\ \/ Job \notin reserved /\ reserved' = reserved \cup {Job} /\ Goto("reserved")
       \/ Goto("failing") /\ UNCHANGED reserved
    /\ UNCHANGED <<commands, processing, failed, response, receipts, backups,
                   clients, history>>

\* StartRendering, then the job status and the record "accepted".
StartRendering ==
    /\ pc = "reserved"
    /\ \E done \in {0, 1}, verified \in BOOLEAN :
        /\ verified => done = 1
        /\ applied' = [applied EXCEPT ![current] = @ + done]
        /\ renders' = [renders EXCEPT ![Job] = @ + done]
        /\ Goto(IF verified THEN "mutated" ELSE "failing")
    /\ UNCHANGED <<disk, clients, expired, bare>>

\* Seeded fault: a receipt that cannot be written is ignored.
WriteReceiptOrNot ==
    /\ pc = "mutated"
    /\ receipts' \in {receipts, [receipts EXCEPT ![command[current].key] =
            [of |-> Fingerprint(command[current]), by |-> current]]}
    /\ Goto("recorded")
    /\ UNCHANGED <<commands, processing, failed, response, reserved, backups,
                   clients, history>>

\* The receipt is written once the change is made and verified.
WriteReceipt ==
    /\ pc = "mutated"
    /\ \/ /\ receipts' = [receipts EXCEPT ![command[current].key] =
                [of |-> Fingerprint(command[current]), by |-> current]]
          /\ Goto("recorded")
       \/ Goto("failing") /\ UNCHANGED receipts
    /\ UNCHANGED <<commands, processing, failed, response, reserved, backups,
                   clients, history>>

\* The verified capability is recorded and the bridge state read again.
RefreshState ==
    /\ pc = "recorded"
    /\ \E label \in {"responding", "failing"} : Goto(label)
    /\ UNCHANGED <<disk, clients, history>>

Respond ==
    /\ pc = "responding"
    /\ \/ response' = [response EXCEPT ![current] = "success"] /\ Goto("responded")
       \/ Goto("failing") /\ UNCHANGED response
    /\ UNCHANGED <<commands, processing, failed, receipts, reserved, backups,
                   clients, history>>

\* The loop goes on, or ends after a stop_bridge.
NextIteration ==
    /\ pc' = IF stop_requested THEN "down" ELSE "idle"
    /\ current' = None /\ stop_requested' = FALSE

\* The claimed file is unlinked.  An error there is handled like any other
\* and overwrites the response that was just published.
Finish ==
    /\ pc = "responded"
    /\ \/ processing' = processing \ {current} /\ NextIteration
       \/ Goto("failing") /\ UNCHANGED processing
    /\ UNCHANGED <<commands, failed, response, receipts, reserved, backups,
                   clients, history>>

\* Seeded fault: an error response that cannot be written is given up.
RespondErrorOrNot ==
    /\ pc = "failing"
    /\ response' \in {response, [response EXCEPT ![current] = "error"]}
    /\ Goto("failed")
    /\ UNCHANGED <<commands, processing, failed, receipts, reserved, backups,
                   clients, history>>

RespondError ==
    /\ pc = "failing"
    /\ response' = [response EXCEPT ![current] = "error"]
    /\ Goto("failed")
    /\ UNCHANGED <<commands, processing, failed, receipts, reserved, backups,
                   clients, history>>

MoveToFailed ==
    /\ pc = "failed"
    /\ processing' = processing \ {current}
    /\ failed' = failed \cup {current}
    /\ NextIteration
    /\ UNCHANGED <<commands, response, receipts, reserved, backups, clients,
                   history>>

\* Resolve dies, or an exception leaves the loop: the claimed file stays in
\* processing/, which nothing reads again.
BridgeCrash ==
    /\ pc # "down"
    /\ pc' = "down" /\ current' = None /\ stop_requested' = FALSE
    /\ UNCHANGED <<disk, clients, history>>

BridgeStep ==
    \/ Claim \/ RefuseCommand \/ AnswerRead \/ Replay \/ BackUp \/ SkipBackUp
    \/ Mutate \/ ReserveRenderStart \/ StartRendering \/ WriteReceipt \/ RefreshState
    \/ Respond \/ Finish \/ RespondError \/ MoveToFailed

-----------------------------------------------------------------------------

\* The expires_at of a command passes while it is queued.  It is read once,
\* right after the claim; passing in between is RefuseCommand.
Expire(id) ==
    /\ id \in commands \ expired
    /\ expired' = expired \cup {id}
    /\ UNCHANGED <<disk, clients, bridge, bare, applied, renders>>

Next ==
    \/ \E id \in Ids : ClientStep(id) \/ ClientCrash(id) \/ Expire(id)
    \/ StartBridge \/ BridgeStep \/ BridgeCrash

Spec == Init /\ [][Next]_vars

\* The loop never blocks: between two commands it sleeps for a fixed time.
Fairness == WF_vars(BridgeStep)
LiveSpec == Spec /\ Fairness

-----------------------------------------------------------------------------
(* Safety *)

\* Claiming is a rename, and the start of a render is reserved on disk before it
\* is requested.  A command runs at most once although the loop may die and be
\* started again at any point; it has an audit record, its caller was not told
\* that it was not queued, and it did not expire while the bridge was down.  A
\* job is rendered at most once, whatever keys and retries ask for it, and only
\* if its preparation is on record.
ExecutedOnce ==
    /\ \A id \in Ids :
          /\ applied[id] <= 1
          /\ applied[id] > 0 => id \in audited \ expired /\ call[id] # "not_queued"
    /\ \A job \in Ids :
          /\ renders[job] <= 1
          /\ renders[job] > 0 =>
                \E k \in Keys : receipts[k] = [of |-> <<"prepare", None>>, by |-> job]

\* A success answer to a write is never ahead of what it claims: the key's
\* receipt is of this very request and of an execution that was made exactly
\* once, with a backup.  Only the creation of a project may have no backup, and
\* only if it found no project that one could be made of.
SuccessIsDurable ==
    \A id \in Ids :
        /\ "success" \in {response[id], call[id]}
        /\ command[id].kind \in WriteKinds
        => LET receipt == receipts[command[id].key] IN
           /\ receipt.of = Fingerprint(command[id]) /\ applied[receipt.by] = 1
           /\ \/ receipt.by \in backups
              \/ command[id].kind = "create" /\ receipt.by \in bare

\* Once a key has a receipt, its writes are over: the receipt is final and no
\* command that carries the key changes anything in Resolve.
SettledKeyIsFinal ==
    [][\A k \in Keys : receipts[k] # NoReceipt =>
        /\ receipts'[k] = receipts[k]
        /\ \A id \in Ids : command[id].key = k => applied'[id] = applied[id]]_vars

\* docs/protocol.md: receipts make a stable idempotency_key replay-safe; a
\* repeated request returns the stored result and does not duplicate the
\* change.
RepeatNeverDuplicates ==
    \A i, j \in Ids :
        /\ applied[i] > 0 /\ applied[j] > 0
        /\ command[i] = command[j]
        => i = j

(* Liveness *)

\* A claimed command is answered unless the loop dies over it.
ClaimedIsAnswered ==
    \A id \in Ids :
        current = id ~> response[id] # "none" \/ pc = "down"
=============================================================================
