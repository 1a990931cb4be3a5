----------------------------- MODULE McpSession -----------------------------
(***************************************************************************)
(* The gosh.memory clients over one MCP session (client/mcp_http.rs,       *)
(* object_store.rs, memory.rs).  The session id is cached for the life of  *)
(* the process; callers that start together may each open a session, the   *)
(* last one stored wins.  The server, which answers under a session only,  *)
(* may restart and forget its sessions, and what it answers may be lost or *)
(* replaced on the way.                                                    *)
(***************************************************************************)
EXTENDS Naturals, Functions

CONSTANTS
  Task,          \* tasks of the process that use the client
  Operation,     \* subset of {"upsert", "get", "list", "ingest"}
  MAX_CALLS_MADE, \* bound: calls over all tasks
  MAX_RESTARTS   \* bound: restarts of the server

None == 0        \* no session; ids are 1, 2, ...

VARIABLES
  sessionId,   \* McpHttpClient.session_id
  issued,      \* server: sessions ever opened
  live,        \* server: sessions it still knows
  object,      \* server: whether the object in question exists
  call,        \* per task: the call under way, or its outcome
  callsMade, restarts

sessionVars == <<sessionId, issued, live, object, call, callsMade, restarts>>

Quiet == [at |-> "idle", op |-> "", sid |-> None, outcome |-> "", wrote |-> FALSE,
          existed |-> FALSE,
          handshake |-> ""]   \* "bare": answered, but without a session id

SessionInit ==
  /\ sessionId = None /\ issued = 0 /\ live = {} /\ object = FALSE
  /\ call = [t \in Task |-> Quiet]
  /\ callsMade = 0 /\ restarts = 0

SetCall(t, c) == call' = [call EXCEPT ![t] = c]

Failed(t) == SetCall(t, [call[t] EXCEPT !.at = "idle", !.outcome = "failed"])

-----------------------------------------------------------------------------
(* ensure_initialized: with a session cached there is nothing to do. *)
BeginCall(t, op) ==
  /\ call[t].at = "idle" /\ callsMade < MAX_CALLS_MADE
  /\ SetCall(t, [Quiet EXCEPT !.op = op,
                              !.at = IF sessionId # None THEN "post" ELSE "initialize"])
  /\ callsMade' = callsMade + 1
  /\ UNCHANGED <<sessionId, issued, live, object, restarts>>

OpensSession ==
  /\ issued' = issued + 1
  /\ live' = live \cup {issued'}

(* Answered without a session id: none is stored, and the call goes on.    *)
NoSession(t) == SetCall(t, [call[t] EXCEPT !.at = "post", !.handshake = "bare"])

(* The server opens a session, unless the request is lost.  Its answer may *)
(* be lost too, or replaced by a success without a session id (a proxy's   *)
(* page: the body is not looked at).  A session it opened for someone else *)
(* meanwhile stays open.                                                   *)
PostInitialize(t) ==
  /\ call[t].at = "initialize"
  /\ \/ OpensSession /\ SetCall(t, [call[t] EXCEPT !.at = "store", !.sid = issued'])
     \/ /\ OpensSession \/ UNCHANGED <<issued, live>>
        /\ NoSession(t) \/ Failed(t)
  /\ UNCHANGED <<sessionId, object, callsMade, restarts>>

(* The id is stored; notifications/initialized is sent and not waited for. *)
StoreSession(t) ==
  /\ call[t].at = "store"
  /\ sessionId' = call[t].sid
  /\ SetCall(t, [call[t] EXCEPT !.at = "post"])
  /\ UNCHANGED <<issued, live, object, callsMade, restarts>>

-----------------------------------------------------------------------------
(* What the server, or a proxy in front of it, answers to a call: HTTP or  *)
(* transport failures, JSON-RPC and tool errors are "error"; "html" is a   *)
(* body that is not JSON, "empty" one without the fields it should have.   *)
Damaged == {"error", "html", "empty"}

Answers(op, done, existed) ==
  Damaged \cup
  CASE op \in {"upsert", "ingest"} -> IF done THEN {"ok"} ELSE {}
    [] op = "get" -> IF existed THEN {"object"} ELSE {"NOT_FOUND"}
    [] op = "list" -> {"objects"}

Outcome_ErrorIsAbsence(op, answer, existed) ==
  CASE op = "get" /\ answer \in {"NOT_FOUND", "error"} -> "none"
    [] op = "list" /\ answer = "objects" -> IF existed THEN "some" ELSE "none"
    [] op = "ingest" /\ answer = "empty" -> "done"
    [] answer \in Damaged -> "failed"
    [] OTHER -> "done"

(* parse_tool_payload and the checks of upsert, get, list and ingest_facts *)
(* on the payload: ingest_facts looks for an error only.                   *)
Outcome(op, answer, existed) ==
  CASE op = "get" /\ answer = "NOT_FOUND" -> "none"
    [] op = "list" /\ answer = "objects" -> IF existed THEN "some" ELSE "none"
    [] op = "ingest" /\ answer = "empty" -> "done"
    [] answer \in Damaged -> "failed"
    [] OTHER -> "done"

(* call_tool: posts under the session cached now, whoever opened it, or    *)
(* under none; a server that does not know the session refuses.            *)
PostCall(t) ==
  /\ call[t].at = "post"
  /\ IF sessionId \notin live
     THEN /\ SetCall(t, [call[t] EXCEPT !.at = "idle", !.sid = sessionId,
                                        !.outcome = "refused"])
          /\ UNCHANGED object
     ELSE \E done \in BOOLEAN :
            \E answer \in Answers(call[t].op, done, object) :
              /\ SetCall(t, [call[t] EXCEPT !.at = "idle", !.sid = sessionId,
                    !.outcome = Outcome(call[t].op, answer, object),
                    !.wrote = done, !.existed = object])
              /\ object' = (object \/ (call[t].op = "upsert" /\ done))
  /\ UNCHANGED <<sessionId, issued, live, callsMade, restarts>>

(* The server restarts with its objects, but without its sessions. *)
ServerRestarts ==
  /\ restarts < MAX_RESTARTS
  /\ restarts' = restarts + 1
  /\ live' = {}
  /\ UNCHANGED <<sessionId, issued, object, call, callsMade>>

SessionNext ==
  \/ \E t \in Task :
       \/ \E op \in Operation : BeginCall(t, op)
       \/ PostInitialize(t) \/ StoreSession(t) \/ PostCall(t)
  \/ ServerRestarts

SessionSpec == SessionInit /\ [][SessionNext]_sessionVars

-----------------------------------------------------------------------------
(* Properties *)

(***************************************************************************)
(* What a call reports is so.  An upsert succeeds only if the write was    *)
(* made, whatever came back in its stead.  "There is no such object" is    *)
(* never a failure in disguise: callers overwrite keys and skip policies   *)
(* on that answer.  And a call is refused for its session only when the    *)
(* server has restarted, or for want of one when its own initialize was    *)
(* answered without an id and nobody had stored one since: however callers *)
(* race to open sessions and to store them in the cache, they do not       *)
(* invalidate each other's.                                                *)
(***************************************************************************)
OutcomesAreTrue ==
  \A t \in Task :
    /\ call[t].op = "upsert" /\ call[t].outcome = "done" => call[t].wrote
    /\ call[t].outcome = "none" => ~call[t].existed
    /\ call[t].outcome = "refused" =>
         IF call[t].sid = None THEN call[t].handshake = "bare" ELSE restarts > 0
=============================================================================
