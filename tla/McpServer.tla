------------------------------ MODULE McpServer ------------------------------
(***************************************************************************)
(* The JSON-RPC server of coding agents: a message is checked, turned into *)
(* one HTTP request, and the answer of the daemon into a reply. The daemon *)
(* of HttpApi is behind it; it may be down, refuse, fail, panic, or be     *)
(* killed before or after it has carried out the request.                  *)
(***************************************************************************)
EXTENDS HttpApi

CONSTANTS Segment(_),   \* the index that a path with this name in it names, or Nobody
          MaxCalls

VARIABLES
    daemon,   \* "up", "down"
    logs,     \* who of "daemon" and "mcp" logs at the level of the line about a search
    sent,    \* messages so far
    call      \* the message being worked on

mcpvars == <<daemon, logs, sent, call>>

------------------------------------------------------------------------------
(* The tools, as tools/list declares them and as the dispatcher reads them. *)

Tools == {"search_all", "search_code", "index_file", "remove_file", "list_indexes",
          "create_index", "search_similar", "search_health", "delete_index", "reindex",
          "index_status", "list_chunks", "chat"}

\* inputSchema.required of the descriptors; of no use for other names.
Declared(tool) ==
    CASE tool = "search_all" -> {"query"}
      [] tool = "search_code" -> {"index_id", "query"}
      [] tool = "index_file" -> {"index_id", "path", "content"}
      [] tool = "remove_file" -> {"index_id", "path"}
      [] tool = "create_index" -> {"id", "root_path"}
      [] tool = "search_similar" -> {"file"}
      [] tool \in {"delete_index", "reindex", "index_status", "list_chunks", "chat"} -> {"index_id"}
      [] OTHER -> {}

Scope(tool) ==
    CASE tool \in {"search_all", "search_code", "search_similar", "search_health",
                   "list_indexes", "index_status", "list_chunks", "chat"} -> "search.read"
      [] tool \in {"index_file", "remove_file", "create_index", "delete_index", "reindex"}
             -> "search.write"
      [] OTHER -> Nobody

\* The fields a call must have with the right type; each set is an alternative.
Needs(tool) ==
    CASE tool = "search_all" -> {{"query"}}
      [] tool = "search_code" -> {{"index_id", "query"}, {"index_id", "query object"}}
      [] tool = "index_file" -> {{"index_id", "path", "content"}}
      [] tool = "remove_file" -> {{"index_id", "path"}}
      [] tool = "create_index" -> {{"id", "root_path"}}
      [] tool = "search_similar" -> {{"file"}}
      [] tool = "chat" -> {{"index_id", "message"}, {"index_id", "question"}}
      [] tool \in {"delete_index", "reindex", "index_status", "list_chunks"} -> {{"index_id"}}
      [] tool \in {"list_indexes", "search_health"} -> {{}}
      [] OTHER -> {}

InPath(tool) ==
    tool \in {"search_code", "index_file", "remove_file", "search_similar", "delete_index",
              "reindex", "index_status", "list_chunks"}
Addressed(tool, name) == IF InPath(tool) THEN Segment(name) ELSE name

------------------------------------------------------------------------------
(* Replies.                                                                *)

Result(isError) == [kind |-> "result", isError |-> isError]
RpcError(code) == [kind |-> "error", code |-> code]
NoReply == [kind |-> "none"]
Suppressed == [kind |-> "suppressed"]
Panic == [kind |-> "panic"]

Ends(reply) == call' = [call EXCEPT !.at = "done", !.reply = reply]

\* How an outcome of call_tool is told, by the way the tool was called.
Tell(outcome) ==
    CASE outcome = "ok" -> Result(FALSE)
      [] outcome = "UnknownTool" -> RpcError("METHOD_NOT_FOUND")
      [] call.wrapped /\ outcome \in {"InvalidParams", "Transport"} -> Result(TRUE)
      [] ~call.wrapped /\ outcome = "InvalidParams" -> RpcError("INVALID_PARAMS")
      [] OTHER -> RpcError("INTERNAL_ERROR")

\* An agent sends a message: a method of the protocol, or a tool, by its own name or
\* within tools/call; fields it has with the right type.
Message ==
    /\ sent < MaxCalls /\ call.at \in {"idle", "done"}
    /\ sent' = sent + 1
    /\ \E version \in {"2.0", "1.0"}, id \in BOOLEAN, wrapped \in BOOLEAN, i \in IndexName,
          method \in Tools \cup {"initialize", "initialized", "tools/list", "rpc.discover",
                                 "no such tool", "no name"},
          fields \in {{}} \cup UNION {Needs(t) \cup {Declared(t)} : t \in Tools} :
           \* bound: a message that is refused for its version has nothing else of interest,
           \* a tool gets its own fields or none
           /\ version = "1.0" => method = "list_indexes" /\ fields = {}
           /\ ~id => method \in {"initialized", "list_indexes", "delete_index"}
           /\ fields \in {{}, Declared(method)} \cup Needs(method)
           /\ method \in {"initialize", "initialized", "tools/list", "rpc.discover"} => ~wrapped
           /\ method = "no name" => wrapped
           /\ \E wide \in IF method = "search_code" THEN BOOLEAN ELSE {FALSE} :
                  call' = [at |-> "dispatch", version |-> version, id |-> id, method |-> method,
                           wrapped |-> wrapped, name |-> i, fields |-> fields, wide |-> wide,
                           handled |-> 0, status |-> 0, json |-> FALSE, touched |-> FALSE,
                           acted |-> Nobody, reply |-> NoReply]
    /\ UNCHANGED <<apivars, daemon, logs>>

dispatch ==
    /\ call.at = "dispatch"
    /\ CASE call.version # "2.0" -> Ends(IF call.id THEN RpcError("INVALID_REQUEST") ELSE Suppressed)
         [] call.version = "2.0" /\ call.method \in {"initialize", "tools/list", "rpc.discover"}
                -> Ends([kind |-> "result", isError |-> FALSE])
         [] call.version = "2.0" /\ call.method = "initialized" -> Ends(Suppressed)
         [] call.version = "2.0" /\ call.method = "no name" -> Ends(RpcError("INVALID_PARAMS"))
         [] OTHER -> IF Needs(call.method) = {} THEN Ends(Tell("UnknownTool"))
                     ELSE IF \E need \in Needs(call.method) : need \subseteq call.fields
                     THEN call' = [call EXCEPT !.at = "send"]
                     ELSE Ends(Tell("InvalidParams"))
    /\ UNCHANGED <<apivars, daemon, logs, sent>>

SendFails ==
    /\ call.at = "send" /\ daemon = "down"
    /\ Ends(Tell("Transport"))
    /\ UNCHANGED <<apivars, daemon, logs, sent>>

------------------------------------------------------------------------------
(* The daemon carries a request out (the handlers of service/server.rs).   *)

Answer(status, json, target) ==
    call' = [call EXCEPT !.at = "answer", !.handled = @ + 1, !.status = status, !.json = json,
                         !.touched = (indexes' # indexes), !.acted = target]

\* Errors that are a bare status have no JSON body; those of reindex, create and chat have.
Refuse(status, json, target) == UNCHANGED indexes /\ Answer(status, json, target)

HandleRequest(target) ==
    LET tool == call.method
        found == target # Nobody /\ live[target] # 0
    IN \/ target = Nobody /\ Refuse(404, FALSE, target)
       \/ /\ target # Nobody /\ tool \in {"list_indexes", "search_health", "search_all"}
          /\ Refuse(200, TRUE, target)
       \/ tool = "search_code" /\ call.fields # {"index_id", "query"} /\ Refuse(422, FALSE, target)
       \/ /\ target # Nobody /\ ~found
          /\ tool \in {"search_code", "search_similar", "index_status", "list_chunks", "index_file",
                       "remove_file"}
          /\ Refuse(404, FALSE, target)
       \/ /\ found /\ tool \in {"search_code", "search_similar", "index_status", "list_chunks"}
          /\ \/ Refuse(200, TRUE, target)
             \/ tool = "search_similar" /\ Refuse(404, FALSE, target)
             \/ tool \in {"search_code", "search_similar"} /\ Refuse(500, FALSE, target)
       \/ /\ found /\ tool = "index_file"
          /\ \E f \in DOMAIN Files : \E new \in Files[f] :
                 \/ Insert(live[target], new) /\ Answer(200, TRUE, target)
                 \/ InsertFails(live[target], new) /\ Answer(500, FALSE, target)
       \/ /\ found /\ tool = "remove_file"
          /\ \E f \in DOMAIN Files : Erase(live[target], f)
          /\ Answer(200, TRUE, target)
       \/ tool = "reindex" /\ target # Nobody /\ ~found /\ Refuse(404, TRUE, target)
       \/ tool = "reindex" /\ found /\ (Refuse(429, TRUE, target) \/ Refuse(200, TRUE, target))
       \/ tool = "create_index" /\ found /\ Refuse(200, TRUE, target)
       \/ tool = "create_index" /\ ~found /\ Register(target) /\ Answer(200, TRUE, target)
       \/ tool = "create_index" /\ ~found /\ Refuse(503, TRUE, target)
       \/ tool = "delete_index" /\ found /\ Unregister(target) /\ Answer(200, TRUE, target)
       \/ tool = "delete_index" /\ target # Nobody /\ ~found /\ Refuse(200, TRUE, target)
       \/ tool = "chat" /\ \E status \in {200, 400, 500, 502, 503} : Refuse(status, TRUE, target)

\* The line about a search is cut in the middle of a character: the handler panics.
Cut(who) == call.method = "search_code" /\ call.wide /\ who \in logs

Carry ==
    /\ call.at = "send" /\ daemon = "up" /\ ~Cut("daemon")
    /\ HandleRequest(Addressed(call.method, call.name))
    /\ UNCHANGED <<updates, pager, similar, chatting, daemon, logs, sent>>

SearchPanics ==
    /\ call.at = "send" /\ daemon = "up" /\ Cut("daemon")
    /\ Ends(Tell("Transport"))
    /\ UNCHANGED <<apivars, daemon, logs, sent>>

\* Killed before the request was carried out, or before its answer was read.
DaemonKilled ==
    /\ daemon = "up" /\ daemon' = "down"
    /\ IF call.at \in {"send", "answer"} THEN Ends(Tell("Transport")) ELSE UNCHANGED call
    /\ UNCHANGED <<apivars, logs, sent>>

DaemonBack == daemon = "down" /\ daemon' = "up" /\ UNCHANGED <<apivars, logs, sent, call>>

\* Mutant: the status of the answer is not looked at.
HttpOutcomeByBody == IF call.json THEN "ok" ELSE "Transport"

\* get, post and delete read the body, then the status.
HttpOutcome == IF call.json /\ call.status = 200 THEN "ok" ELSE "Transport"

Reply ==
    /\ call.at = "answer"
    /\ Ends(IF HttpOutcome = "ok" /\ Cut("mcp") THEN Panic ELSE Tell(HttpOutcome))
    /\ UNCHANGED <<apivars, daemon, logs, sent>>

------------------------------------------------------------------------------
McpInit ==
    /\ ApiInit
    /\ daemon = "up" /\ logs \in SUBSET {"daemon", "mcp"} /\ sent = 0 /\ call = Idle

McpNext ==
    \/ Message \/ dispatch \/ SendFails \/ Carry \/ SearchPanics \/ Reply
    \/ DaemonKilled \/ DaemonBack
McpSpec == McpInit /\ [][McpNext \/ (ApiNext /\ UNCHANGED mcpvars)]_<<apivars, mcpvars>>

------------------------------------------------------------------------------
(* Properties.                                                             *)

Answered == call.at = "done"
OfTool == call.method \in Tools /\ call.version = "2.0"

\* Success is what the daemon has carried out, once, and answered with 200; of a tool
\* whose name keeps its meaning in a path, for the index that was named.
SuccessIsTrue ==
    Answered /\ OfTool /\ call.reply = Result(FALSE)
    => /\ call.handled = 1 /\ call.status = 200
       /\ Segment(call.name) = call.name => call.acted = call.name

\* What is refused as malformed never reached the daemon, and nothing reaches it twice.
RefusedIsUnsent ==
    /\ call.at # "idle" => call.handled <= 1
    /\ Answered /\ call.reply.kind = "error" /\ call.reply.code # "INTERNAL_ERROR" => call.handled = 0
    /\ Answered /\ OfTool /\ ~(\E need \in Needs(call.method) : need \subseteq call.fields)
       => call.handled = 0 /\ call.reply # Result(FALSE)

\* Within tools/call, a tool that is listed fails in the result, not in the protocol.
FailuresInBand ==
    Answered /\ OfTool /\ call.wrapped => call.reply.kind \in {"result", "panic"}

\* A tool with the scope search.read changes no index.
ReadsOnlyRead == call.at # "idle" /\ call.touched => Scope(call.method) = "search.write"

\* A call with every field the descriptor requires is not refused for its fields, and a
\* tool is known if, and only if, it is listed (chat: see ChatDeclared).
DescriptorsHonest ==
    /\ \A t \in Tools \ {"chat"} : Declared(t) \in Needs(t)
    /\ Answered /\ call.reply = RpcError("METHOD_NOT_FOUND") => call.method \notin Tools

\* What an agent is told of its calls is true, and what it is told of the tools too.
ToolsSound ==
    SuccessIsTrue /\ RefusedIsUnsent /\ FailuresInBand /\ ReadsOnlyRead /\ DescriptorsHonest

\* Refuted: tools.rs:66 says that there always is a response, rather than a panic. The line
\* about a search is cut after 80 bytes, wherever that is (tools.rs:259, server.rs:856).
AlwaysResponds == Answered => call.reply # Panic

\* Refuted: tools.rs:9 maps a tool to one endpoint of the index. Names are put into the
\* path as they are: with a question mark or a slash they name another index or none.
ActsOnNamed == Answered /\ OfTool /\ call.reply = Result(FALSE) => call.acted = call.name

\* Refuted: tools.rs:615 requires index_id only; the dispatcher requires a question too.
ChatDeclared == Declared("chat") \in Needs("chat")
=============================================================================
