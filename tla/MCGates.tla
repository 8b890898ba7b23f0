------------------------------ MODULE MCGates ------------------------------
EXTENDS RequestPath

Post(cred, tools) == [path |-> "mcp", post |-> TRUE, cred |-> cred, tools |-> tools,
                      peer |-> "near", origin |-> TRUE]
Get(path, cred) == [Post(cred, {}) EXCEPT !.path = path, !.post = FALSE]

\* Enough for every answer: served, denied for want of a tool's or a path's
\* scope, and refused by each middleware.  Only the local operator's requests
\* go on to the API plane: introspection and the pools share no state, and
\* their product shows nothing more.
MCArrivals == {Post("token", {"review_pull_request", "agent_result"}),
               Post("token", {"list_models"}), Get("v1", "token"),
               Post("service", {"agent_result"}),
               Post("local", {"agent"}), [Get("v1", "local") EXCEPT !.peer = "far"],
               [Get("v1", "none") EXCEPT !.origin = FALSE], Get("status", "none"),
               Get("public", "none")}
MCEntitled == [t \in {"token"} |-> {"connect", "review"}]
MCModes == {{"local", "service"}, {"service", "oauth"}}
\* Together they run every kind of work.
MCOps == {chat, generate_video, upload_file, get_file_content}
=============================================================================
