----------------------------- MODULE Deployment -----------------------------
(***************************************************************************)
(* Who may reach the MCP tools over HTTP.  Two programs serve one MCP       *)
(* server (app/mcp_servers/server.py): the application (app/main.py), which *)
(* mounts it at /mcp, and the service of its own (mcp_service/server.py).   *)
(* Each takes MCP_HTTP_TOKEN and RAILWAY_PUBLIC_DOMAIN from its environment *)
(* once, when it starts, so a setting that is changed takes a restart.      *)
(***************************************************************************)
EXTENDS Integers

CONSTANTS
  Tokens,  \* values MCP_HTTP_TOKEN may have
  None     \* an empty or missing variable, header or setting

ASSUME DeploymentAssumption == None \notin Tokens

Programs == {"app", "mcp_service"}
Paths == {"/health", "/mcp", "/authorize"}

Settings == [domain : BOOLEAN, token : Tokens \cup {None}]

VARIABLES
  env,    \* the settings now, of either program
  run,    \* each program's settings when it started, or None
  reply   \* the last request and the status it got

deploymentVars == <<env, run, reply>>

NoReply == [status |-> None]

DeploymentInit ==
  /\ env \in [Programs -> Settings]
  /\ run = [p \in Programs |-> None]
  /\ reply = NoReply

(* _http_auth: the token that OAuth is built on, or no auth.                *)
HttpAuth(s) == IF s.domain THEN s.token ELSE None

-----------------------------------------------------------------------------
Set(p, s) ==
  /\ env' = [env EXCEPT ![p] = s]
  /\ UNCHANGED <<run, reply>>

StartApp ==
  /\ run' = [run EXCEPT !["app"] = env["app"]]
  /\ reply' = NoReply
  /\ UNCHANGED env

(* mcp_service/server.py raises unless there is auth: it does not start.    *)
StartService ==
  /\ run' = [run EXCEPT !["mcp_service"] =
               IF HttpAuth(env["mcp_service"]) = None THEN None ELSE env["mcp_service"]]
  /\ reply' = NoReply
  /\ UNCHANGED env

Stop(p) ==
  /\ run' = [run EXCEPT ![p] = None]
  /\ reply' = NoReply
  /\ UNCHANGED env

-----------------------------------------------------------------------------
(* The MCP server's own application: with auth the SDK serves OAuth's       *)
(* routes and asks load_access_token about the bearer of a call; without,   *)
(* nobody is asked.                                                         *)
McpStatus(s, path, bearer) ==
  CASE path = "/authorize" -> IF HttpAuth(s) = None THEN 404 ELSE 200
    [] path = "/mcp" -> IF HttpAuth(s) \in {None, bearer} THEN 200 ELSE 401

(* Variants, which nothing below uses, stand before what they vary: a       *)
(* plausible slip in the code, named for what it does.  These: bytes        *)
(* compared with text, and a request without the header passes.             *)
GateOfText(s, path, bearer) == 401
GateOfWrongTokens(s, path, bearer) ==
  IF bearer \notin {None, s.token} THEN 401 ELSE McpStatus(s, path, bearer)

(* _BearerAuth.                                                             *)
Gate(s, path, bearer) ==
  IF bearer # s.token THEN 401 ELSE McpStatus(s, path, bearer)

(* The application mounts the server at /mcp, behind _BearerAuth, if there  *)
(* is a token; OAuth's routes come under the mount too, none at the root.   *)
AppStatus(s, path, bearer) ==
  CASE path = "/health" -> 200
    [] path = "/authorize" -> 404
    [] path = "/mcp" -> IF s.token = None THEN 404 ELSE Gate(s, path, bearer)

ServiceStatus(s, path, bearer) ==
  IF path = "/health" THEN 200 ELSE McpStatus(s, path, bearer)

Status(p, path, bearer) ==
  IF p = "app" THEN AppStatus(run[p], path, bearer)
               ELSE ServiceStatus(run[p], path, bearer)

Request(p, path, bearer) ==
  /\ run[p] # None
  /\ reply' = [program |-> p, path |-> path, bearer |-> bearer,
               status |-> Status(p, path, bearer)]
  /\ UNCHANGED <<env, run>>

DeploymentNext ==
  \/ \E p \in Programs : Stop(p) \/ \E s \in Settings : Set(p, s)
  \/ StartApp \/ StartService
  \/ \E p \in Programs, path \in Paths, bearer \in Tokens \cup {None} : Request(p, path, bearer)

DeploymentSpec == DeploymentInit /\ [][DeploymentNext]_deploymentVars

-----------------------------------------------------------------------------
Answered(path, status) == reply # NoReply /\ reply.path = path /\ reply.status = status

(* Whatever is set, forgotten or changed, in whatever order with restarts:  *)
(* the tools answer only a caller who has the token that the program was    *)
(* started with, and never without one ("must not be open by default",      *)
(* settings.py:23-26).                                                      *)
ToolsNeedToken ==
  Answered("/mcp", 200) =>
     /\ run[reply.program].token # None
     /\ reply.bearer = run[reply.program].token

(* Who has it is not turned away: in the application the two checks, of     *)
(* _BearerAuth and of the SDK, agree on one token (main.py:86,              *)
(* server.py:91).                                                           *)
TokenSuffices ==
  Answered("/mcp", 401) => reply.bearer # run[reply.program].token

=============================================================================
