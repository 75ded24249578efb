------------------------------ MODULE Contract ------------------------------
(***************************************************************************)
(* The two contracts the TypeScript SDK is generated against: the control  *)
(* plane's (api/schema.gen.ts) and the sandbox agent's                     *)
(* (dataplane/schema.gen.ts).  A schema is reduced to the fields a value   *)
(* of it must have and those it may have; an operation to the fields of    *)
(* its request, its success status and body, and the error statuses it     *)
(* declares.  A path item names the operation each verb selects.           *)
(***************************************************************************)
EXTENDS Naturals

\* Tables: an entry, and two tables as one (as in TLC's module, where a proof
\* could not expand them; joined is apart for the same reason).
key :> value == [k \in {key} |-> value]
joined(f, g) == [k \in DOMAIN f \cup DOMAIN g |-> IF k \in DOMAIN f THEN f[k] ELSE g[k]]
f @@ g == joined(f, g)

Schema(required, optional) == [required |-> required, optional |-> optional]

Empty == Schema({}, {})

-----------------------------------------------------------------------------
(* Control plane: schemas *)

CapabilityToken == Schema({"epoch", "expires_at", "token"}, {"ports"})
CreateSandboxRequest ==
  Schema({"template"}, {"deadline_seconds", "egress", "metadata", "name"})
CreateTemplateBuildRequest ==
  Schema({"image"}, {"alias", "ready_command", "resources", "start_command", "steps"})
Error == Schema({"code", "message"}, {"request_id", "retryable"})
ExposePortRequest == Schema({"visibility"}, {})
ExtendDeadlineRequest == Schema({"deadline_seconds"}, {})
MintTokenRequest == Schema({}, {"ports", "ttl_seconds"})
PortExposure == Schema({"port", "url", "visibility"}, {})
PortList == Schema({"items"}, {})
ResumeSandboxRequest == Schema({}, {"deadline_seconds"})
Sandbox ==
  Schema({"created_at", "deadline", "domain", "epoch", "metadata", "resources",
          "sandbox_id", "state", "template_artifact_id"},
         {"egress", "failure", "name", "restorable_until", "template"})
SandboxList == Schema({"items"}, {"next_cursor"})
SandboxWithToken == Schema({"sandbox", "token"}, {})
Template ==
  Schema({"artifact_id", "created_at", "template_id"}, {"alias", "description", "resources"})
TemplateBuild ==
  Schema({"build_id", "created_at", "image", "status"},
         {"alias", "artifact_id", "error", "finished_at", "image_digest"})
TemplateBuildLogs == Schema({"entries", "next_offset"}, {})
TemplateList == Schema({"items"}, {"next_cursor"})

\* The shared error responses, all of which carry an Error.
BadRequest == 400
Unauthorized == 401
Forbidden == 403
NotFound == 404
Conflict == 409
TooManyRequests == 429

-----------------------------------------------------------------------------
(* Operations *)

Operation(takes, ok, returns, errors) ==
  [takes |-> takes, ok |-> ok, returns |-> returns, errors |-> errors]

Page == Schema({}, {"cursor", "limit"})

listSandboxes ==
  Operation(Schema({}, {"cursor", "limit", "metadata", "name", "state"}), 200, SandboxList,
            {BadRequest, Unauthorized, TooManyRequests})
createSandbox ==
  Operation(Schema(CreateSandboxRequest.required,
                   CreateSandboxRequest.optional \cup {"Idempotency-Key"}), 201, SandboxWithToken,
            {BadRequest, Unauthorized, Forbidden, NotFound, Conflict, TooManyRequests, 503})
getSandbox == Operation(Empty, 200, Sandbox, {Unauthorized, NotFound})
deleteSandbox == Operation(Empty, 204, Empty, {Unauthorized, NotFound, Conflict})
extendSandboxDeadline ==
  Operation(ExtendDeadlineRequest, 200, Sandbox, {BadRequest, Unauthorized, NotFound, Conflict})
pauseSandbox == Operation(Empty, 200, Sandbox, {Unauthorized, NotFound, Conflict})
listPorts == Operation(Empty, 200, PortList, {Unauthorized, NotFound})
exposePort ==
  Operation(ExposePortRequest, 200, PortExposure, {BadRequest, Unauthorized, NotFound, Conflict})
unexposePort == Operation(Empty, 204, Empty, {Unauthorized, NotFound, Conflict})
resumeSandbox ==
  Operation(ResumeSandboxRequest, 200, SandboxWithToken,
            {Unauthorized, NotFound, Conflict, 410, TooManyRequests, 503})
mintSandboxToken ==
  Operation(MintTokenRequest, 201, CapabilityToken, {BadRequest, Unauthorized, NotFound, Conflict})
listTemplates == Operation(Page, 200, TemplateList, {Unauthorized})
getTemplate == Operation(Empty, 200, Template, {Unauthorized, NotFound})
deleteTemplate == Operation(Empty, 204, Empty, {Unauthorized, NotFound, Conflict})
createTemplateBuild ==
  Operation(CreateTemplateBuildRequest, 201, TemplateBuild,
            {BadRequest, Unauthorized, Forbidden, TooManyRequests})
getTemplateBuild == Operation(Empty, 200, TemplateBuild, {Unauthorized, NotFound})
getTemplateBuildLogs ==
  Operation(Schema({}, {"offset"}), 200, TemplateBuildLogs, {Unauthorized, NotFound})

sandboxPaths ==
  "/v1/sandboxes" :> [GET |-> listSandboxes, POST |-> createSandbox]
  @@ "/v1/sandboxes/{sandboxId}" :> [GET |-> getSandbox, DELETE |-> deleteSandbox]
  @@ "/v1/sandboxes/{sandboxId}/deadline" :> [POST |-> extendSandboxDeadline]
  @@ "/v1/sandboxes/{sandboxId}/pause" :> [POST |-> pauseSandbox]

portPaths ==
  "/v1/sandboxes/{sandboxId}/ports" :> [GET |-> listPorts]
  @@ "/v1/sandboxes/{sandboxId}/ports/{port}" :> [PUT |-> exposePort, DELETE |-> unexposePort]

instancePaths ==
  "/v1/sandboxes/{sandboxId}/resume" :> [POST |-> resumeSandbox]
  @@ "/v1/sandboxes/{sandboxId}/token" :> [POST |-> mintSandboxToken]

templatePaths ==
  "/v1/templates" :> [GET |-> listTemplates]
  @@ "/v1/templates/{template}" :> [GET |-> getTemplate, DELETE |-> deleteTemplate]
  @@ "/v1/templates/builds" :> [POST |-> createTemplateBuild]
  @@ "/v1/templates/builds/{buildId}" :> [GET |-> getTemplateBuild]
  @@ "/v1/templates/builds/{buildId}/logs" :> [GET |-> getTemplateBuildLogs]

-----------------------------------------------------------------------------
(* The sandbox agent *)

CommandResult == Schema({"exit_code", "stderr", "stdout"}, {"truncated"})
FileInfo == Schema({"kind", "mode", "modified_at", "name", "path", "size"}, {"target"})
FileList == Schema({"items"}, {})
MakeDirectoryRequest == Schema({"parents", "path"}, {"mode"})
MoveFileRequest == Schema({"destination", "overwrite", "source"}, {})
Process ==
  Schema({"command", "pid", "pty", "running", "started_at"}, {"exit_code", "exited_at"})
ProcessList == Schema({"items"}, {})
ProcessLogs ==
  Schema({"chunks", "next_sequence", "running"}, {"exit_code", "truncated_before"})
RunCommandRequest ==
  Schema({"command"}, {"args", "cwd", "env", "stdin", "timeout_seconds"})
StartProcessRequest == Schema({"command"}, {"args", "cwd", "env", "pty"})
Path == Schema({"path"}, {})

runCommand ==
  Operation(RunCommandRequest, 200, CommandResult, {BadRequest, Unauthorized, 408, TooManyRequests})
listFiles == Operation(Path, 200, FileList, {BadRequest, Unauthorized, NotFound})
removeFile ==
  Operation(Schema({"path"}, {"recursive"}), 204, Empty, {BadRequest, Unauthorized, NotFound})
downloadFile == Operation(Path, 200, Schema({"bytes"}, {}), {BadRequest, Unauthorized, NotFound})
uploadFile ==
  Operation(Schema({"path", "bytes"}, {"mode"}), 204, Empty, {BadRequest, Unauthorized})
makeDirectory == Operation(MakeDirectoryRequest, 204, Empty, {BadRequest, Unauthorized})
moveFile ==
  Operation(MoveFileRequest, 204, Empty, {BadRequest, Unauthorized, NotFound, Conflict})
statFile == Operation(Path, 200, FileInfo, {BadRequest, Unauthorized, NotFound})
listProcesses == Operation(Empty, 200, ProcessList, {Unauthorized})
startProcess ==
  Operation(StartProcessRequest, 201, Process, {BadRequest, Unauthorized, TooManyRequests})
getProcess == Operation(Empty, 200, Process, {Unauthorized, NotFound})
killProcess == Operation(Schema({}, {"signal"}), 204, Empty, {Unauthorized, NotFound})
getProcessLogs == Operation(Schema({}, {"after"}), 200, ProcessLogs, {Unauthorized, NotFound})

filePaths ==
  "/commands" :> [POST |-> runCommand]
  @@ "/files" :> [GET |-> listFiles, DELETE |-> removeFile]
  @@ "/files/content" :> [GET |-> downloadFile, PUT |-> uploadFile]
  @@ "/files/directories" :> [POST |-> makeDirectory]
  @@ "/files/move" :> [POST |-> moveFile]
  @@ "/files/stat" :> [GET |-> statFile]

processPaths ==
  "/processes" :> [GET |-> listProcesses, POST |-> startProcess]
  @@ "/processes/{pid}" :> [GET |-> getProcess, DELETE |-> killProcess]
  @@ "/processes/{pid}/logs" :> [GET |-> getProcessLogs]

controlPaths == sandboxPaths @@ portPaths @@ instancePaths @@ templatePaths
dataPaths == filePaths @@ processPaths
paths == controlPaths @@ dataPaths
=============================================================================
