------------------------------ MODULE Requester ------------------------------
(***************************************************************************)
(* RequesterURL (Managers/RequesterURL.swift), the one object that talks   *)
(* to the REST server.  Its five operations differ only in how the         *)
(* completion handler given to Alamofire turns the body of the answer into *)
(* calls of the two closures the caller passed, toDoIfSuccess and          *)
(* toDoIfError.  That translation is a function of the body: one operator  *)
(* per operation gives the sequence of closures it calls.                  *)
(*                                                                         *)
(* A body is abstracted to what the handlers tell apart:                   *)
(*   "none"        response.data is nil: no connection, a timeout, a       *)
(*                 refused host, or an answer with no bytes                *)
(*   "unreadable"  JSONDecoder throws (and the body is not 2 bytes long)   *)
(*   "[]"          2 bytes that do not decode into a struct                *)
(*   "{}"          2 bytes that do: every field is nil                     *)
(*   "message"     an object with a message, the server's way to refuse    *)
(*   "result"      the object the operation asked for: a token, tasks with *)
(*                 meta, or a task                                         *)
(***************************************************************************)
EXTENDS Sequences

Body == {"none", "unreadable", "[]", "{}", "message", "result"}

(* The bodies JSONDecoder turns into a LoginResultData, TaskList or        *)
(* TaskDetail: all their fields are optional, so any object decodes.       *)
Decodes(body) == body \in {"{}", "message", "result"}

(* data.count == 2                                                         *)
TwoBytes(body) == body \in {"[]", "{}"}

(* loginUser: only a token is a success; any other object is an error.     *)
LoginUser(body) ==
  IF ~Decodes(body) THEN <<>>
  ELSE IF body = "result" THEN <<"success">> ELSE <<"error">>

(* getTaskList: both meta and tasks have to be there.                      *)
GetTaskList(body) ==
  IF ~Decodes(body) THEN <<>>
  ELSE IF body = "result" THEN <<"success">> ELSE <<"error">>

(* deleteTask: a body of 2 bytes is a success, and without a return the    *)
(* same body is then decoded, so "{}" calls toDoIfSuccess a second time.   *)
DeleteTask(body) ==
  (IF TwoBytes(body) THEN <<"success">> ELSE <<>>) \o
  (IF ~Decodes(body) THEN <<>>
   ELSE IF body = "message" THEN <<"error">> ELSE <<"success">>)

(* A mutant of updateTask: the return after the 2-byte test is lost.       *)
UpdateTaskNoReturn(body) ==
  (IF TwoBytes(body) THEN <<"success">> ELSE <<>>) \o
  (IF ~Decodes(body) THEN <<>>
   ELSE IF body = "message" THEN <<"error">> ELSE <<"success">>)

(* updateTask: as deleteTask, with the return.                             *)
UpdateTask(body) ==
  IF TwoBytes(body) THEN <<"success">>
  ELSE IF ~Decodes(body) THEN <<>>
  ELSE IF body = "message" THEN <<"error">> ELSE <<"success">>

(* createTask: no special case for 2 bytes.                                *)
CreateTask(body) ==
  IF ~Decodes(body) THEN <<>>
  ELSE IF body = "message" THEN <<"error">> ELSE <<"success">>
=============================================================================
