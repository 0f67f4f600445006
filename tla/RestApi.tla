-------------------------------- MODULE RestApi --------------------------------
(***************************************************************************)
(* What the HTTP handlers of CRestApi (pull/src/app/rest_api.cpp) decide   *)
(* about one request: the reply, and the event they hand to put_data.  The *)
(* handlers keep nothing between requests, so this module has no state; it *)
(* is composed with the workers in PullServer.                             *)
(*                                                                         *)
(* A body is abstracted to what the handlers tell apart.  jsoncpp (1.8.1,  *)
(* built with exceptions) reads an absent or null field as "" or 0, turns  *)
(* a number into a string, and throws for a field of another type and for  *)
(* a document that is not an object.                                       *)
(***************************************************************************)
CONSTANTS
    Sids,     \* stream ids a client may send
    NoSid     \* an absent or empty sid

Fields == {"src", "dest", "sid", "type", "pid"}

\* A body that is missing, is not JSON, or is JSON of another kind has no fields.
Unusable ==
    [document : {"null", "garbled", "not an object"}, src : {FALSE}, dest : {FALSE},
     sid : {NoSid}, type : {"rtmp"}, mistyped : {{}}]

\* src and dest: whether they are non-empty.  A missing type is 0, which is rtmp.
Objects ==
    [document : {"object"}, src : BOOLEAN, dest : BOOLEAN, sid : Sids \cup {NoSid},
     type : {"rtmp", "rtsp", "other"}, mistyped : {{}}]

\* mistyped: the field whose conversion throws; the others may be missing too.
MistypedObjects ==
    [document : {"object"}, src : BOOLEAN, dest : {TRUE}, sid : Sids,
     type : {"rtmp"}, mistyped : {{f} : f \in Fields}]

Bodies == Unusable \cup Objects \cup MistypedObjects

Commands == {"start", "stop", "start_i", "stop_i"}

\* The fields each handler converts, all of them before it looks at any.
FieldsRead(cmd) ==
    CASE cmd = "start"   -> {"src", "dest", "sid", "type"}
      [] cmd = "stop"    -> {"sid"}
      [] cmd = "start_i" -> {"sid", "type"}
      [] cmd = "stop_i"  -> {"pid"}

Throws(cmd, b) ==
    b.document = "not an object" \/ b.mistyped \cap FieldsRead(cmd) # {}

\* Mutant: start does not look at the sid.
IncompleteButForSid(cmd, b) ==
    \/ cmd = "start" /\ (~b.src \/ ~b.dest \/ b.type = "other")
    \/ cmd = "stop" /\ b.sid = NoSid

\* INPUT_NO_MATCH and TRANSLATE_TYPE_UNSUPPORT; the /i/ handlers check nothing.
Incomplete(cmd, b) ==
    \/ cmd = "start" /\ (~b.src \/ ~b.dest \/ b.sid = NoSid \/ b.type = "other")
    \/ cmd = "stop" /\ b.sid = NoSid

\* The event of an accepted request.  stop_i fills in the pid only.
EventOf(cmd, b) ==
    CASE cmd = "start"   -> [type |-> "create", sid |-> b.sid]
      [] cmd = "stop"    -> [type |-> "remove", sid |-> b.sid]
      [] cmd = "start_i" -> [type |-> "reload", sid |-> b.sid]
      [] cmd = "stop_i"  -> [type |-> "terminate", sid |-> NoSid]

\* Mutant: INPUT_NO_MATCH is answered, and the event is queued all the same.
AcceptsIncomplete(cmd, b) == b.document = "object" /\ ~Throws(cmd, b)

Accepts(cmd, b) ==
    b.document = "object" /\ ~Throws(cmd, b) /\ ~Incomplete(cmd, b)

\* The HTTP status, and the member "ret" of the JSON reply, which holds the
\* still untouched local ret when the input does not match.
Reply(cmd, b) ==
    CASE b.document = "null" ->
            [http |-> IF cmd \in {"start", "stop"} THEN 403 ELSE 400,
             ret  |-> IF cmd = "stop" THEN 403 ELSE 400]
      [] b.document = "garbled" -> [http |-> 400, ret |-> 0]
      [] b.document = "not an object" \/ (b.document = "object" /\ Throws(cmd, b)) ->
            [http |-> 403, ret |-> 403]
      [] b.document = "object" /\ ~Throws(cmd, b) /\ Incomplete(cmd, b) ->
            [http |-> 400, ret |-> 0]
      [] OTHER -> [http |-> 200, ret |-> 0]

Replies == [http : {200, 400, 403}, ret : {0, 400, 403}]
===============================================================================
