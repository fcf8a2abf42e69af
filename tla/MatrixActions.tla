----------------------------- MODULE MatrixActions -----------------------------
(* connectors/matrix: rooms, spaces and messages.  An alias is resolved      *)
(* before the request that needs the room's id.                              *)
EXTENDS ActionRow

InRoom(a) == [a EXCEPT !.lookup = TRUE, !.needs = @ \cup {"room"}]

Whoami      == Read("account", {})
ListRooms   == Read("room", {})
GetRoom     == InRoom(Read("room", {}))
GetMessages == InRoom(Read("message", {}))
\* The transaction id is a new one in every run, so that a second run after a
\* lost answer sends the message twice.
SendMessage == [InRoom(Send("message", {"body"})) EXCEPT
    !.always = {"msgtype", "body"}, !.defaults = {"msgtype"}, !.set = {"html"}]

CreateRoomBody(kind) == [Create(kind, {}) EXCEPT
    !.always = {"preset"}, !.defaults = {"preset"}, !.set = {"name", "topic", "alias", "invite"}]
CreateRoom  == [CreateRoomBody("room") EXCEPT !.set = @ \cup {"encrypted", "topic_html"}]
CreateSpace == [CreateRoomBody("space") EXCEPT !.set = @ \cup {"topic_html"}]
InviteUser  == [InRoom(Create("membership", {"user"})) EXCEPT !.set = {"reason"}]
\* The state event is replaced as a whole; via is derived from the room's id.
AddRoomToSpace == [InRoom(Replace("space_child", {"space"})) EXCEPT
    !.always = {"via"}, !.refills = {"via"}, !.set = {"suggested", "order"}]
SetTyping == [InRoom(Replace("typing", {})) EXCEPT
    !.always = {"typing"}, !.defaults = {"typing"}, !.refills = {"timeout_ms"},
    !.pairs = {<<"timeout_ms", "typing">>}]

Rows == {Whoami, ListRooms, GetRoom, GetMessages, SendMessage, CreateRoom, CreateSpace,
         InviteUser, AddRoomToSpace, SetTyping}
================================================================================
