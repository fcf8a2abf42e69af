----------------------------- MODULE SynapseActions ----------------------------
(* connectors/synapse: users and rooms over the homeserver's admin API. *)
EXTENDS ActionRow

ServerVersion == Read("server", {})
ListUsers     == Read("user", {})
GetUser       == Read("user", {"user"})
\* admin and deactivated are sent whether they were passed or not.
CreateUser == [Upsert("user", {"user"}) EXCEPT
    !.always = {"admin", "deactivated"}, !.defaults = {"admin", "deactivated"},
    !.set = {"password", "displayname", "email", "logout_devices"}]
\* Left out, logout_devices is sent as true.
SetPassword == [Update("user", {"user", "password"}) EXCEPT
    !.always = {"password", "logout_devices"}, !.defaults = {"logout_devices"}]
DeactivateUser == [Delete("user", {"user"}) EXCEPT !.always = {"erase"}, !.defaults = {"erase"}]

ListRooms    == Read("room", {})
DeleteRoom   == [Delete("room", {"room"}) EXCEPT !.async = TRUE,
    !.always = {"block", "purge"}, !.defaults = {"block", "purge"}, !.set = {"message", "room_name"}]
PurgeHistory == [Send("room", {"room", "purge_up_to_ts"}) EXCEPT !.async = TRUE,
    !.always = {"purge_up_to_ts", "delete_local_events"}, !.defaults = {"delete_local_events"}]

Rows == {ServerVersion, ListUsers, GetUser, CreateUser, SetPassword, DeactivateUser,
         ListRooms, DeleteRoom, PurgeHistory}
================================================================================
