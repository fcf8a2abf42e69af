------------------------------ MODULE BunnyActions -----------------------------
(* connectors/bunny: DNS zones and records, pull zones and their hostnames. *)
EXTENDS ActionRow

ListZones         == Read("zone", {})
GetZone           == Read("zone", {"id"})
CreateZone        == [Create("zone", {"domain"}) EXCEPT !.always = {"domain"}]
DeleteZone        == Delete("zone", {"id"})
CheckAvailability == Read("zone", {"name"})
ExportZone        == [Read("zone", {"id", "out"}) EXCEPT !.saves = TRUE]

AddRecord == [Create("record", {"zone_id", "type", "value"}) EXCEPT
    !.always = {"type", "name", "value", "ttl"}, !.defaults = {"type", "ttl"},
    !.set = {"priority", "weight", "port", "flags", "tag", "comment", "disabled"}]
UpdateRecord == [Update("record", {"zone_id", "record_id"}) EXCEPT !.nonempty = TRUE,
    !.has = {"value", "ttl", "priority", "weight", "port", "flags", "tag", "comment",
             "disabled"}]
DeleteRecord == Delete("record", {"zone_id", "record_id"})

ListPullZones == Read("pullzone", {})
GetPullZone   == Read("pullzone", {"id"})
CreatePullZone == [Create("pullzone", {"name", "origin_url"}) EXCEPT
    !.always = {"name", "origin_url", "type"}, !.defaults = {"type"},
    !.has = {"origin_type", "origin_link_value", "add_host_header"}]
UpdatePullZone == [Update("pullzone", {"id"}) EXCEPT !.nonempty = TRUE, !.set = {"type"},
    !.has = {"origin_url", "enabled", "origin_type", "origin_link_value", "add_host_header"}]
DeletePullZone == Delete("pullzone", {"id"})

AddHostname         == Create("hostname", {"pullzone_id", "hostname"})
RemoveHostname      == Delete("hostname", {"pullzone_id", "hostname"})
LoadFreeCertificate == Send("hostname", {"hostname"})
\* Run does not look whether force_ssl was passed: left out, it is set to false.
SetForceSSL == [Replace("hostname_ssl", {"pullzone_id", "hostname"}) EXCEPT
    !.always = {"force_ssl"}]

Rows == {ListZones, GetZone, CreateZone, DeleteZone, CheckAvailability, ExportZone,
         AddRecord, UpdateRecord, DeleteRecord,
         ListPullZones, GetPullZone, CreatePullZone, UpdatePullZone, DeletePullZone,
         AddHostname, RemoveHostname, LoadFreeCertificate, SetForceSSL}
================================================================================
