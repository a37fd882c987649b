--------------------------- MODULE MCConfigUpdate ---------------------------
(***************************************************************************)
(* ConfigDocuments with thirteen documents, a good one and others that    *)
(* differ from it in one respect.                                          *)
(***************************************************************************)
EXTENDS ConfigDocuments

Fields(names, type) == [f \in names |-> type]
Item(id, type, plc, fields) ==
    [object |-> TRUE, id |-> id, type |-> type, plc |-> plc,
     fields |-> fields @@ [id |-> "string", name |-> "string"]]
Array(items) == [form |-> "array", items |-> items]
Object(items) == [form |-> "object", items |-> items]

Camera(id) == Item(id, "", "", [url |-> "string"])
Plc(id, slave) ==
    Item(id, "direct", "", [plc_id |-> "string", slave_id |-> slave, serial |-> "object",
                            connection_type |-> "string", baud_rate |-> "integer"])
Device(id, plc) == Item(id, "valve", plc, [plc_id |-> "string", type |-> "string"])
Sensor(id, type, fields) == Item(id, type, "", fields @@ [type |-> "string"])
Modbus(id, serial) ==
    Sensor(id, "modbus", [serial_config |-> serial, reg_count |-> "count", reg_start |-> "integer"])
Car(id, name, window) == Item(id, "", "", [name |-> name, send_window_ms |-> window])

Good == [root     |-> [object |-> TRUE, fields |-> [version |-> "string"]],
         devices  |-> TRUE,
         sections |-> [camera     |-> Array(<<Camera("c1"), Camera("c2")>>),
                       plc_list   |-> Array(<<Plc("p1", "numeric")>>),
                       plc_device |-> Array(<<Device("v1", "p1")>>),
                       sensor     |-> Array(<<Modbus("s1", "object"),
                                              Sensor("s2", "gpio", [serial_config |-> "object"])>>),
                       gateway    |-> [form |-> "none", items |-> <<>>],
                       carcontrol |-> Array(<<Car("r1", "string", "number")>>)]]

With(kind, section) == [Good EXCEPT !.sections[kind] = section]
Gateway(port) ==
    Item("p1", "gateway", "", [plc_id |-> "string", slave_id |-> "numeric", gateway |-> "object",
                               connection_type |-> "string", gateway_port |-> port])
NoSections == [k \in Kinds |-> [form |-> "none", items |-> <<>>]]
Five == [object |-> FALSE, id |-> "", type |-> "", plc |-> "", fields |-> [f \in {} |-> ""]]

\* The first five after "other" are refused, "gatewayed" is as good as "good"; the last
\* five are accepted and end the process when it starts next, apart from "objects".
MCDocument ==
    [good      |-> Good,
     other     |-> With("camera", Array(<<Camera("c1")>>)),
     rootless  |-> [Good EXCEPT !.devices = FALSE, !.sections = NoSections],
     shared    |-> With("camera", Array(<<Camera("c1"), Camera("v1")>>)),
     dangling  |-> With("plc_device", Array(<<Device("v1", "p2")>>)),
     noObject  |-> With("camera", Array(<<Five>>)),
     portText  |-> With("plc_list", Array(<<Gateway("string")>>)),
     gatewayed |-> With("plc_list", Array(<<Gateway("integer")>>)),
     versioned |-> [Good EXCEPT !.root.fields.version = "integer"],
     windowed  |-> With("carcontrol", Array(<<Car("r1", "string", "string")>>)),
     slaveless |-> With("plc_list", Array(<<Plc("p1", "string")>>)),
     five      |-> With("sensor", Array(<<Modbus("s1", "count")>>)),
     objects   |-> With("camera", Object(<<Camera("c1"), Camera("c1")>>))]

MCDoc == DOMAIN MCDocument
Passing == {n \in MCDoc : Accepted(MCDocument[n])}    \* TLC evaluates it once
MCValid == Passing
Loading == {n \in MCDoc : Loads(MCDocument[n])}
MCLoadable == Loading
=============================================================================
