---------------------------- MODULE ConfigRules ----------------------------
(***************************************************************************)
(* What ConfigUpdater (src/config/update_config.cpp) accepts and what      *)
(* ConfigParser (include/common/config/config_parser.cpp) makes of it.     *)
(*                                                                         *)
(* A document has a root, device_config, in which there may be an object   *)
(* devices; and for each kind of device which form its section has         *)
(* ("array"; "object" for whatever else can be iterated over; "none") and  *)
(* its items in order.  Of an item remain the JSON types of its fields,    *)
(* and the values that the checks compare: its id, its type (a PLC's       *)
(* connection_type) and the PLC it names.  Fields of an object within an   *)
(* item (serial, gateway or serial_config) are listed beside the others,   *)
(* no two of them have one name.                                           *)
(***************************************************************************)
EXTENDS Sequences, SequencesExt

Kinds == {"camera", "plc_list", "plc_device", "sensor", "gateway", "carcontrol"}

\* "numeric" is a string that std::stoi can read; "count" is a positive integer; "number" is
\* what else get<int>() takes: a fraction or a Boolean.
StringTypes == {"string", "numeric"}
Integer == {"count", "integer"}
Number == Integer \cup {"number"}
JsonTypes == StringTypes \cup Number \cup {"object", "other"}

\* item.contains(f), and its type is one of these.
Typed(item, f, types) == f \in DOMAIN item.fields /\ item.fields[f] \in types

\* value() of json.hpp: the default where there is no such field, type_error 302 where it
\* is of another type.
Readable(item, f, types) == f \in DOMAIN item.fields => item.fields[f] \in types

PartTexts ==
    [serial        |-> {"port", "parity"},
     serial_config |-> {"port", "parity"},
     gateway       |-> {"gateway_id", "gateway_ip"}]

PartNumbers ==
    [serial        |-> {"baud_rate", "stop_bits"},
     serial_config |-> {"baud_rate", "stop_bits"},
     gateway       |-> {"gateway_port"}]

\* The objects within an item that the parser goes into.
PartsOf(kind, item) ==
    CASE kind = "plc_list" /\ item.type = "direct"  -> {"serial"}
      [] kind = "plc_list" /\ item.type = "gateway" -> {"gateway"}
      [] kind \in {"sensor", "carcontrol"}          -> {"serial_config"}
      [] OTHER                                      -> {}

\* What is no object has no fields, and neither has an item within.
WellFormedItem(kind, item) ==
    /\ item.object \/ DOMAIN item.fields = {}
    /\ \A f \in DOMAIN item.fields : item.fields[f] \in JsonTypes
    /\ \A part \in PartsOf(kind, item) :
          DOMAIN item.fields \cap (PartTexts[part] \cup PartNumbers[part]) # {} =>
              Typed(item, part, {"object"})

WellFormed(d) ==
    /\ d.devices \in BOOLEAN /\ (d.devices => d.root.object)
    /\ \A k \in Kinds :
        /\ d.sections[k].form \in IF d.devices THEN {"array", "object", "none"} ELSE {"none"}
        /\ d.sections[k].items \in Seq(Range(d.sections[k].items))
        /\ \A item \in Range(d.sections[k].items) : WellFormedItem(k, item)

Sections(d) == {k \in Kinds : d.sections[k].form # "none"}

-----------------------------------------------------------------------------
(* ConfigUpdater.  A verdict is what the checks so far have found.         *)

\* Lines 40-66; a text that cannot be parsed is no document.
validateJsonFormat(d) == d.devices

IdField(kind) == IF kind = "plc_list" THEN "plc_id" ELSE "id"

\* Mutant of checkAndAddId: the id is not inserted.
checkIdOnly(kind, verdict, item) ==
    [verdict EXCEPT !.ok = @ /\ Typed(item, IdField(kind), StringTypes)
                             /\ item.id \notin verdict.ids]

\* Lines 75-90: line 76 asks a JSON string whether it is empty(), which it never is.
checkAndAddId(kind, verdict, item) ==
    [verdict EXCEPT !.ok = @ /\ Typed(item, IdField(kind), StringTypes)
                             /\ item.id \notin verdict.ids,
                    !.ids = @ \cup {item.id}]

Required ==
    [camera     |-> {"url"},
     plc_list   |-> {"slave_id", "connection_type"},
     plc_device |-> {"plc_id"},
     sensor     |-> {"type"},
     gateway    |-> {"ip", "protocol"},
     carcontrol |-> {}]

\* What the loop of one section asks of an item beside its id.  Of a modbus sensor's
\* serial_config it only asks that it is there (line 190).
FieldsOk(kind, item, plcs) ==
    /\ \A f \in Required[kind] : Typed(item, f, StringTypes)
    /\ kind = "plc_list" =>
          \/ item.type = "direct" /\ Typed(item, "baud_rate", Integer)
          \/ item.type = "gateway" /\ Typed(item, "gateway_port", Integer)
    /\ kind = "sensor" /\ item.type = "modbus" =>
          "serial_config" \in DOMAIN item.fields /\ Typed(item, "reg_count", {"count"})
    /\ kind = "plc_device" => item.plc \in plcs

checkItem(kind, verdict, item) ==
    LET named == checkAndAddId(kind, verdict, item)
    IN  [named EXCEPT !.ok = @ /\ FieldsOk(kind, item, verdict.plcs),
                      !.plcs = IF kind = "plc_list" THEN @ \cup {item.id} ELSE @]

\* A section that is not an array is passed over.
checkSection(d, verdict, kind) ==
    IF d.sections[kind].form = "array"
    THEN FoldLeft(LAMBDA v, i : checkItem(kind, v, i), verdict, d.sections[kind].items)
    ELSE verdict

\* Lines 93-239: the sections in this order, one set of ids for all of them.
validateBusinessLogic(d) ==
    LET cameras  == checkSection(d, [ok |-> TRUE, ids |-> {}, plcs |-> {}], "camera")
        plcs     == checkSection(d, cameras, "plc_list")
        devices  == checkSection(d, plcs, "plc_device")
        sensors  == checkSection(d, devices, "sensor")
        gateways == checkSection(d, sensors, "gateway")
    IN  checkSection(d, gateways, "carcontrol").ok

Accepted(d) == validateJsonFormat(d) /\ validateBusinessLogic(d)

-----------------------------------------------------------------------------
(* ConfigParser: it iterates over an array and over an object alike.       *)

\* The devices of config_, as places in the document.
Parsed(d) == UNION {{<<k, n>> : n \in DOMAIN d.sections[k].items} : k \in Sections(d)}

ItemAt(d, place) == d.sections[place[1]].items[place[2]]

ParsedOf(d, kind) == {p \in Parsed(d) : p[1] = kind}

ItemTexts ==
    [camera     |-> {"id", "name", "url"},
     plc_list   |-> {"plc_id", "name", "slave_id", "connection_type"},
     plc_device |-> {"id", "plc_id", "name", "type", "register"},
     sensor     |-> {"id", "name", "type"},
     gateway    |-> {"id", "name", "ip", "protocol", "status"},
     carcontrol |-> {"id", "name"}]

ItemNumbers(kind, item) ==
    CASE kind = "sensor" /\ item.type = "modbus" -> {"modbus_addr", "reg_start", "reg_count"}
      [] kind = "carcontrol" -> {"send_window_ms", "send_interval_ms", "operate_timeout_ms"}
      [] OTHER               -> {}

TextsOf(kind, item) == ItemTexts[kind] \cup UNION {PartTexts[p] : p \in PartsOf(kind, item)}
NumbersOf(kind, item) ==
    ItemNumbers(kind, item) \cup UNION {PartNumbers[p] : p \in PartsOf(kind, item)}

\* The fields whose reading fails: value() throws at one of another type and at a part that
\* is no object, std::stoi at a slave_id that is no number (lines 81-87), and the const
\* operator[] of line 140 is undefined for a sensor without serial_config.
Misfits(kind, item) ==
    {f \in TextsOf(kind, item) : ~Readable(item, f, StringTypes)}
    \cup {f \in NumbersOf(kind, item) : ~Readable(item, f, Number)}
    \cup {f \in {"slave_id"} : kind = "plc_list" /\ ~Readable(item, f, {"numeric"})}
    \cup {p \in PartsOf(kind, item) : ~Readable(item, p, {"object"})}
    \cup {p \in {"serial_config"} : kind = "sensor" /\ p \notin DOMAIN item.fields}

RootTexts == {"version", "description", "box"}

\* loadFromFile returns; where it does not, an exception that nobody catches ends the
\* process (main.cpp:23).
Loads(d) ==
    /\ d.root.object /\ \A f \in RootTexts : Readable(d.root, f, StringTypes)
    /\ \A p \in Parsed(d) : ItemAt(d, p).object /\ Misfits(p[1], ItemAt(d, p)) = {}
=============================================================================
