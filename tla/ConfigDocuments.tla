--------------------------- MODULE ConfigDocuments ---------------------------
(***************************************************************************)
(* Updates of the configuration (ConfigUpdate) with the rules by which     *)
(* texts are accepted and loaded (ConfigRules).                            *)
(***************************************************************************)
EXTENDS ConfigUpdate, ConfigRules

CONSTANT Document    \* what each text says

ASSUME DocumentAssumption ==
    /\ \A n \in Doc : WellFormed(Document[n])
    /\ Valid = {n \in Doc : Accepted(Document[n])}
    /\ Loadable = {n \in Doc : Loads(Document[n])}

-----------------------------------------------------------------------------
ArraysOnly(d) == \A k \in Sections(d) : d.sections[k].form = "array"

UniqueIds(d) == \A p, q \in Parsed(d) : ItemAt(d, p).id = ItemAt(d, q).id => p = q

DevicesHavePlcs(d) ==
    \A p \in ParsedOf(d, "plc_device") :
        \E q \in ParsedOf(d, "plc_list") : ItemAt(d, q).id = ItemAt(d, p).plc

\* The fields that the validator does not look at, or not closely enough: it does not ask
\* for a slave_id that is a number, nor for a serial_config that is an object.
Unvalidated ==
    [camera     |-> {"name"},
     plc_list   |-> {"name", "slave_id", "port", "parity", "stop_bits",
                     "gateway_id", "gateway_ip"},
     plc_device |-> {"name", "type", "register"},
     sensor     |-> {"name", "serial_config", "port", "baud_rate", "parity", "stop_bits",
                     "modbus_addr", "reg_start"},
     gateway    |-> {"name", "status"},
     carcontrol |-> {"name", "serial_config", "port", "baud_rate", "parity", "stop_bits",
                     "send_window_ms", "send_interval_ms", "operate_timeout_ms"}]

\* What config.json gives the process went through the validator: where every section is an
\* array, no two devices have one id and every PLC device names a configured PLC; and where
\* the next start ends with an exception, the root or a field that is listed above is to
\* blame, never a field that the validator vouches for.
LoadedIsConsistent ==
    loaded \in Doc /\ ArraysOnly(Document[loaded]) =>
        LET d == Document[loaded]
        IN  /\ UniqueIds(d) /\ DevicesHavePlcs(d)
            /\ d.root.object
            /\ \A p \in Parsed(d) : /\ ItemAt(d, p).object
                                     /\ Misfits(p[1], ItemAt(d, p)) \subseteq Unvalidated[p[1]]
=============================================================================
