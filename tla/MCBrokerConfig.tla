--------------------------- MODULE MCBrokerConfig ---------------------------
(***************************************************************************)
(* Small instances of BrokerConfig for TLC.  The integer widths are scaled *)
(* down: int64_t to 6 bits, unsigned int to 4, a port to 8..15, the        *)
(* manufacturer's range to 1..7.                                           *)
(***************************************************************************)
EXTENDS BrokerConfig

Null == [type |-> "null"]
Text(name, len) == [type |-> "string", text |-> name, len |-> len]
Unsigned(n) == [type |-> "number_unsigned", n |-> n]
Array(elems) == [type |-> "array", elems |-> elems]
Negative(n) == [type |-> "number_integer", n |-> n]

MCMaxSize == [key \in TextKeys |-> 3]

Uid(type, manu, device) ==
  [type |-> "object", uid_type |-> type, manufacturer_id |-> manu,
   device_id |-> device]

\* The ends of every range, their outer neighbours, and the largest uint64_t.
SomeNumbers == {Unsigned(n) : n \in {0, 7, 8, 15, 16, 31, 32, 63}} \cup {Negative(-1)}

SomeUids ==
  {Uid(Text(t, 1), m, d) :
     t \in {"static", "dynamic", "other"},
     m \in {Negative(-1), Unsigned(0), Unsigned(1), Unsigned(7), Unsigned(8),
            Unsigned(63)},
     d \in {Absent, Null, Negative(-1), Unsigned(0), Unsigned(15), Unsigned(16)}}
  \cup {Uid(Absent, Unsigned(1), Absent), Uid(Text("dynamic", 1), Null, Absent)}

\* The keys that interact: the name's default uses the CID, the list of
\* interfaces and the settings of an earlier file may leave a residue.  The
\* texts are empty, fit exactly, or are one too long.
InteractingFiles ==
  {[Nothing EXCEPT !["/cid"] = cid, !["/dns_sd/service_instance_name"] = name,
                   !["/scope"] = scope, !["/listen_interfaces"] = list,
                   !["/listen_port"] = port, !["/enable_broker"] = enable] :
     cid \in {Absent, Null, Text("uuid", 1), Text("junk", 1), Unsigned(1)},
     name \in {Absent, Text("a", 0), Text("a", 3), Text("a", 4)},
     scope \in {Absent, Null, Text("b", 4), Text("b", 2)},
     list \in {Absent, Array(<<Text("eth0", 1)>>),
               Array(<<Text("eth0", 1), Unsigned(0)>>)},
     port \in {Absent, Unsigned(8)},
     enable \in {Absent, [type |-> "boolean", b |-> FALSE]}}

\* Files with one key, which has a range.
RangeFiles ==
  {[Nothing EXCEPT ![key] = n] : key \in {"/listen_port", "/max_connections"}, n \in SomeNumbers}
  \cup {[Nothing EXCEPT !["/uid"] = val] : val \in SomeUids}
  \cup {[Nothing EXCEPT !["/log_level"] = val] :
           val \in {Text("debug", 1), Text("loud", 1)}}

MCFiles == InteractingFiles \cup RangeFiles
=============================================================================
