---------------------------- MODULE BrokerConfig ----------------------------
(***************************************************************************)
(* BrokerConfig (src/core/broker_config.{h,cpp}): the settings, and how    *)
(* broker.conf overwrites them.  One load is what LoadBrokerConfig does:   *)
(* SetDefaults walks the validator array and stores each default, Read     *)
(* parses the stream and ValidateCurrent walks the array again, storing    *)
(* for each key the file's value if it is acceptable and the default if it *)
(* is absent, null, of the wrong type or rejected.  The object is reused   *)
(* by every load, so what one load leaves behind is there in the next.     *)
(*                                                                         *)
(* A file gives each key a JSON value.  A JSON text is a name and a length, *)
(* so that truncation shows.                                               *)
(***************************************************************************)
EXTENDS Integers, Sequences

CONSTANTS
  DefaultCid,  \* default_cid_, the machine's preferred UUID
  Uuids,       \* texts that etcpal::Uuid::FromString accepts
  MaxSize,     \* for each string key the longest text that fits
  PortMin, PortMax,  \* 1024 and 65535
  UintMax,     \* largest unsigned int
  Half,        \* 2^63: int64_t holds -Half .. Half - 1, uint64_t 2 * Half values
  ManuLimit,   \* 0x8000
  EtcManu,     \* 0x6574, ETC's manufacturer ID
  DeviceMax,   \* 0xffffffff
  Files        \* the objects broker.conf may hold: a value for each key

LimitKeys == {"/max_connections", "/max_controllers",
              "/max_controller_messages", "/max_devices",
              "/max_device_messages", "/max_reject_connections"}

TextKeys == {"/dns_sd/service_instance_name", "/dns_sd/manufacturer",
             "/dns_sd/model", "/scope"}

\* kSettingsValidatorArray, in the order in which it is walked.
Pointers == <<"/cid", "/uid", "/dns_sd/service_instance_name",
              "/dns_sd/manufacturer", "/dns_sd/model", "/scope",
              "/listen_port", "/listen_interfaces", "/log_level",
              "/max_connections", "/max_controllers",
              "/max_controller_messages", "/max_devices",
              "/max_device_messages", "/max_reject_connections",
              "/enable_broker">>

Keys == {Pointers[n] : n \in 1..Len(Pointers)}

kLogLevelOptions == {"debug", "info", "notice", "warning", "err", "crit",
                     "alert", "emerg"}

\* The value of a key that the file does not have, and the JSON value
\* before any file has been parsed, or after one that could not be.
Absent == [type |-> "absent"]
Nothing == [key \in Keys |-> Absent]

\* The keys that ValidateAndStoreInt is used for.
IntKeys == LimitKeys \cup {"/listen_port"}

\* The integers that the parser delivers: int64_t and uint64_t.
IsInteger(val) == val.type \in {"number_unsigned", "number_integer"}
JsonInteger == (0 - Half)..(2 * Half - 1)

ASSUME ConfigAssumption ==
  /\ PortMin \in Nat /\ PortMax \in Nat /\ UintMax \in Nat /\ Half \in Nat
  /\ ManuLimit \in Nat /\ DeviceMax \in Nat
  /\ 0 < PortMin /\ PortMin <= PortMax
  /\ PortMax < Half /\ UintMax < Half /\ DeviceMax < Half /\ ManuLimit <= Half
  /\ EtcManu \in 1..(ManuLimit - 1)
  /\ \A key \in TextKeys : MaxSize[key] \in Nat \ {0}

ASSUME FilesAssumption ==
  \A file \in Files :
    /\ DOMAIN file = Keys
    /\ \A key \in TextKeys : file[key].type = "string" =>
         file[key].text \in STRING /\ file[key].len \in Nat
    /\ \A key \in IntKeys : IsInteger(file[key]) => file[key].n \in JsonInteger
    /\ file["/listen_interfaces"].type = "array" =>
         LET elems == file["/listen_interfaces"].elems
         IN  /\ Len(elems) \in Nat
             /\ \A e \in 1..Len(elems) :
                  elems[e].type = "string" => elems[e].text \in STRING
    /\ file["/enable_broker"].type = "boolean" =>
         file["/enable_broker"].b \in BOOLEAN
    /\ file["/uid"].type = "object" =>
         \A field \in {file["/uid"].manufacturer_id, file["/uid"].device_id} :
           IsInteger(field) => field.n \in JsonInteger

VARIABLES
  pc,        \* "idle", "defaults", "parse" or "validate"
  next,      \* the entry of the array the walk has reached
  config,    \* settings, log_mask and enable_broker, by key
  current_,  \* the object last parsed
  result     \* what Read returns; "none" before the first load

vars == <<pc, next, config, current_, result>>

-----------------------------------------------------------------------------
\* val.type() as the array's entry for the key expects it.
ValueType(key) ==
  CASE key \in TextKeys \cup {"/cid", "/log_level"}  -> "string"
    [] key = "/uid"                                  -> "object"
    [] key \in IntKeys                               -> "number_unsigned"
    [] key = "/listen_interfaces"                    -> "array"
    [] key = "/enable_broker"                        -> "boolean"

\* The store_default functions.  The service instance name embeds whatever
\* CID the settings hold at that moment.
Default(key, settings) ==
  CASE key = "/cid"                           -> DefaultCid
    [] key = "/uid"                           -> [type |-> "dynamic", manu |-> EtcManu]
    [] key = "/dns_sd/service_instance_name"  -> [broker_cid |-> settings["/cid"]]
    [] key = "/dns_sd/manufacturer"           -> [text |-> "ETC", len |-> 1]
    [] key = "/dns_sd/model"                  -> [text |-> "model", len |-> 1]
    [] key = "/scope"                         -> [text |-> "default", len |-> 1]
    [] key = "/listen_port"                   -> 0
    [] key = "/listen_interfaces"             -> <<>>
    [] key = "/log_level"                     -> "info"
    [] key = "/max_controller_messages"       -> 500
    [] key = "/max_device_messages"           -> 500
    [] key = "/max_reject_connections"        -> 1000
    [] key = "/enable_broker"                 -> TRUE
    [] OTHER                                  -> 0

\* Mutant: the value is narrowed to the setting's type before the check.
ToUint(n) == n % (UintMax + 1)

\* The conversion of a JSON integer to int64_t: modulo 2^64.
ToInt64(n) == IF n < Half THEN n ELSE n - 2 * Half

IntLimits(key) == IF key = "/listen_port" THEN <<PortMin, PortMax>>
                                          ELSE <<0, UintMax>>

\* ValidateAndStoreInt: the range check is on the converted value.
AcceptsInt(key, n) == /\ ToInt64(n) >= IntLimits(key)[1]
                      /\ ToInt64(n) <= IntLimits(key)[2]

\* ValidateAndStoreString: only /scope refuses a text that is too long.
AcceptsString(key, val) ==
  /\ val.len > 0
  /\ val.len > MaxSize[key] => key # "/scope"

\* Mutant: an overlong text is stored as it is.
StoredWhole(key, val) == [text |-> val.text, len |-> val.len]

StoredString(key, val) ==
  [text |-> val.text,
   len |-> IF val.len > MaxSize[key] THEN MaxSize[key] ELSE val.len]

\* ValidateAndStoreUid: the checks on the fields of the uid object.
AcceptsUid(val) ==
  /\ val.uid_type.type = "string"
  /\ IsInteger(val.manufacturer_id)
  /\ ToInt64(val.manufacturer_id.n) > 0
  /\ ToInt64(val.manufacturer_id.n) < ManuLimit
  /\ \/ /\ val.uid_type.text = "static"
        /\ IsInteger(val.device_id)
        /\ ToInt64(val.device_id.n) >= 0
        /\ ToInt64(val.device_id.n) <= DeviceMax
     \/ /\ val.uid_type.text = "dynamic"
        /\ val.device_id = Absent

StoredUid(val) ==
  IF val.uid_type.text = "static"
  THEN [type |-> "static", manu |-> ToInt64(val.manufacturer_id.n),
        device |-> ToInt64(val.device_id.n)]
  ELSE [type |-> "dynamic", manu |-> ToInt64(val.manufacturer_id.n)]

\* Mutant: the level is stored without being looked up.
AnyLevel(text) == TRUE

\* ValidateAndStoreLogLevel: the level is looked up in the table.
AcceptsLevel(text) == text \in kLogLevelOptions

\* validate_and_store, for a value of the expected type: whether it accepts
\* the value, and what it then stores over the settings.
Accepts(key, val) ==
  /\ key = "/cid" => val.text \in Uuids
  /\ key = "/uid" => AcceptsUid(val)
  /\ key \in TextKeys => AcceptsString(key, val)
  /\ key \in IntKeys => AcceptsInt(key, val.n)
  /\ key = "/listen_interfaces" =>
       \A e \in 1..Len(val.elems) : val.elems[e].type = "string"
  /\ key = "/log_level" => AcceptsLevel(val.text)

\* ValidateAndStoreInterfaceList appends to the list that is there.
Stored(key, val, settings) ==
  CASE key \in {"/cid", "/log_level"} -> val.text
    [] key = "/uid"                   -> StoredUid(val)
    [] key \in TextKeys               -> StoredString(key, val)
    [] key = "/listen_interfaces"     ->
         settings[key] \o [e \in 1..Len(val.elems) |-> val.elems[e].text]
    [] key = "/enable_broker"         -> val.b
    [] OTHER                          -> ToInt64(val.n)

Valid(key, val) == val.type = ValueType(key) /\ Accepts(key, val)

-----------------------------------------------------------------------------
\* A BrokerConfig as it is constructed: no setting has its default yet.
Constructed(key) ==
  CASE key = "/listen_interfaces"                -> <<>>
    [] key \in {"/log_level", "/enable_broker"}  -> "uninitialized"
    [] key \in IntKeys                           -> 0
    [] OTHER                                     -> "null"

Init == /\ pc = "idle"
        /\ next = 1
        /\ config = [key \in Keys |-> Constructed(key)]
        /\ current_ = Nothing
        /\ result = "none"

\* Mutant: the load goes straight to Read.
LoadWithoutDefaults ==
  pc = "idle" /\ pc' = "parse" /\ UNCHANGED <<next, config, current_, result>>

\* LoadBrokerConfig begins: SetDefaults starts its walk.
LoadBrokerConfig ==
  pc = "idle" /\ pc' = "defaults" /\ UNCHANGED <<next, config, current_, result>>

AtLastEntry == next >= Len(Pointers)

\* The walk goes on to the next entry or ends.
Advance(at_end) ==
  \/ ~AtLastEntry /\ next' = next + 1 /\ UNCHANGED pc
  \/ AtLastEntry /\ next' = 1 /\ pc' = at_end

\* SetDefaults: one entry of the array.
SetDefaults ==
  /\ pc = "defaults"
  /\ config' = [config EXCEPT ![Pointers[next]] =
                                 Default(Pointers[next], config)]
  /\ Advance("parse")
  /\ UNCHANGED <<current_, result>>

(***************************************************************************)
(* Read: the stream is not JSON (a parse error is caught), its root is not *)
(* an object, or it is an object and ValidateCurrent starts its walk.      *)
(***************************************************************************)
Read ==
  /\ pc = "parse"
  /\ \/ /\ result' = "kJsonParseErr"
        /\ pc' = "idle"
        /\ current_' = Nothing
     \/ /\ current_' \in Files
        /\ result' = "kOk"
        /\ pc' = "validate"
  /\ UNCHANGED <<next, config>>

\* Mutant: an accepted value makes the result good again.
LatestVerdict(valid) == IF valid THEN "kOk" ELSE "kInvalidSetting"

\* res in ValidateCurrent, after a value has been found valid or not.
Verdict(valid) == IF valid THEN result ELSE "kInvalidSetting"

\* ValidateCurrent: one entry of the array.
ValidateCurrent ==
  /\ pc = "validate"
  /\ LET key == Pointers[next]
         val == current_[key]
     IN  \/ /\ val.type \in {"absent", "null"}
            /\ config' = [config EXCEPT ![key] = Default(key, config)]
            /\ UNCHANGED result
         \/ /\ val.type \notin {"absent", "null"}
            /\ config' = [config EXCEPT ![key] =
                            IF Valid(key, val) THEN Stored(key, val, config)
                                               ELSE Default(key, config)]
            /\ result' = Verdict(Valid(key, val))
  /\ Advance("idle")
  /\ UNCHANGED current_

Next == LoadBrokerConfig \/ SetDefaults \/ Read \/ ValidateCurrent

Spec == Init /\ [][Next]_vars

-----------------------------------------------------------------------------
(***************************************************************************)
(* Properties.                                                             *)
(***************************************************************************)

\* A walk never leaves the validator array, and reads one of the files.
ControlTypeOK ==
  /\ pc \in {"idle", "defaults", "parse", "validate"}
  /\ next \in 1..Len(Pointers)
  /\ DOMAIN config = Keys
  /\ current_ \in Files \cup {Nothing}
  /\ result \in {"none", "kOk", "kInvalidSetting", "kJsonParseErr"}

\* The values that a setting can hold, by the types of BrokerSettings.  A
\* manufacturer ID has a bit more than its valid range; a UUID may be null;
\* the default service instance name is made of a CID.  (The default texts
\* are named because the prover does not know that literals are strings.)
CidType == Uuids \cup {DefaultCid, "null"}
ManuType == 0..(2 * ManuLimit - 1)
UidType == [type : {"static"}, manu : ManuType, device : 0..DeviceMax]
           \cup [type : {"dynamic"}, manu : ManuType]
DefaultTexts == {"ETC", "model", "default"}
TextType == [text : STRING \cup DefaultTexts, len : Nat]
NameType == TextType \cup [broker_cid : CidType]
LimitType == 0..UintMax \cup {500, 1000}

SettingType(key) ==
  CASE key = "/cid"                           -> CidType
    [] key = "/uid"                           -> UidType
    [] key = "/dns_sd/service_instance_name"  -> NameType
    [] key = "/dns_sd/manufacturer"           -> TextType
    [] key = "/dns_sd/model"                  -> TextType
    [] key = "/scope"                         -> TextType
    [] key = "/listen_port"                   -> 0..PortMax
    [] key = "/listen_interfaces"             -> Seq(STRING)
    [] key = "/log_level"                     -> kLogLevelOptions
    [] key = "/enable_broker"                 -> BOOLEAN
    [] OTHER                                  -> LimitType

\* The n-th setting has been stored at least once: in an earlier load, or by
\* SetDefaults in this one.
Initialized(n) == \/ result # "none"
                  \/ pc \in {"parse", "validate"}
                  \/ pc = "defaults" /\ n < next

SettingsTyped ==
  \A n \in 1..Len(Pointers) :
    Initialized(n) => config[Pointers[n]] \in SettingType(Pointers[n])

\* The types: a walk never leaves the validator array, and from the moment
\* SetDefaults first reaches it a setting holds a value of its type, in the
\* middle of a walk too and whatever the files put there.
TypeOK == ControlTypeOK /\ SettingsTyped

\* A load has just ended, with the file parsed or not.
LoadedFile == pc = "idle" /\ result \in {"kOk", "kInvalidSetting"}
LoadFailed == pc = "idle" /\ result = "kJsonParseErr"

\* What the documentation admits as a value for a key: integers by their
\* mathematical value, before any conversion; texts by their length, where
\* only the scope has a largest one.
AdmissibleText(key, val) ==
  IF key = "/scope" THEN val.len \in 1..MaxSize[key] ELSE val.len > 0

\* The beginnings of a text that fit the setting, by their lengths; the
\* longest is wanted.
Fitting(key, val) == {n \in 0..MaxSize[key] : n <= val.len}

WantedText(key, val) ==
  [text |-> val.text,
   len |-> CHOOSE n \in Fitting(key, val) : \A m \in Fitting(key, val) : m <= n]

AdmissibleInt(key, n) == n \in IntLimits(key)[1]..IntLimits(key)[2]

AdmissibleUid(val) ==
  /\ val.uid_type.type = "string"
  /\ val.uid_type.text \in {"static", "dynamic"}
  /\ IsInteger(val.manufacturer_id)
  /\ val.manufacturer_id.n \in 1..(ManuLimit - 1)
  /\ IF val.uid_type.text = "dynamic"
     THEN val.device_id = Absent
     ELSE IsInteger(val.device_id) /\ val.device_id.n \in 0..DeviceMax

Admissible(key, val) ==
  /\ val.type = ValueType(key)
  /\ key \in IntKeys => AdmissibleInt(key, val.n)
  /\ key = "/uid" => AdmissibleUid(val)
  /\ key \in TextKeys => AdmissibleText(key, val)
  /\ key \notin IntKeys \cup TextKeys \cup {"/uid"} => Accepts(key, val)

\* A value that is there and is not admissible.
Refused(key, val) == val.type \notin {"absent", "null"} /\ ~Admissible(key, val)

\* What a key should be set to, given the file and, for the default of the
\* service instance name, the CID in the settings.
Wanted(key, val, settings) ==
  IF ~Admissible(key, val)
  THEN Default(key, settings)
  ELSE CASE key \in IntKeys              -> val.n
         [] key \in TextKeys             -> WantedText(key, val)
         [] key = "/listen_interfaces"   ->
              [e \in 1..Len(val.elems) |-> val.elems[e].text]
         [] OTHER                        -> Stored(key, val, settings)

\* After a load every setting is what this file says, or its default: no
\* setting of an earlier file survives, the list of interfaces does not
\* grow from load to load, no conversion lets a number in that is out of
\* range or changes one that is in range, and a text is cut only where it
\* does not fit, and no further than it must be.
SettingsMatchFile ==
  LoadedFile => \A key \in Keys : config[key] = Wanted(key, current_[key], config)

\* Read reports an invalid setting exactly if the file has one, wherever in
\* the file it is and whatever follows it.
ResultMatchesFile ==
  LoadedFile =>
    (result = "kInvalidSetting" <=>
       \E key \in Keys : Refused(key, current_[key]))

\* A file that does not parse leaves every setting at its default, the
\* default service instance name naming the default CID and not the CID of
\* the file before.
ParseErrorMeansDefaults ==
  LoadFailed => /\ config["/cid"] = DefaultCid
                /\ \A key \in Keys : config[key] = Default(key, config)

\* Whatever the files hold, the broker library gets settings it can use: a
\* CID, a UID in the manufacturer's range, texts that are not empty and
\* fit, a port it may bind, limits that fit their type, a known log level.
SettingsUsable ==
  LoadedFile \/ LoadFailed =>
    /\ config["/cid"] \in Uuids \cup {DefaultCid}
    /\ config["/uid"].manu \in 1..(ManuLimit - 1)
    /\ config["/uid"].type = "static" => config["/uid"].device \in 0..DeviceMax
    /\ \A key \in TextKeys :
         "len" \in DOMAIN config[key] => config[key].len \in 1..MaxSize[key]
    /\ config["/listen_port"] \in {0} \cup PortMin..PortMax
    /\ \A key \in LimitKeys :
         config[key] \in 0..UintMax \cup {500, 1000}
    /\ config["/log_level"] \in kLogLevelOptions

-----------------------------------------------------------------------------
(***************************************************************************)
(* A load as one step.  What a file asks for is a function of the file: of *)
(* the settings that a default may look at, only the CID matters, and that *)
(* is the one the file itself asks for.                                    *)
(***************************************************************************)
CidOf(file) == [key \in {"/cid"} |-> Wanted(key, file[key], Nothing)]

SettingsOf(file) == [key \in Keys |-> Wanted(key, file[key], CidOf(file))]

ResultOf(file) == IF \E key \in Keys : Refused(key, file[key])
                  THEN "kInvalidSetting"
                  ELSE "kOk"

\* A stream that cannot be parsed leaves what an object without any of the
\* keys would.
LoadOutcomes ==
  {[file |-> file, result |-> ResultOf(file), settings |-> SettingsOf(file)] :
     file \in Files}
  \cup {[file |-> Nothing, result |-> "kJsonParseErr",
         settings |-> SettingsOf(Nothing)]}

Outcome == [file |-> current_, result |-> result,
            settings |-> [key \in Keys |-> config[key]]]

Load == INSTANCE ConfigLoad
          WITH Outcomes <- LoadOutcomes,
               loading <- pc # "idle",
               outcome <- IF LoadedFile \/ LoadFailed THEN {Outcome} ELSE {}

\* LoadBrokerConfig, with its two walks over an object that every load uses
\* again, is one step to the shell: the same file always gives the same
\* settings and the same result, whatever the files before it held, in
\* whatever order they came and wherever in the array their errors were.
ImplementsLoad == Load!Spec
=============================================================================
