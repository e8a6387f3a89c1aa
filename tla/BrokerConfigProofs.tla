------------------------- MODULE BrokerConfigProofs -------------------------
(***************************************************************************)
(* Proofs about BrokerConfig.  The range checks, which work on values that *)
(* have been converted to int64_t, decide what the documentation says of   *)
(* the numbers in the file, for every width and every limit; and the two   *)
(* walks of a load leave the settings that the file and the defaults       *)
(* demand, for any set of files loaded in any order into the same object.  *)
(***************************************************************************)
EXTENDS BrokerConfig, TLAPS

\* The limits of every integer setting are numbers that int64_t holds.
LEMMA LimitFacts ==
  ASSUME NEW key \in IntKeys
  PROVE  /\ IntLimits(key)[1] \in Nat
         /\ IntLimits(key)[2] \in Nat
         /\ IntLimits(key)[2] < Half
<1>1. CASE key = "/listen_port"
  BY <1>1, ConfigAssumption DEF IntLimits
<1>2. CASE key # "/listen_port"
  BY <1>2, ConfigAssumption DEF IntLimits
<1> QED  BY <1>1, <1>2

\* A number that is in range after the conversion was so before, and the
\* conversion has not changed it.
LEMMA ConversionExact ==
  ASSUME NEW n \in JsonInteger, NEW lo \in Nat, NEW hi \in Nat, hi < Half
  PROVE  /\ ToInt64(n) >= lo /\ ToInt64(n) <= hi <=> n \in lo..hi
         /\ n \in lo..hi => ToInt64(n) = n
  BY ConfigAssumption DEF ToInt64, JsonInteger

\* ValidateAndStoreInt accepts a number exactly if the documentation admits
\* it, and stores it unchanged: no number out of range wraps into it.
THEOREM IntegersExact ==
  ASSUME NEW key \in IntKeys, NEW n \in JsonInteger
  PROVE  /\ AcceptsInt(key, n) <=> AdmissibleInt(key, n)
         /\ AcceptsInt(key, n) => ToInt64(n) = n
  BY LimitFacts, ConversionExact DEF AcceptsInt, AdmissibleInt

\* ValidateAndStoreUid accepts an object exactly if the documentation admits
\* it, whatever integers it holds.
THEOREM UidsExact ==
  ASSUME NEW val,
         IsInteger(val.manufacturer_id) => val.manufacturer_id.n \in JsonInteger,
         IsInteger(val.device_id) => val.device_id.n \in JsonInteger
  PROVE  AcceptsUid(val) <=> AdmissibleUid(val)
<1>1. ASSUME NEW m \in JsonInteger
      PROVE  ToInt64(m) > 0 /\ ToInt64(m) < ManuLimit <=> m \in 1..(ManuLimit - 1)
  BY <1>1, ConfigAssumption DEF ToInt64, JsonInteger
<1>2. ASSUME NEW d \in JsonInteger
      PROVE  ToInt64(d) >= 0 /\ ToInt64(d) <= DeviceMax <=> d \in 0..DeviceMax
  BY <1>2, ConversionExact, ConfigAssumption
<1> QED  BY <1>1, <1>2 DEF AcceptsUid, AdmissibleUid

\* ValidateAndStoreString accepts a text exactly if the documentation admits
\* it, and what it stores is the longest beginning that fits.
THEOREM TextsExact ==
  ASSUME NEW key \in TextKeys, NEW val, val.len \in Nat
  PROVE  /\ AcceptsString(key, val) <=> AdmissibleText(key, val)
         /\ StoredString(key, val) = WantedText(key, val)
<1>0. MaxSize[key] \in Nat \ {0}
  BY ConfigAssumption
<1>1. AcceptsString(key, val) <=> AdmissibleText(key, val)
  BY <1>0 DEF AcceptsString, AdmissibleText
<1> DEFINE cut == IF val.len > MaxSize[key] THEN MaxSize[key] ELSE val.len
           Longest(n) == \A m \in Fitting(key, val) : m <= n
<1>2. cut \in Fitting(key, val) /\ Longest(cut)
  BY <1>0 DEF Fitting
<1>3. ASSUME NEW n \in Fitting(key, val), Longest(n) PROVE n = cut
  <2>1. n <= cut /\ cut <= n
    BY <1>2, <1>3
  <2>2. n \in Int /\ cut \in Int
    BY <1>0, <1>3 DEF Fitting
  <2> QED  BY <2>1, <2>2
<1>4. (CHOOSE n \in Fitting(key, val) : Longest(n)) = cut
  <2> HIDE DEF cut, Longest
  <2> QED  BY <1>2, <1>3
<1> QED  BY <1>1, <1>4 DEF StoredString, WantedText

-----------------------------------------------------------------------------
(***************************************************************************)
(* The array and its entries.                                              *)
(***************************************************************************)

\* The array has sixteen entries, one for each key; the CID is the first
\* and the list of interfaces the eighth.
LEMMA PointerFacts ==
  /\ Len(Pointers) = 16
  /\ \A i \in 1..16 : Pointers[i] \in Keys
  /\ \A key \in Keys : \E i \in 1..16 : Pointers[i] = key
  /\ \A i, j \in 1..16 : Pointers[i] = Pointers[j] => i = j
  /\ Pointers[1] = "/cid"
  /\ Pointers[8] = "/listen_interfaces"
<1>1. Len(Pointers) = 16 /\ Pointers[1] = "/cid" /\ Pointers[8] = "/listen_interfaces"
  BY DEF Pointers
<1>2. \A i, j \in 1..16 : Pointers[i] = Pointers[j] => i = j
  BY DEF Pointers
<1> QED  BY <1>1, <1>2 DEF Keys

\* No entry expects an absent or a null value.
LEMMA TypeNeverNull ==
  ASSUME NEW key \in Keys
  PROVE  ValueType(key) \notin {"absent", "null"}
<1>1. PICK i \in 1..16 : Pointers[i] = key
  BY PointerFacts
<1> QED
  BY <1>1 DEF ValueType, Pointers, TextKeys, IntKeys, LimitKeys

\* The keys that the array names are those of which the model speaks.
LEMMA KeyFacts ==
  /\ Keys = {"/cid", "/uid", "/listen_interfaces", "/log_level", "/enable_broker"}
            \cup TextKeys \cup IntKeys
  /\ TextKeys \cap IntKeys = {}
  /\ {"/cid", "/uid", "/listen_interfaces", "/log_level", "/enable_broker"}
       \cap (TextKeys \cup IntKeys) = {}
<1>1. \A i \in 1..16 :
        Pointers[i] \in {"/cid", "/uid", "/listen_interfaces", "/log_level",
                        "/enable_broker"} \cup TextKeys \cup IntKeys
  BY DEF Pointers, TextKeys, IntKeys, LimitKeys
<1>2. /\ {"/cid", "/uid", "/listen_interfaces", "/log_level", "/enable_broker"}
           \subseteq Keys
      /\ TextKeys \subseteq Keys /\ IntKeys \subseteq Keys
  BY DEF Keys, Pointers, TextKeys, IntKeys, LimitKeys
<1>3. Keys = {Pointers[i] : i \in 1..16}
  BY PointerFacts DEF Keys
<1>4. TextKeys \cap IntKeys = {}
  BY DEF TextKeys, IntKeys, LimitKeys
<1>5. {"/cid", "/uid", "/listen_interfaces", "/log_level", "/enable_broker"}
        \cap (TextKeys \cup IntKeys) = {}
  BY DEF TextKeys, IntKeys, LimitKeys
<1>6. Keys \subseteq {"/cid", "/uid", "/listen_interfaces", "/log_level",
                     "/enable_broker"} \cup TextKeys \cup IntKeys
  BY <1>1, <1>3
<1> QED  BY <1>2, <1>4, <1>5, <1>6

\* The default of a text is made of the CID or is one that always fits.
LEMMA DefaultOfText ==
  ASSUME NEW key \in TextKeys, NEW s
  PROVE  IF key = "/dns_sd/service_instance_name"
         THEN Default(key, s) = [broker_cid |-> s["/cid"]]
         ELSE \E text \in DefaultTexts :
                Default(key, s) = [text |-> text, len |-> 1]
<1>1. Default("/dns_sd/service_instance_name", s) = [broker_cid |-> s["/cid"]]
  BY DEF Default
<1>2. Default("/dns_sd/manufacturer", s) = [text |-> "ETC", len |-> 1]
  BY DEF Default
<1>3. Default("/dns_sd/model", s) = [text |-> "model", len |-> 1]
  BY DEF Default
<1>4. Default("/scope", s) = [text |-> "default", len |-> 1]
  BY DEF Default
<1> QED  BY <1>1, <1>2, <1>3, <1>4 DEF TextKeys, DefaultTexts

\* The default of a limit.
LEMMA DefaultOfLimit ==
  ASSUME NEW key \in LimitKeys, NEW s
  PROVE  Default(key, s) \in {0, 500, 1000}
<1>1. Default("/max_controller_messages", s) = 500
  BY DEF Default
<1>2. Default("/max_device_messages", s) = 500
  BY DEF Default
<1>3. Default("/max_reject_connections", s) = 1000
  BY DEF Default
<1>4. Default("/max_connections", s) = 0
  BY DEF Default
<1>5. Default("/max_controllers", s) = 0
  BY DEF Default
<1>6. Default("/max_devices", s) = 0
  BY DEF Default
<1> QED  BY <1>1, <1>2, <1>3, <1>4, <1>5, <1>6 DEF LimitKeys

\* A default depends on the settings only through the CID.
LEMMA DefaultLocal ==
  ASSUME NEW key, NEW s, NEW t, s["/cid"] = t["/cid"]
  PROVE  Default(key, s) = Default(key, t)
  BY DEF Default

\* So does what a key should be set to.
LEMMA WantedLocal ==
  ASSUME NEW key, NEW val, NEW s, NEW t, s["/cid"] = t["/cid"]
  PROVE  Wanted(key, val, s) = Wanted(key, val, t)
  BY DefaultLocal DEF Wanted, Stored

\* The code refuses what is not admissible and nothing else.
LEMMA ValidExact ==
  ASSUME NEW file \in Files, NEW key \in Keys
  PROVE  Valid(key, file[key]) <=> Admissible(key, file[key])
<1>1. CASE key \in IntKeys
  <2>1. ValueType(key) = "number_unsigned"
    BY <1>1 DEF ValueType, IntKeys, LimitKeys, TextKeys
  <2>2. Accepts(key, file[key]) <=> AcceptsInt(key, file[key].n)
    BY <1>1 DEF Accepts, IntKeys, LimitKeys, TextKeys
  <2>3. file[key].type = "number_unsigned" => file[key].n \in JsonInteger
    BY <1>1, FilesAssumption DEF IsInteger
  <2> QED
    BY <1>1, <2>1, <2>2, <2>3, IntegersExact
    DEF Valid, Admissible, IntKeys, LimitKeys, TextKeys
<1>2. CASE key = "/uid"
  <2>1. ValueType(key) = "object" /\ key \notin IntKeys /\ key \notin TextKeys
    BY <1>2 DEF ValueType, IntKeys, LimitKeys, TextKeys
  <2>2. Accepts(key, file[key]) <=> AcceptsUid(file[key])
    BY <1>2 DEF Accepts, IntKeys, LimitKeys, TextKeys
  <2>3. file[key].type = "object" =>
          (AcceptsUid(file[key]) <=> AdmissibleUid(file[key]))
    BY <1>2, UidsExact, FilesAssumption
  <2> QED
    BY <1>2, <2>1, <2>2, <2>3 DEF Valid, Admissible
<1>3. CASE key \in TextKeys
  <2>1. ValueType(key) = "string" /\ key \notin IntKeys /\ key # "/uid"
    BY <1>3 DEF ValueType, IntKeys, LimitKeys, TextKeys
  <2>2. Accepts(key, file[key]) <=> AcceptsString(key, file[key])
    BY <1>3 DEF Accepts, IntKeys, LimitKeys, TextKeys
  <2>3. file[key].type = "string" => file[key].len \in Nat
    BY <1>3, FilesAssumption
  <2> QED
    BY <1>3, <2>1, <2>2, <2>3, TextsExact DEF Valid, Admissible
<1>4. CASE key \notin IntKeys \cup TextKeys \cup {"/uid"}
  BY <1>4 DEF Valid, Admissible
<1> QED  BY <1>1, <1>2, <1>3, <1>4

\* A walk that finds the list of interfaces empty stores what is wanted.
LEMMA StoredExact ==
  ASSUME NEW file \in Files, NEW key \in Keys, NEW s,
         Valid(key, file[key]),
         key = "/listen_interfaces" => s[key] = << >>
  PROVE  Stored(key, file[key], s) = Wanted(key, file[key], s)
<1> USE ValidExact
<1>1. CASE key \in IntKeys
  <2>1. file[key].type = "number_unsigned" /\ AcceptsInt(key, file[key].n)
    BY <1>1 DEF Valid, Accepts, ValueType, IntKeys, LimitKeys, TextKeys
  <2>2. ToInt64(file[key].n) = file[key].n
    BY <1>1, <2>1, IntegersExact, FilesAssumption DEF IsInteger
  <2>3. Stored(key, file[key], s) = ToInt64(file[key].n)
    BY <1>1 DEF Stored, IntKeys, LimitKeys, TextKeys
  <2>4. Admissible(key, file[key]) /\ key # "/listen_interfaces" /\ key \notin TextKeys
    BY <1>1, ValidExact DEF IntKeys, LimitKeys, TextKeys
  <2> QED  BY <1>1, <2>2, <2>3, <2>4 DEF Wanted
<1>2. CASE key = "/listen_interfaces"
  <2> DEFINE list == [e \in 1..Len(file[key].elems) |-> file[key].elems[e].text]
  <2>1. Len(file[key].elems) \in Nat
    BY <1>2, FilesAssumption DEF Valid, ValueType, IntKeys, LimitKeys, TextKeys
  <2>2. list \in Seq({list[e] : e \in 1..Len(file[key].elems)})
    BY <2>1
  <2>3. << >> \o list = list
    BY <2>2
  <2>4. key \notin IntKeys
    BY <1>2 DEF IntKeys, LimitKeys
  <2> QED  BY <1>2, <2>3, <2>4 DEF Stored, Wanted, TextKeys
<1>3. CASE key \in TextKeys
  <2>1. /\ key \notin IntKeys
        /\ key \notin {"/cid", "/log_level", "/uid", "/listen_interfaces",
                     "/enable_broker"}
    BY <1>3 DEF IntKeys, LimitKeys, TextKeys
  <2>2. file[key].type = "string"
    BY <1>3, <2>1 DEF Valid, ValueType
  <2>3. StoredString(key, file[key]) = WantedText(key, file[key])
    BY <1>3, <2>2, TextsExact, FilesAssumption
  <2>4. Stored(key, file[key], s) = StoredString(key, file[key])
    BY <1>3, <2>1 DEF Stored
  <2> QED  BY <1>3, <2>1, <2>3, <2>4 DEF Wanted
<1>4. CASE key \notin IntKeys \cup TextKeys /\ key # "/listen_interfaces"
  BY <1>4 DEF Wanted
<1> QED  BY <1>1, <1>2, <1>3, <1>4

-----------------------------------------------------------------------------
(***************************************************************************)
(* The walks.  Behind a walk every entry is settled; the CID, on which     *)
(* later entries depend, is settled first and not touched again, and the   *)
(* list of interfaces is empty until the second walk reaches it.           *)
(***************************************************************************)

Behind == 1..(next - 1)

DefaultsBehind ==
  pc = "defaults" =>
    \A i \in Behind : config[Pointers[i]] = Default(Pointers[i], config)

AllDefaults ==
  pc = "parse" => \A key \in Keys : config[key] = Default(key, config)

FileBehind ==
  pc = "validate" =>
    \A i \in Behind :
      config[Pointers[i]] = Wanted(Pointers[i], current_[Pointers[i]], config)

ListEmpty ==
  pc = "validate" /\ next <= 8 => config["/listen_interfaces"] = << >>

VerdictBehind ==
  pc = "validate" =>
    /\ result \in {"kOk", "kInvalidSetting"}
    /\ result = "kInvalidSetting" <=>
         \E i \in Behind : Refused(Pointers[i], current_[Pointers[i]])

FileRead ==
  /\ pc = "validate" \/ LoadedFile => current_ \in Files
  /\ LoadFailed => current_ = Nothing

AtRest == pc \in {"idle", "parse"} => next = 1

IInv == /\ ControlTypeOK /\ AtRest /\ DefaultsBehind /\ AllDefaults /\ FileBehind
        /\ ListEmpty /\ VerdictBehind /\ FileRead
        /\ SettingsMatchFile /\ ResultMatchesFile /\ ParseErrorMeansDefaults

\* One step of a walk changes one entry, the one the walk has reached, and
\* after the last entry all of them are behind.
LEMMA WalkFacts ==
  ASSUME ControlTypeOK, NEW at_end, Advance(at_end)
  PROVE  /\ next \in 1..16
         /\ Pointers[next] \in Keys
         /\ \/ next < 16 /\ next' = next + 1 /\ pc' = pc
            \/ next = 16 /\ next' = 1 /\ pc' = at_end
  BY PointerFacts DEF ControlTypeOK, Advance, AtLastEntry

\* The initial state satisfies the invariant.
LEMMA InitIInv == Init => IInv
<1> SUFFICES ASSUME Init PROVE IInv  OBVIOUS
<1>1. ControlTypeOK
  BY PointerFacts DEF Init, ControlTypeOK
<1> QED
  BY <1>1 DEF Init, IInv, AtRest, DefaultsBehind, AllDefaults, FileBehind,
     ListEmpty, VerdictBehind, FileRead, SettingsMatchFile, ResultMatchesFile,
     ParseErrorMeansDefaults, LoadedFile, LoadFailed

\* The first walk keeps the invariant.
LEMMA SetDefaultsIInv == IInv /\ SetDefaults => IInv'
<1> SUFFICES ASSUME IInv, SetDefaults PROVE IInv'  OBVIOUS
<1> DEFINE key == Pointers[next]
<1>0. ControlTypeOK /\ DefaultsBehind /\ pc = "defaults" /\ DOMAIN config = Keys
      /\ UNCHANGED <<current_, result>>
  BY DEF IInv, SetDefaults, ControlTypeOK
<1>1. /\ next \in 1..16
      /\ key \in Keys
      /\ \/ next < 16 /\ next' = next + 1 /\ pc' = "defaults"
         \/ next = 16 /\ next' = 1 /\ pc' = "parse"
  BY <1>0, WalkFacts DEF SetDefaults
<1>2. /\ DOMAIN config' = Keys
      /\ config'[key] = Default(key, config)
      /\ \A k \in Keys : k # key => config'[k] = config[k]
  BY <1>0, <1>1 DEF SetDefaults
<1>3. "/cid" \in Keys
  BY PointerFacts
<1>4. key # "/cid" => config'["/cid"] = config["/cid"]
  BY <1>2, <1>3
<1>5. key = "/cid" => Default(key, config) = Default(key, config')
  BY DEF Default
<1>6. config'[key] = Default(key, config')
  BY <1>2, <1>4, <1>5, DefaultLocal
<1>7. ASSUME NEW i \in 1..16, i < next
      PROVE  config'[Pointers[i]] = Default(Pointers[i], config')
  <2>1. Pointers[i] # key /\ Pointers[i] \in Keys
    BY <1>1, <1>7, PointerFacts
  <2>2. key # "/cid"
    BY <1>1, <1>7, PointerFacts
  <2>3. config[Pointers[i]] = Default(Pointers[i], config)
    BY <1>0, <1>1, <1>7 DEF DefaultsBehind, Behind
  <2> QED  BY <1>2, <1>4, <2>1, <2>2, <2>3, DefaultLocal
<1>8. ASSUME NEW i \in 1..16, i <= next
      PROVE  config'[Pointers[i]] = Default(Pointers[i], config')
  BY <1>1, <1>6, <1>7, <1>8
<1>9. ControlTypeOK'
  BY <1>0, <1>1, <1>2, PointerFacts DEF ControlTypeOK
<1>10. AtRest' /\ DefaultsBehind'
  BY <1>1, <1>8 DEF AtRest, DefaultsBehind, Behind
<1>11. AllDefaults'
  <2> SUFFICES ASSUME pc' = "parse", NEW k \in Keys
               PROVE  config'[k] = Default(k, config')
    BY DEF AllDefaults
  <2>1. PICK i \in 1..16 : Pointers[i] = k
    BY PointerFacts
  <2> QED  BY <1>1, <1>8, <2>1
<1>12. pc' \notin {"idle", "validate"}
  BY <1>1
<1> QED
  BY <1>9, <1>10, <1>11, <1>12 DEF IInv, FileBehind, ListEmpty, VerdictBehind,
     FileRead, SettingsMatchFile, ResultMatchesFile, ParseErrorMeansDefaults,
     LoadedFile, LoadFailed

\* Reading keeps the invariant.
LEMMA ReadIInv == IInv /\ Read => IInv'
<1> SUFFICES ASSUME IInv, Read PROVE IInv'  OBVIOUS
<1>0. ControlTypeOK /\ AtRest /\ AllDefaults /\ pc = "parse" /\ UNCHANGED <<next, config>>
  BY DEF IInv, Read
<1>1. next = 1 /\ \A key \in Keys : config[key] = Default(key, config)
  BY <1>0 DEF AtRest, AllDefaults
<1>2. config["/cid"] = DefaultCid /\ config["/listen_interfaces"] = << >>
  <2>1. "/cid" \in Keys /\ "/listen_interfaces" \in Keys
    BY PointerFacts
  <2>2. Default("/cid", config) = DefaultCid
    BY DEF Default
  <2>3. Default("/listen_interfaces", config) = << >>
    BY DEF Default
  <2> QED  BY <1>1, <2>1, <2>2, <2>3
<1>3. CASE result' = "kJsonParseErr" /\ pc' = "idle" /\ current_' = Nothing
  <2>1. ControlTypeOK'
    BY <1>0, <1>3 DEF ControlTypeOK
  <2>2. ParseErrorMeansDefaults'
    BY <1>0, <1>1, <1>2 DEF ParseErrorMeansDefaults
  <2> QED
    BY <1>0, <1>1, <1>3, <2>1, <2>2 DEF IInv, AtRest, DefaultsBehind, AllDefaults,
       FileBehind, ListEmpty, VerdictBehind, FileRead, SettingsMatchFile,
       ResultMatchesFile, LoadedFile
<1>4. CASE current_' \in Files /\ result' = "kOk" /\ pc' = "validate"
  <2>1. ControlTypeOK'
    BY <1>0, <1>4 DEF ControlTypeOK
  <2>2. Behind' = {}
    BY <1>0, <1>1 DEF Behind
  <2>3. FileBehind' /\ VerdictBehind'
    BY <1>4, <2>2 DEF FileBehind, VerdictBehind
  <2> QED
    BY <1>0, <1>2, <1>4, <2>1, <2>3 DEF IInv, AtRest, DefaultsBehind, AllDefaults,
       ListEmpty, FileRead, SettingsMatchFile, ResultMatchesFile,
       ParseErrorMeansDefaults, LoadedFile, LoadFailed
<1> QED  BY <1>3, <1>4 DEF Read

\* The second walk keeps the invariant.
LEMMA ValidateIInv == IInv /\ ValidateCurrent => IInv'
<1> SUFFICES ASSUME IInv, ValidateCurrent PROVE IInv'  OBVIOUS
<1> DEFINE key == Pointers[next]
           val == current_[key]
<1>0. /\ ControlTypeOK /\ FileBehind /\ ListEmpty /\ VerdictBehind /\ FileRead
      /\ pc = "validate" /\ DOMAIN config = Keys /\ UNCHANGED current_
  BY DEF IInv, ValidateCurrent, ControlTypeOK
<1>1. /\ next \in 1..16
      /\ key \in Keys
      /\ \/ next < 16 /\ next' = next + 1 /\ pc' = "validate"
         \/ next = 16 /\ next' = 1 /\ pc' = "idle"
  BY <1>0, WalkFacts DEF ValidateCurrent
<1>2. current_ \in Files /\ result \in {"kOk", "kInvalidSetting"}
  BY <1>0 DEF FileRead, VerdictBehind
<1>3. Valid(key, val) <=> Admissible(key, val)
  BY <1>1, <1>2, ValidExact
<1>4. val.type \in {"absent", "null"} => ~Admissible(key, val)
  BY <1>1, TypeNeverNull DEF Admissible
<1>5. key = "/listen_interfaces" => config[key] = << >>
  BY <1>0, <1>1, PointerFacts DEF ListEmpty
<1>6. Valid(key, val) => Stored(key, val, config) = Wanted(key, val, config)
  BY <1>1, <1>2, <1>5, StoredExact
<1>7. ~Valid(key, val) => Default(key, config) = Wanted(key, val, config)
  BY <1>3 DEF Wanted
<1>8. config' = [config EXCEPT ![key] = Wanted(key, val, config)]
  BY <1>3, <1>4, <1>6, <1>7 DEF ValidateCurrent
<1>9. /\ DOMAIN config' = Keys
      /\ config'[key] = Wanted(key, val, config)
      /\ \A k \in Keys : k # key => config'[k] = config[k]
  BY <1>0, <1>1, <1>8
<1>10. key # "/cid" => config'["/cid"] = config["/cid"]
  BY <1>9, PointerFacts
<1>11. config'[key] = Wanted(key, val, config')
  <2>1. key = "/cid" => Wanted(key, val, config) = Wanted(key, val, config')
    BY DEF Wanted, Default, Stored, IntKeys, LimitKeys, TextKeys
  <2> QED  BY <1>9, <1>10, <2>1, WantedLocal
<1>12. ASSUME NEW i \in 1..16, i <= next
       PROVE  config'[Pointers[i]] =
                Wanted(Pointers[i], current_[Pointers[i]], config')
  <2>1. CASE i = next
    BY <1>11, <2>1
  <2>2. CASE i < next
    <3>1. Pointers[i] # key /\ Pointers[i] \in Keys /\ key # "/cid"
      BY <1>1, <2>2, PointerFacts
    <3>2. config[Pointers[i]] = Wanted(Pointers[i], current_[Pointers[i]], config)
      BY <1>0, <1>1, <2>2 DEF FileBehind, Behind
    <3> QED  BY <1>9, <1>10, <3>1, <3>2, WantedLocal
  <2> QED  BY <1>1, <1>12, <2>1, <2>2
<1>13. result' = IF Refused(key, val) THEN "kInvalidSetting" ELSE result
  BY <1>3 DEF ValidateCurrent, Verdict, Refused
<1>14. /\ result' \in {"kOk", "kInvalidSetting"}
       /\ result' = "kInvalidSetting" <=>
            \E i \in 1..16 : i <= next /\ Refused(Pointers[i], current_[Pointers[i]])
  <2>1. result = "kInvalidSetting" <=>
          \E i \in 1..16 : i < next /\ Refused(Pointers[i], current_[Pointers[i]])
    BY <1>0, <1>1 DEF VerdictBehind, Behind
  <2>2. ASSUME NEW i \in 1..16 PROVE i <= next <=> i < next \/ i = next
    BY <1>1
  <2> QED  BY <1>1, <1>2, <1>13, <2>1, <2>2
<1>15. ControlTypeOK'
  BY <1>0, <1>1, <1>9, <1>14, PointerFacts DEF ControlTypeOK
<1>16. CASE next < 16
  <2>1. Behind' = {i \in 1..16 : i <= next}
    BY <1>1, <1>16 DEF Behind
  <2>2. FileBehind' /\ VerdictBehind'
    BY <1>0, <1>12, <1>14, <2>1 DEF FileBehind, VerdictBehind
  <2>3. ListEmpty'
    <3> SUFFICES ASSUME next' <= 8 PROVE config'["/listen_interfaces"] = << >>
      BY DEF ListEmpty
    <3>1. key # "/listen_interfaces" /\ "/listen_interfaces" \in Keys
      BY <1>1, <1>16, PointerFacts
    <3>2. config["/listen_interfaces"] = << >>
      BY <1>0, <1>1, <1>16 DEF ListEmpty
    <3> QED  BY <1>9, <3>1, <3>2
  <2> QED
    BY <1>0, <1>1, <1>2, <1>15, <1>16, <2>2, <2>3 DEF IInv, AtRest, DefaultsBehind,
       AllDefaults, FileRead, SettingsMatchFile, ResultMatchesFile,
       ParseErrorMeansDefaults, LoadedFile, LoadFailed
<1>17. CASE next = 16
  <2>1. SettingsMatchFile'
    <3> SUFFICES ASSUME NEW k \in Keys
                 PROVE  config'[k] = Wanted(k, current_'[k], config')
      BY DEF SettingsMatchFile
    <3>1. PICK i \in 1..16 : Pointers[i] = k
      BY PointerFacts
    <3> QED  BY <1>0, <1>12, <1>17, <3>1
  <2>2. ResultMatchesFile'
    <3>1. (\E k \in Keys : Refused(k, current_'[k])) <=>
            \E i \in 1..16 : i <= next /\ Refused(Pointers[i], current_[Pointers[i]])
      BY <1>0, <1>17, PointerFacts
    <3> QED  BY <1>14, <3>1 DEF ResultMatchesFile
  <2> QED
    BY <1>0, <1>1, <1>2, <1>14, <1>15, <1>17, <2>1, <2>2 DEF IInv, AtRest,
       DefaultsBehind, AllDefaults, FileBehind, ListEmpty, VerdictBehind, FileRead,
       ParseErrorMeansDefaults, LoadFailed
<1> QED  BY <1>1, <1>16, <1>17

\* Every step keeps the invariant.
LEMMA NextIInv == IInv /\ [Next]_vars => IInv'
<1> SUFFICES ASSUME IInv, [Next]_vars PROVE IInv'  OBVIOUS
<1> USE DEF AtRest, DefaultsBehind, AllDefaults, FileBehind, ListEmpty,
     VerdictBehind, FileRead, SettingsMatchFile, ResultMatchesFile,
     ParseErrorMeansDefaults, LoadedFile, LoadFailed, Behind
<1>1. CASE LoadBrokerConfig
  <2>1. ControlTypeOK'
    BY <1>1 DEF IInv, ControlTypeOK, LoadBrokerConfig
  <2> QED  BY <1>1, <2>1 DEF IInv, LoadBrokerConfig
<1>2. CASE UNCHANGED vars
  <2>1. ControlTypeOK'
    BY <1>2 DEF IInv, ControlTypeOK, vars
  <2> QED  BY <1>2, <2>1 DEF IInv, vars
<1> QED
  BY <1>1, <1>2, SetDefaultsIInv, ReadIInv, ValidateIInv DEF Next

\* The walks behind the settings, for any files loaded in any order.
LEMMA Invariance == Spec => []IInv
  BY InitIInv, NextIInv, PTL DEF Spec

\* After a load every setting is what this file says or its default, with
\* nothing left of the files loaded before into the same object.
THEOREM SettingsFollowFile == Spec => []SettingsMatchFile
<1>1. IInv => SettingsMatchFile  BY DEF IInv
<1> QED  BY <1>1, Invariance, PTL

\* Read reports an invalid setting exactly if the file has one.
THEOREM ResultFollowsFile == Spec => []ResultMatchesFile
<1>1. IInv => ResultMatchesFile  BY DEF IInv
<1> QED  BY <1>1, Invariance, PTL

\* A file that does not parse leaves every setting at its default.
THEOREM ParseErrorIsHarmless == Spec => []ParseErrorMeansDefaults
<1>1. IInv => ParseErrorMeansDefaults  BY DEF IInv
<1> QED  BY <1>1, Invariance, PTL

-----------------------------------------------------------------------------
(***************************************************************************)
(* The types of the settings.  Both stores, of a default and of a value    *)
(* that was accepted, yield a value of the setting's type.                 *)
(***************************************************************************)

\* The type of each setting.
LEMMA SettingTypes ==
  /\ SettingType("/cid") = CidType
  /\ SettingType("/uid") = UidType
  /\ \A key \in TextKeys :
       SettingType(key) = IF key = "/dns_sd/service_instance_name" THEN NameType
                                                                  ELSE TextType
  /\ SettingType("/listen_port") = 0..PortMax
  /\ \A key \in LimitKeys : SettingType(key) = LimitType
  /\ SettingType("/listen_interfaces") = Seq(STRING)
  /\ SettingType("/log_level") = kLogLevelOptions
  /\ SettingType("/enable_broker") = BOOLEAN
<1>1. SettingType("/cid") = CidType
  BY DEF SettingType
<1>2. SettingType("/uid") = UidType
  BY DEF SettingType
<1>3. SettingType("/dns_sd/service_instance_name") = NameType
  BY DEF SettingType
<1>4. SettingType("/dns_sd/manufacturer") = TextType
  BY DEF SettingType
<1>5. SettingType("/dns_sd/model") = TextType
  BY DEF SettingType
<1>6. SettingType("/scope") = TextType
  BY DEF SettingType
<1>7. SettingType("/listen_port") = 0..PortMax
  BY DEF SettingType
<1>8. ASSUME NEW key \in LimitKeys PROVE SettingType(key) = LimitType
  BY <1>8 DEF SettingType, LimitKeys
<1>9. SettingType("/listen_interfaces") = Seq(STRING)
  BY DEF SettingType
<1>10. SettingType("/log_level") = kLogLevelOptions
  BY DEF SettingType
<1>11. SettingType("/enable_broker") = BOOLEAN
  BY DEF SettingType
<1> QED
  BY <1>1, <1>2, <1>3, <1>4, <1>5, <1>6, <1>7, <1>8, <1>9, <1>10, <1>11
  DEF TextKeys

\* A default has the type of its setting.
LEMMA DefaultTyped ==
  ASSUME NEW key \in Keys, NEW s, s["/cid"] \in CidType
  PROVE  Default(key, s) \in SettingType(key)
<1>1. CASE key = "/cid"
  BY <1>1, SettingTypes DEF Default, CidType
<1>2. CASE key = "/uid"
  <2>1. Default(key, s) = [type |-> "dynamic", manu |-> EtcManu]
    BY <1>2 DEF Default
  <2>2. EtcManu \in ManuType
    BY ConfigAssumption DEF ManuType
  <2>3. SettingType(key) = UidType
    BY <1>2, SettingTypes
  <2> QED  BY <2>1, <2>2, <2>3 DEF UidType
<1>3. CASE key \in TextKeys
  <2>1. CASE key = "/dns_sd/service_instance_name"
    <3>1. SettingType(key) = NameType
      BY <1>3, <2>1, SettingTypes
    <3> QED  BY <1>3, <2>1, <3>1, DefaultOfText DEF NameType
  <2>2. CASE key # "/dns_sd/service_instance_name"
    <3>1. SettingType(key) = TextType
      BY <1>3, <2>2, SettingTypes
    <3>2. PICK text \in DefaultTexts :
             Default(key, s) = [text |-> text, len |-> 1]
      BY <1>3, <2>2, DefaultOfText
    <3> QED  BY <3>1, <3>2 DEF TextType
  <2> QED  BY <2>1, <2>2
<1>4. CASE key = "/listen_port"
  <2>1. Default(key, s) = 0
    BY <1>4 DEF Default
  <2>2. SettingType(key) = 0..PortMax
    BY <1>4, SettingTypes
  <2> QED  BY <2>1, <2>2, ConfigAssumption
<1>5. CASE key \in LimitKeys
  <2>1. SettingType(key) = LimitType
    BY <1>5, SettingTypes
  <2> QED  BY <1>5, <2>1, DefaultOfLimit, ConfigAssumption DEF LimitType
<1>6. CASE key = "/listen_interfaces"
  <2>1. Default(key, s) = << >>
    BY <1>6 DEF Default
  <2>2. SettingType(key) = Seq(STRING)
    BY <1>6, SettingTypes
  <2> QED  BY <2>1, <2>2
<1>7. CASE key = "/log_level"
  <2>1. Default(key, s) = "info"
    BY <1>7 DEF Default
  <2>2. SettingType(key) = kLogLevelOptions
    BY <1>7, SettingTypes
  <2> QED  BY <2>1, <2>2 DEF kLogLevelOptions
<1>8. CASE key = "/enable_broker"
  <2>1. Default(key, s) = TRUE
    BY <1>8 DEF Default
  <2>2. SettingType(key) = BOOLEAN
    BY <1>8, SettingTypes
  <2> QED  BY <2>1, <2>2
<1> QED
  BY <1>1, <1>2, <1>3, <1>4, <1>5, <1>6, <1>7, <1>8, KeyFacts DEF IntKeys

\* A value that was accepted is stored as one of the setting's type.
LEMMA StoredTyped ==
  ASSUME NEW file \in Files, NEW key \in Keys, NEW s,
         Valid(key, file[key]),
         key = "/listen_interfaces" => s[key] = << >>
  PROVE  Stored(key, file[key], s) \in SettingType(key)
<1> DEFINE val == file[key]
<1>0. Admissible(key, val) /\ Stored(key, val, s) = Wanted(key, val, s)
  BY ValidExact, StoredExact
<1>1. CASE key = "/cid"
  <2>1. val.text \in Uuids
    BY <1>1 DEF Valid, Accepts
  <2>2. Stored(key, val, s) = val.text
    BY <1>1, KeyFacts DEF Stored
  <2> QED  BY <1>1, <2>1, <2>2, SettingTypes DEF CidType
<1>2. CASE key = "/uid"
  <2>1. AdmissibleUid(val)
    BY <1>0, <1>2 DEF Admissible
  <2>2. Stored(key, val, s) = StoredUid(val)
    BY <1>2, KeyFacts DEF Stored
  <2>3. SettingType(key) = UidType
    BY <1>2, SettingTypes
  <2>4. ASSUME NEW n \in 0..(Half - 1) PROVE ToInt64(n) = n
    BY <2>4, ConfigAssumption DEF ToInt64
  <2>5. ToInt64(val.manufacturer_id.n) \in ManuType
    <3>1. val.manufacturer_id.n \in 1..(ManuLimit - 1)
      BY <2>1 DEF AdmissibleUid
    <3> QED  BY <2>4, <3>1, ConfigAssumption DEF ManuType
  <2>6. CASE val.uid_type.text = "static"
    <3>1. val.device_id.n \in 0..DeviceMax
      BY <2>1, <2>6 DEF AdmissibleUid
    <3>2. ToInt64(val.device_id.n) \in 0..DeviceMax
      BY <2>4, <3>1, ConfigAssumption
    <3> QED  BY <2>2, <2>3, <2>5, <2>6, <3>2 DEF StoredUid, UidType
  <2>7. CASE val.uid_type.text # "static"
    BY <2>2, <2>3, <2>5, <2>7 DEF StoredUid, UidType
  <2> QED  BY <2>6, <2>7
<1>3. CASE key \in TextKeys
  <2>1. /\ key \notin IntKeys
        /\ key \notin {"/cid", "/log_level", "/uid", "/listen_interfaces",
                     "/enable_broker"}
    BY <1>3, KeyFacts
  <2>2. Stored(key, val, s) = StoredString(key, val)
    BY <1>3, <2>1 DEF Stored
  <2>3. val.type = "string"
    BY <1>3, <2>1 DEF Valid, ValueType
  <2>4. val.text \in STRING /\ val.len \in Nat /\ MaxSize[key] \in Nat
    BY <1>3, <2>3, FilesAssumption, ConfigAssumption
  <2>5. StoredString(key, val) \in TextType
    BY <2>4 DEF StoredString, TextType
  <2>6. TextType \subseteq SettingType(key)
    BY <1>3, SettingTypes DEF NameType
  <2> QED  BY <2>2, <2>5, <2>6
<1>4. CASE key \in IntKeys
  <2>1. Wanted(key, val, s) \in IntLimits(key)[1]..IntLimits(key)[2]
    <3>1. key \notin TextKeys /\ key # "/listen_interfaces" /\ key # "/uid"
      BY <1>4, KeyFacts
    <3>2. Wanted(key, val, s) = val.n
      BY <1>0, <1>4, <3>1 DEF Wanted
    <3> QED  BY <1>0, <1>4, <3>2 DEF Admissible, AdmissibleInt
  <2>2. CASE key = "/listen_port"
    <3>1. SettingType(key) = 0..PortMax
      BY <2>2, SettingTypes
    <3> QED  BY <1>0, <2>1, <2>2, <3>1, ConfigAssumption DEF IntLimits
  <2>3. CASE key \in LimitKeys
    <3>1. SettingType(key) = LimitType
      BY <2>3, SettingTypes
    <3>2. IntLimits(key) = <<0, UintMax>>
      BY <2>3 DEF IntLimits, LimitKeys
    <3> QED  BY <1>0, <2>1, <3>1, <3>2 DEF LimitType
  <2> QED  BY <1>4, <2>2, <2>3 DEF IntKeys
<1>5. CASE key = "/listen_interfaces"
  <2>1. SettingType(key) = Seq(STRING)
    BY <1>5, SettingTypes
  <2>2. Wanted(key, val, s) = [e \in 1..Len(val.elems) |-> val.elems[e].text]
    BY <1>0, <1>5, KeyFacts DEF Wanted
  <2>3. val.type = "array"
    BY <1>5, KeyFacts DEF Valid, ValueType
  <2>4. \A e \in 1..Len(val.elems) : val.elems[e].type = "string"
    BY <1>5 DEF Valid, Accepts
  <2>5. /\ Len(val.elems) \in Nat
        /\ \A e \in 1..Len(val.elems) : val.elems[e].text \in STRING
    BY <1>5, <2>3, <2>4, FilesAssumption
  <2> QED  BY <1>0, <2>1, <2>2, <2>5
<1>6. CASE key = "/log_level"
  <2>1. SettingType(key) = kLogLevelOptions
    BY <1>6, SettingTypes
  <2>2. val.text \in kLogLevelOptions
    BY <1>6 DEF Valid, Accepts, AcceptsLevel
  <2>3. Stored(key, val, s) = val.text
    BY <1>6, KeyFacts DEF Stored
  <2> QED  BY <2>1, <2>2, <2>3
<1>7. CASE key = "/enable_broker"
  <2>1. SettingType(key) = BOOLEAN
    BY <1>7, SettingTypes
  <2>2. val.type = "boolean"
    BY <1>7, KeyFacts DEF Valid, ValueType
  <2>3. val.b \in BOOLEAN
    BY <1>7, <2>2, FilesAssumption
  <2>4. Stored(key, val, s) = val.b
    BY <1>7, KeyFacts DEF Stored
  <2> QED  BY <2>1, <2>3, <2>4
<1> QED
  BY <1>1, <1>2, <1>3, <1>4, <1>5, <1>6, <1>7, KeyFacts

\* A store to the entry that a walk has reached keeps the types, if what it
\* stores has the type.
LEMMA StoreTyped ==
  ASSUME SettingsTyped,
         next \in 1..16,
         config'[Pointers[next]] \in SettingType(Pointers[next]),
         \A k \in Keys : k # Pointers[next] => config'[k] = config[k],
         \/ pc = "validate"
         \/ /\ pc = "defaults" /\ result' = result
            /\ \/ next < 16 /\ next' = next + 1 /\ pc' = "defaults"
               \/ next = 16 /\ pc' = "parse"
  PROVE  SettingsTyped'
<1>1. Len(Pointers) = 16
  BY PointerFacts
<1>2. SUFFICES ASSUME NEW n \in 1..16, Initialized(n)'
               PROVE  config'[Pointers[n]] \in SettingType(Pointers[n])
  BY <1>1 DEF SettingsTyped
<1>3. CASE n = next
  BY <1>3
<1>4. CASE n # next
  <2>1. Pointers[n] # Pointers[next] /\ Pointers[n] \in Keys
    BY <1>4, PointerFacts
  <2>2. Initialized(n)
    BY <1>2, <1>4 DEF Initialized
  <2>3. config[Pointers[n]] \in SettingType(Pointers[n])
    BY <1>1, <2>2 DEF SettingsTyped
  <2> QED  BY <2>1, <2>3
<1> QED  BY <1>3, <1>4

\* Every step keeps the types of the settings.
LEMMA SettingsTypedStep ==
  ASSUME IInv, SettingsTyped, [Next]_vars
  PROVE  SettingsTyped'
<1>0. ControlTypeOK /\ AtRest /\ FileRead /\ ListEmpty
  BY DEF IInv
<1>1. Len(Pointers) = 16 /\ Pointers[1] = "/cid" /\ SettingType("/cid") = CidType
  BY PointerFacts, SettingTypes
<1>2. CASE LoadBrokerConfig
  BY <1>0, <1>2 DEF LoadBrokerConfig, AtRest, SettingsTyped, Initialized
<1>3. CASE SetDefaults
  <2>0. /\ pc = "defaults" /\ Advance("parse") /\ result' = result
        /\ config' = [config EXCEPT ![Pointers[next]] =
                                      Default(Pointers[next], config)]
    BY <1>3 DEF SetDefaults
  <2>1. /\ next \in 1..16
        /\ Pointers[next] \in Keys
        /\ \/ next < 16 /\ next' = next + 1 /\ pc' = "defaults"
           \/ next = 16 /\ pc' = "parse"
    BY <1>0, <2>0, WalkFacts
  <2>2. /\ config'[Pointers[next]] = Default(Pointers[next], config)
        /\ \A k \in Keys : k # Pointers[next] => config'[k] = config[k]
    BY <1>0, <2>0, <2>1 DEF ControlTypeOK
  <2>3. Default(Pointers[next], config) \in SettingType(Pointers[next])
    <3>1. CASE next = 1
      BY <1>1, <3>1 DEF Default, CidType
    <3>2. CASE next # 1
      <4>1. Initialized(1)
        BY <2>0, <2>1, <3>2 DEF Initialized
      <4>2. config["/cid"] \in CidType
        BY <1>1, <4>1 DEF SettingsTyped
      <4> QED  BY <2>1, <4>2, DefaultTyped
    <3> QED  BY <3>1, <3>2
  <2> QED  BY <2>0, <2>1, <2>2, <2>3, StoreTyped
<1>4. CASE Read
  BY <1>4 DEF Read, SettingsTyped, Initialized
<1>5. CASE ValidateCurrent
  <2> DEFINE key == Pointers[next]
             val == current_[key]
  <2>1. pc = "validate" /\ next \in 1..16 /\ key \in Keys
    BY <1>0, <1>5, WalkFacts DEF ValidateCurrent
  <2>2. current_ \in Files
    BY <1>0, <2>1 DEF FileRead
  <2>3. config["/cid"] \in CidType
    BY <1>1, <2>1 DEF SettingsTyped, Initialized
  <2>4. Default(key, config) \in SettingType(key)
    BY <2>1, <2>3, DefaultTyped
  <2>5. key = "/listen_interfaces" => config[key] = << >>
    BY <1>0, <2>1, PointerFacts DEF ListEmpty
  <2>6. Valid(key, val) => Stored(key, val, config) \in SettingType(key)
    BY <2>1, <2>2, <2>5, StoredTyped
  <2>7. PICK v \in SettingType(key) : config' = [config EXCEPT ![key] = v]
    BY <1>5, <2>4, <2>6 DEF ValidateCurrent
  <2>8. /\ config'[key] \in SettingType(key)
        /\ \A k \in Keys : k # key => config'[k] = config[k]
    BY <1>0, <2>1, <2>7 DEF ControlTypeOK
  <2> QED  BY <2>1, <2>8, StoreTyped
<1>6. CASE UNCHANGED vars
  BY <1>6 DEF vars, SettingsTyped, Initialized
<1> QED  BY <1>2, <1>3, <1>4, <1>5, <1>6 DEF Next

\* A walk never leaves the validator array, and once SetDefaults has reached
\* it a setting always holds a value of its type: whatever the files hold,
\* however many are loaded into the object and in the middle of a walk too.
THEOREM TypeCorrect == Spec => []TypeOK
<1>1. Init => SettingsTyped
  BY DEF Init, SettingsTyped, Initialized
<1>2. IInv /\ SettingsTyped /\ [Next]_vars => SettingsTyped'
  BY SettingsTypedStep
<1>3. IInv /\ SettingsTyped => TypeOK
  BY DEF IInv, TypeOK
<1> QED  BY <1>1, <1>2, <1>3, Invariance, PTL DEF Spec

-----------------------------------------------------------------------------
(***************************************************************************)
(* What the library gets.                                                  *)
(***************************************************************************)

\* A setting is its default or the stored form of an admissible value.
LEMMA SettingOrigin ==
  ASSUME IInv, LoadedFile \/ LoadFailed, NEW key \in Keys
  PROVE  \/ config[key] = Default(key, config)
         \/ /\ current_ \in Files
            /\ Admissible(key, current_[key])
            /\ config[key] = Wanted(key, current_[key], config)
<1>1. CASE LoadFailed
  BY <1>1 DEF IInv, ParseErrorMeansDefaults
<1>2. CASE LoadedFile
  BY <1>2 DEF IInv, SettingsMatchFile, FileRead, Wanted
<1> QED  BY <1>1, <1>2

\* The text settings: a default has no length or is short, and a stored
\* text has been cut to what fits.
LEMMA TextsFit ==
  ASSUME IInv, LoadedFile \/ LoadFailed, NEW key \in TextKeys, key \in Keys,
         "len" \in DOMAIN config[key]
  PROVE  config[key].len \in 1..MaxSize[key]
<1>1. MaxSize[key] \in Nat \ {0}
  BY ConfigAssumption
<1>2. CASE config[key] = Default(key, config)
  <2>1. CASE key = "/dns_sd/service_instance_name"
    <3>1. config[key] = [broker_cid |-> config["/cid"]]
      BY <1>2, <2>1 DEF Default
    <3> QED  BY <3>1
  <2>2. CASE key # "/dns_sd/service_instance_name"
    <3>1. Default(key, config).len = 1
      BY <2>2, DefaultOfText
    <3> QED  BY <1>1, <1>2, <3>1
  <2> QED  BY <2>1, <2>2
<1>3. CASE /\ current_ \in Files
           /\ Admissible(key, current_[key])
           /\ config[key] = Wanted(key, current_[key], config)
  <2> DEFINE val == current_[key]
  <2>1. key \notin IntKeys /\ key # "/listen_interfaces" /\ key # "/uid"
    BY DEF TextKeys, IntKeys, LimitKeys
  <2>2. config[key] = WantedText(key, val)
    BY <1>3, <2>1 DEF Wanted
  <2>3. val.type = "string" /\ AdmissibleText(key, val)
    BY <1>3, <2>1 DEF Admissible, ValueType, TextKeys
  <2>4. val.len \in Nat /\ val.len > 0
    BY <1>1, <1>3, <2>3, FilesAssumption DEF AdmissibleText
  <2>5. config[key].len = IF val.len > MaxSize[key] THEN MaxSize[key] ELSE val.len
    BY <2>2, <2>4, TextsExact DEF StoredString
  <2> QED  BY <1>1, <2>4, <2>5
<1> QED  BY <1>2, <1>3, SettingOrigin

\* The integer settings are in range, or at their default.
LEMMA IntsFit ==
  ASSUME IInv, LoadedFile \/ LoadFailed, NEW key \in IntKeys, key \in Keys
  PROVE  \/ config[key] = Default(key, config)
         \/ config[key] \in IntLimits(key)[1]..IntLimits(key)[2]
<1> DEFINE val == current_[key]
<1>1. key # "/uid" /\ key # "/listen_interfaces" /\ key \notin TextKeys
  BY DEF IntKeys, LimitKeys, TextKeys
<1>2. CASE Admissible(key, val) /\ config[key] = Wanted(key, val, config)
  BY <1>1, <1>2 DEF Wanted, Admissible, AdmissibleInt
<1> QED  BY <1>2, SettingOrigin

\* The UID is in the manufacturer's range.
LEMMA UidFits ==
  ASSUME IInv, LoadedFile \/ LoadFailed, "/uid" \in Keys
  PROVE  /\ config["/uid"].manu \in 1..(ManuLimit - 1)
         /\ config["/uid"].type = "static" => config["/uid"].device \in 0..DeviceMax
<1> DEFINE val == current_["/uid"]
<1>1. CASE config["/uid"] = Default("/uid", config)
  <2>1. config["/uid"] = [type |-> "dynamic", manu |-> EtcManu]
    BY <1>1 DEF Default
  <2> QED  BY <2>1, ConfigAssumption
<1>2. CASE /\ current_ \in Files
           /\ Admissible("/uid", val)
           /\ config["/uid"] = Wanted("/uid", val, config)
  <2>1. AdmissibleUid(val)
    BY <1>2 DEF Admissible
  <2>2. config["/uid"] = StoredUid(val)
    BY <1>2 DEF Wanted, Stored, IntKeys, LimitKeys, TextKeys
  <2>3. ASSUME NEW n \in 0..(Half - 1) PROVE ToInt64(n) = n
    BY <2>3, ConfigAssumption DEF ToInt64
  <2>4. ToInt64(val.manufacturer_id.n) = val.manufacturer_id.n
    BY <2>1, <2>3, ConfigAssumption DEF AdmissibleUid
  <2>5. CASE val.uid_type.text = "static"
    <3>1. val.device_id.n \in 0..DeviceMax
      BY <2>1, <2>5 DEF AdmissibleUid
    <3>2. ToInt64(val.device_id.n) = val.device_id.n
      BY <2>3, <3>1, ConfigAssumption
    <3> QED  BY <2>1, <2>2, <2>4, <2>5, <3>1, <3>2 DEF AdmissibleUid, StoredUid
  <2>6. CASE val.uid_type.text # "static"
    BY <2>1, <2>2, <2>4, <2>6 DEF AdmissibleUid, StoredUid
  <2> QED  BY <2>5, <2>6
<1> QED  BY <1>1, <1>2, SettingOrigin

\* The parts together.
LEMMA UsableFromIInv == IInv => SettingsUsable
<1> SUFFICES ASSUME IInv, LoadedFile \/ LoadFailed PROVE SettingsUsable
  BY DEF SettingsUsable
<1>0. /\ {"/cid", "/uid", "/listen_port", "/log_level"} \subseteq Keys
      /\ TextKeys \subseteq Keys /\ LimitKeys \subseteq Keys
  BY DEF Keys, Pointers, TextKeys, LimitKeys
<1>1. config["/cid"] \in Uuids \cup {DefaultCid}
  <2>1. Default("/cid", config) = DefaultCid
    BY DEF Default
  <2>2. ASSUME NEW val, Admissible("/cid", val)
        PROVE  Wanted("/cid", val, config) \in Uuids
    BY <2>2 DEF Wanted, Stored, Admissible, Accepts, IntKeys, LimitKeys, TextKeys
  <2> QED  BY <1>0, <2>1, <2>2, SettingOrigin
<1>2. config["/log_level"] \in kLogLevelOptions
  <2>1. Default("/log_level", config) \in kLogLevelOptions
    BY DEF Default, kLogLevelOptions
  <2>2. ASSUME NEW val, Admissible("/log_level", val)
        PROVE  Wanted("/log_level", val, config) \in kLogLevelOptions
    BY <2>2 DEF Wanted, Stored, Admissible, Accepts, AcceptsLevel, IntKeys,
       LimitKeys, TextKeys
  <2> QED  BY <1>0, <2>1, <2>2, SettingOrigin
<1>3. config["/listen_port"] \in {0} \cup PortMin..PortMax
  <2>1. Default("/listen_port", config) = 0
    BY DEF Default
  <2>2. IntLimits("/listen_port") = <<PortMin, PortMax>>
    BY DEF IntLimits
  <2> QED  BY <1>0, <2>1, <2>2, IntsFit DEF IntKeys
<1>4. ASSUME NEW key \in LimitKeys
      PROVE  config[key] \in 0..UintMax \cup {500, 1000}
  <2>1. Default(key, config) \in {0, 500, 1000}
    BY DefaultOfLimit
  <2>2. IntLimits(key) = <<0, UintMax>>
    BY DEF IntLimits, LimitKeys
  <2> QED  BY <1>0, <2>1, <2>2, IntsFit, ConfigAssumption DEF IntKeys
<1> QED
  BY <1>0, <1>1, <1>2, <1>3, <1>4, TextsFit, UidFits DEF SettingsUsable

\* Whatever the files hold, the library gets settings it can use.
THEOREM SettingsAreUsable == Spec => []SettingsUsable
  BY UsableFromIInv, Invariance, PTL

-----------------------------------------------------------------------------
(***************************************************************************)
(* A load as one step.                                                     *)
(***************************************************************************)

\* Settings that follow a file are the ones the file alone determines.
LEMMA SettingsAreOfFile ==
  ASSUME NEW file, NEW settings,
         \A key \in Keys : settings[key] = Wanted(key, file[key], settings)
  PROVE  [key \in Keys |-> settings[key]] = SettingsOf(file)
<1>1. "/cid" \in Keys
  BY PointerFacts
<1>2. Wanted("/cid", file["/cid"], settings) = Wanted("/cid", file["/cid"], Nothing)
  BY DEF Wanted, Default, Stored
<1>3. settings["/cid"] = CidOf(file)["/cid"]
  BY <1>1, <1>2 DEF CidOf
<1>4. \A key \in Keys :
        Wanted(key, file[key], settings) = Wanted(key, file[key], CidOf(file))
  BY <1>3, WantedLocal
<1> QED  BY <1>4 DEF SettingsOf

\* What follows from a file without any of the keys is the default.
LEMMA NothingMeansDefaults ==
  ASSUME NEW key \in Keys, NEW settings
  PROVE  Wanted(key, Nothing[key], settings) = Default(key, settings)
<1>1. Nothing[key].type = "absent"
  BY DEF Nothing, Absent
<1>2. ~Admissible(key, Nothing[key])
  BY <1>1, TypeNeverNull DEF Admissible
<1> QED  BY <1>2 DEF Wanted

\* When a load has ended, its outcome is that of the file it read.
LEMMA OutcomeOfFile ==
  ASSUME IInv, LoadedFile \/ LoadFailed
  PROVE  Outcome \in LoadOutcomes
<1>1. CASE LoadedFile
  <2>1. current_ \in Files
    BY <1>1 DEF IInv, FileRead
  <2>2. [key \in Keys |-> config[key]] = SettingsOf(current_)
    BY <1>1, SettingsAreOfFile DEF IInv, SettingsMatchFile
  <2>3. result = ResultOf(current_)
    BY <1>1 DEF IInv, ResultMatchesFile, LoadedFile, ResultOf
  <2> QED  BY <2>1, <2>2, <2>3 DEF Outcome, LoadOutcomes
<1>2. CASE LoadFailed
  <2>1. \A key \in Keys : config[key] = Wanted(key, Nothing[key], config)
    BY <1>2, NothingMeansDefaults DEF IInv, ParseErrorMeansDefaults
  <2>2. [key \in Keys |-> config[key]] = SettingsOf(Nothing)
    BY <2>1, SettingsAreOfFile
  <2>3. current_ = Nothing /\ result = "kJsonParseErr"
    BY <1>2 DEF IInv, FileRead, LoadFailed
  <2> QED  BY <2>2, <2>3 DEF Outcome, LoadOutcomes
<1> QED  BY <1>1, <1>2

OutcomeInv == LoadedFile \/ LoadFailed => Outcome \in LoadOutcomes

\* Every step of the walks is a step of ConfigLoad or cannot be seen there.
LEMMA LoadStep ==
  ASSUME IInv, OutcomeInv', [Next]_vars
  PROVE  [Load!Next]_(Load!loadVars)
<1> USE DEF Load!loadVars
<1>1. CASE pc' # "idle"
  <2>1. CASE pc = "idle"
    BY <1>1, <2>1 DEF Load!Next, Load!Begin, LoadedFile, LoadFailed
  <2>2. CASE pc # "idle"
    BY <1>1, <2>2 DEF LoadedFile, LoadFailed
  <2> QED  BY <2>1, <2>2
<1>2. CASE pc' = "idle" /\ pc # "idle"
  <2>1. LoadedFile' \/ LoadFailed'
    <3>1. CASE Read
      BY <1>2, <3>1 DEF Read, LoadFailed
    <3>2. CASE ValidateCurrent
      BY <1>2, <3>2 DEF ValidateCurrent, Verdict, LoadedFile, IInv, VerdictBehind
    <3> QED
      BY <1>2, <3>1, <3>2 DEF Next, LoadBrokerConfig, SetDefaults, Advance, vars
  <2>2. Outcome' \in LoadOutcomes
    BY <2>1 DEF OutcomeInv
  <2> QED  BY <1>2, <2>1, <2>2 DEF Load!Next, Load!End
<1>3. CASE pc' = "idle" /\ pc = "idle"
  <2>1. UNCHANGED vars
    BY <1>3 DEF Next, LoadBrokerConfig, SetDefaults, Read, ValidateCurrent
  <2> QED  BY <2>1 DEF vars, LoadedFile, LoadFailed, Outcome
<1> QED  BY <1>1, <1>2, <1>3

\* BrokerConfig implements ConfigLoad: a load is one step whose outcome is a
\* function of the file, for any files and any sequence of loads.
THEOREM ConfigImplementsLoad == Spec => ImplementsLoad
<1>1. Init => Load!Init
  BY DEF Init, Load!Init, LoadedFile, LoadFailed
<1>2. IInv => OutcomeInv
  BY OutcomeOfFile DEF OutcomeInv
<1>3. IInv /\ OutcomeInv' /\ [Next]_vars => [Load!Next]_(Load!loadVars)
  BY LoadStep
<1> QED
  BY <1>1, <1>2, <1>3, Invariance, PTL DEF Spec, ImplementsLoad, Load!Spec
=============================================================================
