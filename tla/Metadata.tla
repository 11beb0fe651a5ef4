------------------------------ MODULE Metadata ------------------------------
(***************************************************************************)
(* The description of a Windows machine that a registration carries, as    *)
(* each SDK s builds it from the registry and the options: the server      *)
(* recognises a device by its fingerprint, whichever SDK it runs.          *)
(***************************************************************************)
EXTENDS Arguments

\* What the registry says ("" where there is no such value), and the options.
\* "{}" is a MachineGuid without content, "{G}" is "g" written otherwise.
Machines ==
    [guid : {"", "{}", "g", "{G}"}, hostname : {" ", "pc"},
     product : {"", "Windows 11"}, display : {"", "24H2"}, build : {"", "26100"},
     ubr : {"", "1", "+1", "0x1"}, installId : {Unset, " ", "own"}, stored : {Unset, "file"},
     appVersion : {Unset, " ", "1.0"}]

\* windows_os_version; umbra-typescript takes digits only for a revision.
OsVersion(s, m) ==
    <<IF m.product = "" THEN "Windows" ELSE m.product>>
    \o (IF m.display = "" THEN <<>> ELSE <<m.display>>)
    \o (IF m.build = "" THEN <<>>
        ELSE <<"build", m.build>>
             \o (IF m.ubr = "1" \/ (m.ubr = "+1" /\ s # "ts") THEN <<m.ubr>> ELSE <<>>))

\* windows_device_fingerprint: braces and case do not matter.
Fingerprint(m) == IF m.guid = "{}" THEN "" ELSE "g"

\* The installation id of the options, or that of the file.
InstallId(m) == IF ~IsBlank(m.installId) THEN m.installId ELSE OrElse(m.stored, "")

\* detect_windows_device_metadata: nothing without a MachineGuid.  umbra-go leaves
\* the registry's values out when there are none.
Detect(s, m) ==
    IF m.guid = "" THEN Refused ELSE
    [name |-> Text(m.hostname), osVersion |-> OsVersion(s, m), fingerprint |-> Fingerprint(m),
     appVersion |-> Text(m.appVersion), installId |-> InstallId(m),
     windows |-> s # "go" \/ \E v \in {m.product, m.display, m.build, m.ubr} : v # ""]

\* A machine with a registry whose revision is a number.
PlainMachine(m) == m.product # "" /\ m.ubr # "+1"
=============================================================================
