----------------------------- MODULE Controller -----------------------------
(***************************************************************************)
(* One run of lasync from etc/lasync.conf to the datagram: read the        *)
(* configuration, ask the kernel for the address and the broadcast address *)
(* of the configured device, build the message and broadcast it (main.cpp, *)
(* behind the options, which SyncSystem treats). The message itself, and   *)
(* what a daemon makes of it, is WireFormat. The file and the device's     *)
(* addresses can change while lasync runs.                                 *)
(*                                                                         *)
(* A network stands for the controller's address in it and for its         *)
(* broadcast address; "0.0.0.0" is what an ioctl that fails leaves, "" a   *)
(* string nobody assigned.                                                 *)
(***************************************************************************)
EXTENDS WireFormat, ConfigParser

CONSTANTS
    Texts,          \* what etc/lasync.conf may contain: sequences of lines
    Networks,       \* the networks a device can have an address in
    Devices,        \* the devices of this machine, as values of the file
    MaxChanges      \* bound: changes of devices and of the file

ASSUME ControllerAssumption ==
    Networks \cap {"", "none", "0.0.0.0", "everyone", "self"} = {}

VARIABLES
    conf,        \* the file's contents
    present,     \* whether it exists
    nic,         \* per device: its network, or "none"
    changes,     \* changes so far
    step,        \* lasync's next statement
    device,      \* main's local variables of these names
    syncdir,
    ip,
    broadcast,
    raced,       \* history: an address changed between the two ioctls
    src,         \* LAMsg.src, once built
    target       \* where the datagram went

config == <<conf, present>>
locals == <<device, syncdir, ip, broadcast>>
ctlVars == <<config, nic, changes, step, locals, raced, src, target>>
allVars == <<vars, ctlVars>>

CtlInit ==
    /\ Init
    /\ conf \in Texts /\ present = TRUE
    /\ nic \in [Devices -> Networks \cup {"none"}] /\ changes = 0
    /\ step = "isfile"
    /\ device = <<>> /\ syncdir = <<>> /\ ip = "" /\ broadcast = ""
    /\ raced = FALSE /\ src = "" /\ target = ""

(***************************************************************************)
(* The administrator and the network.                                      *)
(***************************************************************************)
Change == phase = "idle" /\ changes < MaxChanges /\ changes' = changes + 1

RemoveConf ==
    /\ Change /\ present
    /\ present' = FALSE
    /\ UNCHANGED <<vars, conf, nic, step, locals, raced, src, target>>

NicChange ==
    /\ Change
    /\ \E d \in Devices, n \in Networks \cup {"none"} :
          n # nic[d] /\ nic' = [nic EXCEPT ![d] = n]
    /\ raced' = (raced \/ step = "broadcast")
    /\ UNCHANGED <<vars, config, step, locals, src, target>>

(***************************************************************************)
(* The configuration. Nobody catches an exception: lasync aborts.          *)
(***************************************************************************)
\* create_instance: exists and isfile, or LAFileNotFoundException.
IsFile ==
    /\ step = "isfile"
    /\ step' = IF present THEN "open" ELSE "aborted"
    /\ UNCHANGED <<vars, config, nic, changes, locals, raced, src, target>>

\* read_config: the end of a stream that did not open is never reached.
OpenGone ==
    /\ step = "open" /\ ~present
    /\ step' = "spin"
    /\ UNCHANGED <<vars, config, nic, changes, locals, raced, src, target>>

\* read_config, read_all and both read_value.
ReadConf ==
    /\ step = "open" /\ present
    /\ LET settings == Settings(conf) IN
       IF ~settings.duplicate /\ {"device", "syncdir"} \subseteq DOMAIN settings.value
         THEN /\ device' = settings.value["device"]
              /\ syncdir' = settings.value["syncdir"]
              /\ step' = "realpath"
         ELSE step' = "aborted" /\ UNCHANGED <<device, syncdir>>
    /\ UNCHANGED <<vars, config, nic, changes, ip, broadcast, raced, src, target>>

\* realpath of a directory that is missing is a null pointer: assign throws.
RealPath ==
    /\ step = "realpath"
    /\ step' \in {"ip", "aborted"}
    /\ UNCHANGED <<vars, config, nic, changes, locals, raced, src, target>>

(***************************************************************************)
(* get_nic_info.                                                           *)
(***************************************************************************)
AddressOf(d) == IF d \in Devices /\ nic[d] # "none" THEN nic[d] ELSE "0.0.0.0"

\* No socket: -1, which main does not look at; both strings stay empty.
NoSocket ==
    /\ step = "ip"
    /\ step' = "build"
    /\ UNCHANGED <<vars, config, nic, changes, locals, raced, src, target>>

GetIp ==                                   \* SIOCGIFADDR
    /\ step = "ip"
    /\ ip' = AddressOf(device)
    /\ step' = "broadcast"
    /\ UNCHANGED <<vars, config, nic, changes, device, syncdir, broadcast, raced, src, target>>

GetBroadcastAny ==                         \* fault of GetBroadcast: the name not set again
    /\ step = "broadcast"
    /\ \E d \in Devices : broadcast' = AddressOf(d)
    /\ step' = "build"
    /\ UNCHANGED <<vars, config, nic, changes, device, syncdir, ip, raced, src, target>>

GetBroadcast ==                            \* SIOCGIFBRDADDR
    /\ step = "broadcast"
    /\ broadcast' = AddressOf(device)
    /\ step' = "build"
    /\ UNCHANGED <<vars, config, nic, changes, device, syncdir, ip, raced, src, target>>

(***************************************************************************)
(* build_msg and send_msg.                                                 *)
(***************************************************************************)
\* inet_aton fails for "" and leaves src as the stack was.
BuildMsg ==
    /\ step = "build" /\ Build
    /\ src' \in IF ip = "" THEN Networks \cup {"0.0.0.0"} ELSE {ip}
    /\ step' = "send"
    /\ UNCHANGED <<config, nic, changes, locals, raced, target>>

\* inet_addr("") is 255.255.255.255, every host in reach; a datagram to
\* 0.0.0.0 stays on the controller.
Target(b) == CASE b = "" -> "everyone" [] b = "0.0.0.0" -> "self" [] OTHER -> b

SendMsg ==
    /\ step = "send" /\ Send
    /\ target' = Target(broadcast)
    /\ step' = "done"
    /\ UNCHANGED <<config, nic, changes, locals, raced, src>>

\* socket, setsockopt or sendto fails: exit(1).
SendFails ==
    /\ step = "send"
    /\ step' = "exited"
    /\ UNCHANGED <<vars, config, nic, changes, locals, raced, src, target>>

Lasync == \/ IsFile \/ OpenGone \/ ReadConf \/ RealPath
          \/ NoSocket \/ GetIp \/ GetBroadcast \/ BuildMsg \/ SendMsg \/ SendFails
CtlNext ==
    \/ RemoveConf \/ NicChange \/ Lasync
    \/ (Receive \/ Extract \/ Crash) /\ UNCHANGED ctlVars

CtlSpec == CtlInit /\ [][CtlNext]_allVars
-----------------------------------------------------------------------------
(***************************************************************************)
(* Properties.                                                             *)
(***************************************************************************)
\* Hosts that a directed broadcast reaches find the controller's address in
\* that network in the message, and fetch the files from there: the two
\* ioctls (netutils.cpp:129-151) see one device in one state, though their
\* failures are not reported. Excused is an address that changes in between.
SourceMatchesTarget == target \in Networks /\ ~raced => src = target

\* What a line says of a key, as key = 'value' with or without blanks; a "#" in
\* its first column, and only there, makes it a comment.
Gaps == {<<>>, <<"sp">>}
Values(line, key) ==
    UNION {{value \in {SubSeq(line, i + Len(b) + Len(c) + 3, j - 1)} :
               /\ Head(line) # "#" /\ j > i + Len(b) + Len(c) + 2 /\ line[j] = "'"
               /\ SubSeq(line, i, j) =
                     <<key>> \o b \o <<"=">> \o c \o <<"'">> \o value \o <<"'">>
               /\ \A n \in DOMAIN value : value[n] \in Words} :
           i, j \in DOMAIN line, b, c \in Gaps}

\* Each line of a file sets one key, if any: the expression would take the first.
OneSettingALine ==
    \A text \in Texts : DOMAIN text \subseteq Nat /\ \A n \in DOMAIN text :
        /\ text[n] \in Seq(Range(text[n]))
        /\ \A i, j \in KeyPlaces(text[n]) : i = j

\* A request leaves only if its device and its directory are each the value of
\* one line of the file, with no other line that sets that key
\* (configparser.cpp:123-135). The expression is not anchored: an indented
\* comment is such a line. It may contradict no setting, but alone it decides.
OneLineDecides ==
    step \in {"send", "done"} =>
        \A used \in {<<"device", device>>, <<"syncdir", syncdir>>} :
            \E n \in DOMAIN conf : \A m \in DOMAIN conf :
                Values(conf[m], used[1]) = IF m = n THEN {used[2]} ELSE {}
=============================================================================
