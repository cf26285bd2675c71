-------------------------------- MODULE MCHost --------------------------------
(***************************************************************************)
(* What a daemon is on its host, in four models that share no state and    *)
(* are checked side by side: the processes of start, stop and teardown     *)
(* (Lifecycle), the network entries of one of them (NetEntries), its       *)
(* loopback listeners (LocalBinds) and its packet tables (OverlayTable).   *)
(* The variable part says which one a behaviour is of; the others stand    *)
(* still.  Listeners come with other processes that keep their ports and   *)
(* with such that release them.                                            *)
(***************************************************************************)
EXTENDS Lifecycle, Sequences

CONSTANTS
  NetSettings,                                \* of NetEntries
  AutoVip, Width, Ports, ServicePorts, DefaultPorts, ConfigFiles,
                                              \* of OverlayTable
  Hosts, LogicalPorts, Locals, MaxTargets, MaxPort, Stride, Sources,
                                              \* of LocalBinds
  ChurnTargets                                \* bound: targets where ports are released

VARIABLES
  part,
  setting, config, saved, proc, host,
  given, source, phase, targets, bindPorts, plans, turn, reserved, claimed,
  candidate, listeners, busy,
  conf, step, vip, keys, last

netVars == <<setting, config, saved, proc, host>>
bindVars == <<given, source, phase, targets, bindPorts, plans, turn, reserved,
              claimed, candidate, listeners, busy>>
tableVars == <<conf, step, vip, keys, last>>

-----------------------------------------------------------------------------
(* Configuration files of NetEntries *)

Conf(tun, chain, net, uid, mode) ==
  [tun |-> tun, chain |-> chain, net |-> net, uid |-> uid, mode |-> mode]

\* A file in packet mode, with the device, the chain, the network and the
\* validator's uid each edited.
PacketConfigs ==
  {Conf("t1", "c1", "n1", FALSE, "packet"), Conf("t2", "c1", "n1", TRUE, "packet"),
   Conf("t1", "c2", "n2", FALSE, "packet")}

\* A packet file edited into one of another mode and device, over the same
\* chain or network.
MixedConfigs ==
  {Conf("t1", "c1", "n1", FALSE, "packet"), Conf("t2", "c1", "n1", FALSE, "stream"),
   Conf("t2", "c2", "n1", FALSE, "proxy")}

TwoSettings ==
  {[files |-> PacketConfigs, mishaps |-> {"crash", "edit"}],
   [files |-> MixedConfigs, mishaps |-> {"tool", "crash", "early", "edit"}]}

-----------------------------------------------------------------------------
(* Files of OverlayTable: rows of two wallets at three addresses of four    *)
(* bits, one of them outside the overlay, with ports listed twice, unread   *)
(* keys, and no ports; networks with and without host bits set.             *)

Peer(locator, eoa, address, ports, loads) ==
  [locator |-> locator, eoa |-> eoa, vip |-> address, ports |-> ports, loads |-> loads]

PeerRows ==
  {Peer("geth", "A", 5, <<1>>, TRUE), Peer("beacon", "A", 5, <<2>>, TRUE),
   Peer("beacon", "A", 5, <<2, 3>>, FALSE), Peer("other", "B", 5, <<2>>, TRUE),
   Peer("other", "B", 6, <<1, 3>>, TRUE), Peer("other", "B", 6, <<1, 1>>, TRUE),
   Peer("far", "B", 9, <<1>>, TRUE), Peer("bare", "A", 6, <<>>, TRUE)}

RowSeqs == {<<>>} \cup {<<r>> : r \in PeerRows}
           \cup {<<r, s>> : r \in PeerRows, s \in PeerRows}

ClientSets ==
  {{}, {[eoa |-> "A", port |-> 2]}, {[eoa |-> "B", port |-> 3]},
   {[eoa |-> "A", port |-> 3], [eoa |-> "B", port |-> 3]}}

Networks == {<<0, 1>>, <<2, 1>>, <<3, 1>>, <<0, 0>>, <<0, 3>>}

Files ==
  {[net |-> n[1], prefix |-> n[2], local |-> l, rows |-> r, clients |-> c] :
     n \in Networks, l \in {AutoVip, 6, 12}, r \in RowSeqs, c \in ClientSets}

-----------------------------------------------------------------------------
Net == INSTANCE NetEntries WITH Settings <- NetSettings

Binds == INSTANCE LocalBinds

Tables == INSTANCE OverlayTable WITH
  Configs <- ConfigFiles, Auto <- AutoVip, phase <- step

ASSUME MCEntries == Net!EntriesAssumption
ASSUME MCBinds == Binds!BindsAssumption
ASSUME MCTables == Tables!TableAssumption

Absent == "absent"
NoNet == setting = Absent /\ config = Absent /\ saved = Absent /\ proc = Absent /\ host = Absent
NoBinds ==
  /\ given = Absent /\ source = Absent /\ phase = Absent /\ targets = Absent
  /\ bindPorts = Absent /\ plans = Absent /\ turn = Absent /\ reserved = Absent
  /\ claimed = Absent /\ candidate = Absent /\ listeners = Absent /\ busy = Absent
NoTables == conf = Absent /\ step = Absent /\ vip = Absent /\ keys = Absent /\ last = Absent

MCInit ==
  /\ Init
  /\ \/ part = "processes" /\ NoNet /\ NoBinds /\ NoTables
     \/ part = "entries" /\ Net!Init /\ NoBinds /\ NoTables
     \/ part = "binds" /\ Binds!Init /\ NoNet /\ NoTables
     \/ part = "churn" /\ Binds!Init /\ Len(given) <= ChurnTargets /\ NoNet /\ NoTables
     \/ part = "tables" /\ Tables!Init /\ NoNet /\ NoBinds

MCNext ==
  \/ part = "processes" /\ Next /\ UNCHANGED <<part, netVars, bindVars, tableVars>>
  \/ part = "entries" /\ Net!Next /\ UNCHANGED <<part, vars, bindVars, tableVars>>
  \/ part = "binds" /\ Binds!Quiet /\ UNCHANGED <<part, vars, netVars, tableVars>>
  \/ part = "churn" /\ Binds!Next /\ UNCHANGED <<part, vars, netVars, tableVars>>
  \/ part = "tables" /\ Tables!Next /\ UNCHANGED <<part, vars, netVars, bindVars>>

\* Without the processes no command is ever under way, and fairness asks for
\* nothing.
MCSpec ==
  /\ MCInit /\ [][MCNext]_<<part, vars, netVars, bindVars, tableVars>>
  /\ Fairness

-----------------------------------------------------------------------------
(* Properties *)

\* Network entries: crashes after the state was written, files edited, and
\* teardowns cut short leave no entry that no state file covers, and a
\* packet-mode daemon that runs has all of its own.  Whatever else may fail,
\* an uninstall none of whose commands fails for a reason of its own leaves
\* nothing under its names, and a daemon that runs has the entries install
\* insists on.
EntriesCovered ==
  part = "entries" =>
    /\ Net!TypeOK /\ Net!NoOrphans /\ Net!RunningComplete
    /\ Net!UninstallCleans /\ Net!RunningUsable

\* Listeners: a target that has to walk never ends on the bind of another,
\* and none is given up while it has a port to take.  An explicit @LOCAL of
\* the file is kept whatever other processes bind and release.
BindsKept ==
  /\ part \in {"binds", "churn"} => Binds!TypeOK /\ Binds!PinKept
  /\ part = "binds" => Binds!NotAnothersBind /\ Binds!GivenUpForCause

\* Packet tables: the daemon's own address is nobody else's, a packet is
\* sealed with a key of its row, every row serves its ports, and both
\* directions of a flow are on one port.
TablesAgree ==
  part = "tables" =>
    Tables!TypeOK /\ Tables!VipIsOwn /\ Tables!SealedToItsRow /\ Tables!RowsServe
      /\ Tables!FlowKeepsPort
=============================================================================
