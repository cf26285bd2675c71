----------------------------- MODULE OverlayTable -----------------------------
(***************************************************************************)
(* The static tables of packet mode: the overlay network and the daemon's  *)
(* own address (config.rs select_local_vip, validate), the rows of peers   *)
(* and the OpenPGP keys kept per address and port (client.rs from_config), *)
(* and what they make of a packet read from the TUN device (packet.rs      *)
(* overlay_channel_port, forward.rs on_tun_frame, config.rs lookup_peer,   *)
(* client.rs prepare_overlay_post).  What becomes of a batch that has its  *)
(* keys is in PeerOverlay.                                                 *)
(*                                                                         *)
(* An address is a number of Width bits.                                   *)
(***************************************************************************)
EXTENDS Naturals, Sequences, FiniteSets

CONSTANTS
  Width,         \* bits of an address (32)
  Ports,         \* ports that occur in packets
  ServicePorts,  \* ports with a service of their own (8400, 4200)
  DefaultPorts,  \* DEFAULT_OVERLAY_PORTS
  Auto,          \* the local_vip that is chosen by the daemon
  Configs        \* configuration files

Nil == 0
Addresses == 0 .. 2 ^ Width - 1

\* A row of [[peers]]: its locator and the wallet in it, address, tcp_ports
\* and udp_ports one after the other, and whether its key files can be read.
\* A file: network and prefix, local_vip, rows, and [l0].clients as wallet
\* and port.
IsRow(r) ==
  /\ DOMAIN r = {"locator", "eoa", "vip", "ports", "loads"}
  /\ r.vip \in Addresses /\ r.ports \in Seq(Ports) /\ r.loads \in BOOLEAN
IsConfig(c) ==
  /\ c.net \in Addresses /\ c.prefix \in 0 .. Width
  /\ c.local \in Addresses \cup {Auto}
  /\ DOMAIN c.rows = 1 .. Len(c.rows) /\ Len(c.rows) \in Nat
  /\ \A i \in DOMAIN c.rows : IsRow(c.rows[i])
  /\ \A t \in c.clients : t.port \in Ports

TableAssumption ==
  /\ Width \in Nat \ {0}
  /\ ServicePorts \subseteq Ports /\ DefaultPorts \subseteq Ports
  /\ \A c \in Configs : IsConfig(c)

VARIABLES
  conf,   \* the file
  phase,  \* "read", "refused", or "running"
  vip,    \* the daemon's address
  keys,   \* [address and port -> the row whose keys are kept], as far as kept
  last    \* the last packet: [dest, sport, dport, locator, outcome, by]

vars == <<conf, phase, vip, keys, last>>

Rows == DOMAIN conf.rows
Row(i) == conf.rows[i]
RowPorts(r) == {r.ports[k] : k \in DOMAIN r.ports}
NoPacket == [outcome |-> "none"]
Outcomes == {"none", "ignored", "refused", "sealed"}

TypeOK ==
  /\ conf \in Configs
  /\ phase \in {"read", "refused", "running"}
  /\ vip \in Addresses
  /\ DOMAIN keys \subseteq Addresses \X Ports
  /\ \A k \in DOMAIN keys : keys[k] \in Rows
  /\ last.outcome \in Outcomes

Init ==
  /\ conf \in Configs
  /\ phase = "read" /\ vip = 0
  /\ keys = <<>>
  /\ last = NoPacket

-----------------------------------------------------------------------------
(* Ipv4Cidr::contains, select_local_vip *)

Block(prefix) == 2 ^ (Width - prefix)
Contains(c, a) == a \div Block(c.prefix) = c.net \div Block(c.prefix)

Taken(c) == {c.rows[i].vip : i \in DOMAIN c.rows}

\* 1u32 << 32 is 1 in a release build, so prefix 0 leaves no host.
HostCount(c) == IF c.prefix = 0 \/ c.prefix >= Width - 1 THEN 0
                ELSE Block(c.prefix) - 2

\* saturating_add
Plus(a, b) == IF a + b > 2 ^ Width - 1 THEN 2 ^ Width - 1 ELSE a + b

Free(c) == {o \in 5 .. HostCount(c) :
              Contains(c, Plus(c.net, o)) /\ Plus(c.net, o) \notin Taken(c)}

\* The address a file asks for, or the first free one: a set of at most one.
LocalVips(c) ==
  IF c.local # Auto THEN {c.local}
  ELSE {Plus(c.net, o) : o \in {f \in Free(c) : \A g \in Free(c) : f <= g}}

-----------------------------------------------------------------------------
(* validate *)

\* ports_by_vip: no port twice at one address, in one row or in two.
PortsOnce(c) ==
  \A i, j \in DOMAIN c.rows :
    \A k \in DOMAIN c.rows[i].ports, m \in DOMAIN c.rows[j].ports :
      (/\ c.rows[i].vip = c.rows[j].vip
       /\ c.rows[i].ports[k] = c.rows[j].ports[m]) => <<i, k>> = <<j, m>>

RowsAccepted(c) ==
  /\ \A i \in DOMAIN c.rows : Contains(c, c.rows[i].vip) /\ c.rows[i].ports # <<>>
  /\ PortsOnce(c)
  /\ \A i, j \in DOMAIN c.rows :
       (c.rows[i].locator = c.rows[j].locator /\ c.rows[i].vip = c.rows[j].vip) => i = j

\* One packet client per port.
ClientsAccepted(c) == \A s, t \in c.clients : s.port = t.port => s = t

Accepted(c) ==
  /\ LocalVips(c) # {} /\ \A a \in LocalVips(c) : Contains(c, a)
  /\ RowsAccepted(c) /\ ClientsAccepted(c)

-----------------------------------------------------------------------------
(* L0Client::from_config: peers *)

\* Mutant: a row's key also fills the other ports of its address that have none.
KeyPortsFilled(r) == RowPorts(r) \cup {t.port : t \in conf.clients}

\* insert_peer_pgp_ports: only the ports the row lists.
KeyPorts(r) == RowPorts(r)

Keeps(i) == IF Row(i).loads THEN {Row(i).vip} \X KeyPorts(Row(i)) ELSE {}

\* A later row replaces an earlier one.
KeysOf ==
  [k \in UNION {Keeps(i) : i \in Rows} |->
     CHOOSE i \in Rows : k \in Keeps(i) /\ \A j \in Rows : k \in Keeps(j) => j <= i]

Refuse ==
  /\ phase = "read" /\ ~Accepted(conf)
  /\ phase' = "refused"
  /\ UNCHANGED <<conf, vip, keys, last>>

Start ==
  /\ phase = "read" /\ Accepted(conf)
  /\ phase' = "running"
  /\ vip' \in LocalVips(conf)
  /\ keys' = KeysOf
  /\ UNCHANGED <<conf, last>>

-----------------------------------------------------------------------------
(* A packet *)

\* overlay_ports, without channels and proxies.
Known ==
  LET listed == UNION {RowPorts(Row(i)) : i \in Rows}
  IN (IF listed = {} THEN DefaultPorts ELSE listed) \cup {t.port : t \in conf.clients}

\* overlay_channel_port: the known port of the two; none if both are.
ChannelPort(sport, dport) ==
  CASE sport \in Known /\ dport \in Known /\ sport # dport -> Nil
    [] sport \in Known /\ (dport \notin Known \/ sport = dport) -> sport
    [] sport \notin Known /\ dport \in Known -> dport
    [] OTHER -> Nil

First(S) == IF S = {} THEN Nil ELSE CHOOSE i \in S : \A j \in S : i <= j

ClientOf(i, port) == \E t \in conf.clients : t.port = port /\ t.eoa = Row(i).eoa

\* lookup_peer: the first row at the address that lists the port, or that a
\* packet client of that port names by its wallet.
LookupPeer(dest, port) ==
  IF dest = vip THEN Nil
  ELSE First({i \in Rows : Row(i).vip = dest
                  /\ (port \in RowPorts(Row(i)) \/ ClientOf(i, port))})

\* lookup_peer_for_target
RowsOfTarget(t) ==
  {i \in Rows : Row(i).eoa = t.eoa
       /\ (t.port \in RowPorts(Row(i)) \/ t.port \notin ServicePorts)}

\* lookup_client_target: the row a client of this daemon's own address means.
\* Nil stands for the daemon's own identity as well.
LookupClientTarget(port) ==
  First(UNION {RowsOfTarget(t) : t \in {s \in conf.clients : s.port = port}})

\* on_tun_frame, note_overlay_packet, prepare_overlay_post: without a locator
\* the packet is ignored; without keys for the address it went to, refused.
Outcome(dest, port, locator) ==
  IF port = Nil \/ (locator = Nil /\ dest # vip) THEN "ignored"
  ELSE IF <<dest, port>> \in DOMAIN keys THEN "sealed" ELSE "refused"

Packet(dest, sport, dport) ==
  /\ phase = "running"
  /\ LET port == ChannelPort(sport, dport)
         locator == IF port = Nil THEN Nil
                    ELSE IF dest = vip THEN LookupClientTarget(port)
                    ELSE LookupPeer(dest, port)
         outcome == Outcome(dest, port, locator)
     IN last' = [dest |-> dest, sport |-> sport, dport |-> dport,
                 locator |-> locator, outcome |-> outcome,
                 by |-> IF outcome = "sealed" THEN keys[<<dest, port>>] ELSE Nil]
  /\ UNCHANGED <<conf, phase, vip, keys>>

Next ==
  \/ Refuse \/ Start
  \/ \E dest \in Taken(conf) \cup {vip}, sport, dport \in Ports :
        Packet(dest, sport, dport)

Spec == Init /\ [][Next]_vars

-----------------------------------------------------------------------------
(* Properties *)

(* The address the daemon chooses for itself is one of the overlay and no   *)
(* peer's.  (select_local_vip)                                              *)
VipIsOwn ==
  (phase = "running" /\ conf.local = Auto) =>
    Contains(conf, vip) /\ \A i \in Rows : Row(i).vip # vip

(* A packet is sealed with the key of a row that lists its port, and where  *)
(* all rows of an address are one wallet's, the wallet noted for it is that *)
(* row's: the row lookup_peer finds first may be another, and is another    *)
(* wallet's where two share an address and a packet client names one of     *)
(* them.  (from_config, client.rs:444: a wallet has a key for each port)    *)
SealedToItsRow ==
  last.outcome = "sealed" =>
    /\ Row(last.by).vip = last.dest
    /\ RowPorts(Row(last.by)) \cap {last.sport, last.dport} # {}
    /\ (last.dest # vip /\ \A i, j \in Rows :
           (Row(i).vip = last.dest /\ Row(j).vip = last.dest) => Row(i).eoa = Row(j).eoa)
         => Row(last.locator).eoa = Row(last.by).eoa

(* Every row whose keys were read serves each port it lists at its address, *)
(* unless the file gave the daemon that address too.                        *)
RowsServe ==
  phase = "running" =>
    \A i \in Rows : (Row(i).loads /\ Row(i).vip # vip) =>
      \A p \in RowPorts(Row(i)) :
        /\ <<Row(i).vip, p>> \in DOMAIN keys
        /\ keys[<<Row(i).vip, p>>] = i
        /\ LookupPeer(Row(i).vip, p) # Nil

(* The answers of a flow are carried on the port of its requests.           *)
(* (overlay_channel_port)                                                   *)
FlowKeepsPort ==
  \A a, b \in Ports : ChannelPort(a, b) = ChannelPort(b, a)
=============================================================================
