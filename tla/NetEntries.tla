------------------------------ MODULE NetEntries ------------------------------
(***************************************************************************)
(* The TUN device, address, route and iptables entries of a packet-mode    *)
(* daemon, command by command: netops::install and uninstall, and the part *)
(* of start, stop and teardown (lifecycle.rs) that decides when they run   *)
(* and under which names.  One command runs at a time; Lifecycle has the   *)
(* processes that race.                                                    *)
(*                                                                         *)
(* The configuration file may be edited between two commands; a state file *)
(* remembers the names the daemon used.  (No flag of start turns packet    *)
(* mode on or off.)  ip and iptables are external: Allows and Effect say   *)
(* what they do with an entry.                                             *)
(***************************************************************************)
EXTENDS Naturals, Sequences, SequencesExt

CONSTANT
  Settings   \* records [files, mishaps]: what the configuration file may be,
             \* each a record [tun, chain, net, uid, mode], and what may go
             \* wrong, of FaultKinds

Mode == {"packet", "stream", "proxy"}

\* tool: a command of ip or iptables fails, or the state file cannot be
\* written.  crash: the daemon dies once its state is written.  early: or
\* before that.  edit: the file is edited.
FaultKinds == {"tool", "crash", "early", "edit"}

IsConfig(c) == c.mode \in Mode /\ c.uid \in BOOLEAN

EntriesAssumption ==
  \A s \in Settings :
    /\ \A c \in s.files : IsConfig(c)
    /\ s.mishaps \subseteq FaultKinds

VARIABLES
  setting,  \* of Settings
  config,   \* the configuration file
  saved,    \* the state file: the configuration it was written for, or NoState
  proc,     \* the command that runs
  host      \* the entries that exist

vars == <<setting, config, saved, proc, host>>

Configs == setting.files
Faults == setting.mishaps

NoState == [tun |-> "", chain |-> "", net |-> "", uid |-> FALSE, mode |-> "none"]

-----------------------------------------------------------------------------
(* Entries, and what ip and iptables do *)

Tables == {"filter", "mangle"}
Link(n) == <<"link", n.tun>>
Addr(n) == <<"addr", n.tun, n.net>>
Route(n) == <<"route", n.tun, n.net>>
Chain(t, n) == <<"chain", t, n.chain>>
Rule(t, n, match) == <<"rule", t, n.chain, match>>
Jump(t, hook, n) == <<"jump", t, hook, n.chain>>

\* Every entry with one of the names of n.
Mentions(n) ==
  {e \in host : \/ e[1] \in {"link", "addr", "route"} /\ e[2] = n.tun
                \/ e[1] \in {"chain", "rule"} /\ e[3] = n.chain
                \/ e[1] = "jump" /\ e[4] = n.chain}

RulesOf(chain) == {e \in host : e[1] = "rule" /\ e[2] = chain[2] /\ e[3] = chain[3]}
JumpsTo(chain) == {e \in host : e[1] = "jump" /\ e[2] = chain[2] /\ e[4] = chain[3]}
OnLink(link) == {e \in host : e[1] \in {"addr", "route"} /\ e[2] = link[2]}

\* When a command succeeds.  A route is refused while the same destination
\* has one, through whatever device; a chain that is not empty or is jumped
\* to cannot be deleted.
Allows(op, e) ==
  CASE op = "ensure" -> TRUE
    [] op = "up" -> e \in host
    [] op = "add" /\ e[1] = "link" -> e \notin host
    [] op = "add" /\ e[1] = "addr" -> <<"link", e[2]>> \in host /\ e \notin host
    [] op = "add" /\ e[1] = "route" ->
         <<"link", e[2]>> \in host /\ ~\E r \in host : r[1] = "route" /\ r[3] = e[3]
    [] op = "add" /\ e[1] = "rule" -> <<"chain", e[2], e[3]>> \in host
    [] op = "add" /\ e[1] = "jump" -> <<"chain", e[2], e[4]>> \in host
    [] op = "flush" -> e \in host
    [] op = "del" /\ e[1] = "chain" ->
         e \in host /\ RulesOf(e) = {} /\ JumpsTo(e) = {}
    [] OTHER -> e \in host

Effect(op, e) ==
  CASE op \in {"add", "ensure"} -> host \cup {e}
    [] op = "up" -> host
    [] op = "flush" -> host \ RulesOf(e)
    [] op = "del" /\ e[1] = "link" -> (host \ {e}) \ OnLink(e)
    [] OTHER -> host \ {e}

-----------------------------------------------------------------------------
(* netops::install and netops::uninstall, as the commands they run *)

\* A failed command is ignored, or ends install with its error.
Soft(op, e) == [op |-> op, entry |-> e, must |-> FALSE]
Hard(op, e) == [op |-> op, entry |-> e, must |-> TRUE]

TableSetup(t, n) ==
  <<Hard("ensure", Chain(t, n)), Soft("flush", Chain(t, n)),
    Hard("add", Rule(t, n, "dst")), Hard("add", Rule(t, n, "src"))>>
  \o (IF n.uid THEN <<Hard("add", Rule(t, n, "uid"))>> ELSE <<>>)

Hooks(n) ==
  <<Jump("filter", "OUTPUT", n), Jump("mangle", "OUTPUT", n),
    Jump("mangle", "PREROUTING", n)>>

InstallCommands(n) ==
  <<Soft("add", Link(n)), Hard("up", Link(n)), Soft("add", Addr(n)), Soft("add", Route(n))>>
  \o TableSetup("filter", n) \o TableSetup("mangle", n)
  \o [k \in 1 .. 3 |-> Hard("ensure", Hooks(n)[k])]

ChainRemoval(t, n) == <<Soft("flush", Chain(t, n)), Soft("del", Chain(t, n))>>

UninstallCommands(n) ==
  [k \in 1 .. 3 |-> Soft("del", Hooks(n)[k])]
  \o ChainRemoval("filter", n) \o ChainRemoval("mangle", n)
  \o <<Soft("del", Route(n)), Soft("del", Addr(n)), Soft("del", Link(n))>>

-----------------------------------------------------------------------------
(* The command that runs *)

\* job: what it does; then: what follows an uninstall; names: those of the
\* entries it works on; step: the next command; failed: one of its commands
\* failed though the host allowed it.
Idle == [job |-> "none", then |-> "none", cfg |-> NoState, names |-> NoState,
         step |-> 1, failed |-> FALSE]

Job == {"none", "install", "write", "run", "uninstall", "remove"}

Commands ==
  CASE proc.job = "install" -> InstallCommands(proc.names)
    [] proc.job = "uninstall" -> UninstallCommands(proc.names)
    [] OTHER -> <<>>

TypeOK ==
  /\ setting \in Settings
  /\ config \in Configs
  /\ saved \in Configs \cup {NoState}
  /\ proc \in [job : Job, then : {"none", "install", "exit", "unwind"},
               cfg : Configs \cup {NoState},
               names : Configs \cup {NoState}, step : 1 .. 18, failed : BOOLEAN]
  /\ proc.step <= Len(Commands) + 1
  /\ \A e \in host : e[1] \in {"link", "addr", "route", "chain", "rule", "jump"}

Init ==
  /\ setting \in Settings
  /\ config \in Configs
  /\ saved = NoState
  /\ proc = Idle
  /\ host = {}

\* Mutant: the names of the configuration, whatever the state file says.
TornDownNamesOfConfig(c) == c

\* uninstall: the names of the state file, else those of the configuration.
TornDownNames(c) == IF saved = NoState THEN c ELSE saved

\* teardown_inner: what it decides before the first command.
OwnsNetwork(c) ==
  /\ c.mode = "packet"
  /\ saved # NoState => saved.mode # "proxy"

TearDown(c, next) ==
  proc' = [job |-> IF OwnsNetwork(c) THEN "uninstall" ELSE "remove", then |-> next,
           cfg |-> c, names |-> TornDownNames(c), step |-> 1, failed |-> FALSE]

StartsWith(c) ==
  [job |-> IF c.mode = "packet" THEN "install" ELSE "write", then |-> "none",
   cfg |-> c, names |-> c, step |-> 1, failed |-> FALSE]

\* start: a state file is stale when no daemon runs, and torn down first,
\* under the configuration of this start.
Start ==
  /\ proc = Idle
  /\ IF saved = NoState THEN proc' = StartsWith(config) ELSE TearDown(config, "install")
  /\ UNCHANGED <<setting, config, saved, host>>

\* teardown, and what stop does when it finds no daemon or has waited for it.
Teardown ==
  /\ proc = Idle
  /\ TearDown(config, "exit")
  /\ UNCHANGED <<setting, config, saved, host>>

\* SIGINT, SIGTERM, stop's signal, or the end of the packet loop.
Leave ==
  /\ proc.job = "run"
  /\ TearDown(proc.cfg, "exit")
  /\ UNCHANGED <<setting, config, saved, host>>

Command == Commands[proc.step]

CommandWorks ==
  /\ proc.step <= Len(Commands)
  /\ Allows(Command.op, Command.entry)
  /\ host' = Effect(Command.op, Command.entry)
  /\ proc' = [proc EXCEPT !.step = @ + 1]
  /\ UNCHANGED <<setting, config, saved>>

\* run_ip(..).await? and the others of install end it; start returns the
\* error at once.
CommandFails ==
  /\ proc.step <= Len(Commands)
  /\ "tool" \in Faults \/ ~Allows(Command.op, Command.entry)
  /\ proc' = IF Command.must THEN Idle
             ELSE [proc EXCEPT !.step = @ + 1,
                               !.failed = @ \/ Allows(Command.op, Command.entry)]
  /\ UNCHANGED <<setting, config, saved, host>>

Finished == Commands # <<>> /\ proc.step = Len(Commands) + 1

\* unwind: start returns the error of the state file, which is left alone.
CommandsDone ==
  /\ Finished
  /\ proc' = IF proc.then = "unwind" THEN Idle
             ELSE [proc EXCEPT !.step = 1,
                               !.job = IF @ = "install" THEN "write" ELSE "remove"]
  /\ UNCHANGED <<setting, config, saved, host>>

RemoveState ==
  /\ proc.job = "remove"
  /\ saved' = NoState
  /\ proc' = IF proc.then = "install" THEN StartsWith(proc.cfg) ELSE Idle
  /\ UNCHANGED <<setting, config, host>>

WriteState ==
  /\ proc.job = "write"
  /\ saved' = proc.cfg
  /\ proc' = [proc EXCEPT !.job = "run"]
  /\ UNCHANGED <<setting, config, host>>

\* Uninstall under the state that could not be written, and return.
WriteFails ==
  /\ "tool" \in Faults
  /\ proc.job = "write"
  /\ proc' = IF proc.cfg.mode = "packet"
               THEN [proc EXCEPT !.job = "uninstall", !.then = "unwind"]
               ELSE Idle
  /\ UNCHANGED <<setting, config, saved, host>>

\* A crash or SIGKILL, of a command that is not a start too.
Crash ==
  /\ proc # Idle
  /\ \/ "crash" \in Faults /\ saved # NoState
     \/ "early" \in Faults
  /\ proc' = Idle
  /\ UNCHANGED <<setting, config, saved, host>>

Edit ==
  /\ "edit" \in Faults
  /\ config' \in Configs
  /\ UNCHANGED <<setting, saved, proc, host>>

Next ==
  \/ Start
  \/ Teardown \/ Leave
  \/ CommandWorks \/ CommandFails \/ CommandsDone
  \/ RemoveState \/ WriteState \/ WriteFails
  \/ Crash \/ Edit

Spec == Init /\ [][Next]_vars

-----------------------------------------------------------------------------
(* Properties *)

\* No command fails for a reason of its own, no daemon dies before it wrote
\* its state, and the file stays one for packet mode.
Recorded ==
  Faults \subseteq {"crash", "edit"} /\ \A c \in Configs : c.mode = "packet"

\* Crashes after the state was written, names edited in the file, teardowns
\* that are cut short and repeated: what is on the host without a daemon is
\* covered by a state file, so that a start or a teardown finds it.
NoOrphans == Recorded /\ proc = Idle /\ saved = NoState => host = {}

\* And a daemon that runs has every entry, under its names.
RunningComplete ==
  Recorded /\ proc.job = "run" =>
    \A k \in DOMAIN InstallCommands(proc.cfg) :
      InstallCommands(proc.cfg)[k].entry \in host

\* Whatever partial installation, failed removal or crash came before, an
\* uninstall no command of which fails for a reason of its own leaves nothing
\* under the names it works on.
UninstallCleans ==
  proc.job = "uninstall" /\ Finished /\ ~proc.failed => Mentions(proc.names) = {}

\* And a daemon that runs has every entry that install insists upon, over
\* whatever was left.
RunningUsable ==
  proc.job = "run" /\ proc.cfg.mode = "packet" =>
    \A k \in DOMAIN InstallCommands(proc.cfg) :
      LET cmd == InstallCommands(proc.cfg)[k]
      IN cmd.must => cmd.entry \in host
=============================================================================
