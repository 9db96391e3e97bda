------------------------------- MODULE NetConfig -------------------------------
(***************************************************************************)
(* The network configuration of drivers/network.rs: NET_CONFIG, which the  *)
(* shell's set commands and the DHCP events of the stack change, what the  *)
(* stack's interface was told of it, and the dhcp command that waits for a *)
(* lease.                                                                  *)
(***************************************************************************)
EXTENDS Naturals, FiniteSets

CONSTANTS
    Addrs,      \* addresses; 0 stands for one a lease leaves out
    MASKBITS,   \* bits of an address (32)
    Masks,      \* netmasks users set, sequences of bits
    WAIT,       \* milliseconds dhcp_configure waits (8000)
    MAXLEASES   \* bound on the leases a server grants

ASSUME NetConfigOK ==
    /\ Addrs \subseteq Nat \ {0} /\ Addrs # {} /\ WAIT \in Nat \ {0}
    /\ MASKBITS \in Nat \ {0} /\ \A m \in Masks : m \in [1..MASKBITS -> {0, 1}]

VARIABLES
    cfg,        \* NET_CONFIG
    iface,      \* what the stack uses, once there is one
    dhcp,       \* the stack's DHCP socket (external)
    gen,        \* DHCP_CONFIG_GEN
    cmd,        \* the running dhcp command: its snapshot, time left, result
    asked       \* ghost: the configuration when the command began; whether a
                \* lease was granted since its reset

cfgVars == <<cfg, iface, dhcp, gen, cmd, asked>>

-----------------------------------------------------------------------------

\* STACK is Some.
HasStack == dhcp.state # "off"

\* prefix_len counts ones, wherever they stand; netmask() puts them in front.
PrefixLen(mask) == Cardinality({i \in DOMAIN mask : mask[i] = 1})
Netmask(prefix) == [i \in 1..MASKBITS |-> IF i <= prefix THEN 1 ELSE 0]

\* apply_config: the address, the default route and the DNS server.
ApplyConfig(c) ==
    IF ~HasStack THEN iface
    ELSE [ip |-> c.ip, prefix |-> PrefixLen(c.netmask), route |-> c.gateway, dns |-> c.dns]

\* network::init: without a card there is no stack.
NetInit ==
    /\ ~HasStack
    /\ iface' = [ip |-> cfg.ip, prefix |-> PrefixLen(cfg.netmask),
                 route |-> cfg.gateway, dns |-> cfg.dns]
    /\ dhcp' = [dhcp EXCEPT !.state = "discovering", !.changed = TRUE]
    /\ UNCHANGED <<cfg, gen, cmd, asked>>

\* set_ip, set_netmask, set_gateway, set_dns: reconfigure.
Reconfigure(field, value) ==
    /\ cmd.at = "idle"
    /\ cfg' = [cfg EXCEPT ![field] = value]
    /\ iface' = ApplyConfig(cfg')
    /\ UNCHANGED <<dhcp, gen, cmd, asked>>

-----------------------------------------------------------------------------
(* The DHCP socket (external): an event is pending when changed is set.    *)

\* A server's answer, after the whole exchange; while one is bound, a renewal.
Grant(lease) ==
    /\ HasStack /\ gen < MAXLEASES
    /\ dhcp.state = "bound" => lease # dhcp.lease
    /\ dhcp' = [state |-> "bound", changed |-> TRUE, lease |-> lease]
    /\ asked' = [asked EXCEPT !.granted = TRUE]
    /\ UNCHANGED <<cfg, iface, gen, cmd>>

Expire ==
    /\ dhcp.state = "bound"
    /\ dhcp' = [dhcp EXCEPT !.state = "discovering", !.changed = TRUE]
    /\ UNCHANGED <<cfg, iface, gen, cmd, asked>>

-----------------------------------------------------------------------------

\* The configuration a lease leaves; a router or server it has not is kept.
Leased(l) ==
    [ip |-> l.ip, netmask |-> Netmask(l.prefix),
     gateway |-> IF l.router = 0 THEN cfg.gateway ELSE l.router,
     dns |-> IF l.dns = 0 THEN cfg.dns ELSE l.dns]

\* drive: Configured is applied and counted, Deconfigured ignored.
Drive ==
    /\ dhcp' = [dhcp EXCEPT !.changed = FALSE]
    /\ IF dhcp.changed /\ dhcp.state = "bound"
       THEN cfg' = Leased(dhcp.lease) /\ iface' = ApplyConfig(cfg') /\ gen' = gen + 1
       ELSE UNCHANGED <<cfg, iface, gen>>

\* poll, from the shell waiting for a key or a fetch.
Poll == HasStack /\ cmd.at = "idle" /\ Drive /\ UNCHANGED <<cmd, asked>>

\* dhcp_configure: remember the count, restart the socket.
DhcpConfigure ==
    /\ cmd.at = "idle"
    /\ IF ~HasStack THEN cmd' = [cmd EXCEPT !.said = "unavailable"] /\ UNCHANGED <<dhcp, asked>>
       ELSE /\ cmd' = [at |-> "loop", snapshot |-> gen, left |-> WAIT, said |-> "none"]
            /\ dhcp' = [dhcp EXCEPT !.state = "discovering", !.changed = TRUE]
            /\ asked' = [before |-> cfg, granted |-> FALSE]
    /\ UNCHANGED <<cfg, iface, gen>>

\* The loop that looks at the count only in the next round.
DhcpLoopLate ==
    /\ cmd.at = "loop" /\ cmd.left > 0
    /\ Drive
    /\ cmd' = IF gen # cmd.snapshot THEN [cmd EXCEPT !.at = "idle", !.said = "ok"]
              ELSE [cmd EXCEPT !.at = "halt"]
    /\ UNCHANGED asked

\* A round before the deadline: poll, look at the count, halt.
DhcpLoop ==
    /\ cmd.at = "loop" /\ cmd.left > 0
    /\ Drive
    /\ cmd' = IF gen' # cmd.snapshot THEN [cmd EXCEPT !.at = "idle", !.said = "ok"]
              ELSE [cmd EXCEPT !.at = "halt"]
    /\ UNCHANGED asked

\* An interrupt ends the halt, the timer's or another.
Wake ==
    /\ cmd.at = "halt"
    /\ \E n \in {0, 1} : cmd' = [cmd EXCEPT !.at = "loop", !.left = @ - n]
    /\ UNCHANGED <<cfg, iface, dhcp, gen, asked>>

DhcpTimeout ==
    /\ cmd.at = "loop" /\ cmd.left = 0
    /\ cmd' = [cmd EXCEPT !.at = "idle", !.said = "timeout"]
    /\ UNCHANGED <<cfg, iface, dhcp, gen, asked>>

Leases == [ip : Addrs, prefix : 1..MASKBITS, router : Addrs \cup {0}, dns : Addrs \cup {0}]

\* NetConfig::default
DefaultConfig ==
    LET a == CHOOSE x \in Addrs : TRUE IN
    [ip |-> a, netmask |-> Netmask(MASKBITS - 1), gateway |-> a, dns |-> a]

ConfigInit ==
    /\ cfg = DefaultConfig
    /\ iface = [ip |-> 0, prefix |-> 0, route |-> 0, dns |-> 0] /\ gen = 0
    /\ dhcp = [state |-> "off", changed |-> FALSE, lease |-> 0]
    /\ cmd = [at |-> "idle", snapshot |-> 0, left |-> 0, said |-> "none"]
    /\ asked = [before |-> DefaultConfig, granted |-> FALSE]

ConfigNext ==
    \/ NetInit
    \/ \E a \in Addrs, field \in {"ip", "gateway", "dns"} : Reconfigure(field, a)
    \/ \E m \in Masks : Reconfigure("netmask", m)
    \/ \E l \in Leases : Grant(l)
    \/ Expire \/ Poll \/ DhcpConfigure \/ DhcpLoop \/ Wake \/ DhcpTimeout

ConfigSpec == ConfigInit /\ [][ConfigNext]_cfgVars

-----------------------------------------------------------------------------

\* The stack uses the configuration the net command shows, whoever changed it
\* last: a set command, a lease taken while the dhcp command waits, or one
\* that comes unasked.
IfaceInStep ==
    HasStack =>
        iface = [ip |-> cfg.ip, prefix |-> PrefixLen(cfg.netmask),
                 route |-> cfg.gateway, dns |-> cfg.dns]

\* dhcp_configure reports what happened.  It returns Ok only for a lease granted
\* after it restarted the socket, never for an earlier one, and the
\* configuration exec_dhcp prints then is that lease.  When it returns a
\* timeout the configuration is as it was: no lease that arrives in the last
\* round is applied and denied.
DhcpReportsTruth ==
    [][ cmd.at = "loop" =>
          /\ cmd'.said = "ok" =>
                /\ asked.granted
                /\ cfg'.ip = dhcp.lease.ip /\ PrefixLen(cfg'.netmask) = dhcp.lease.prefix
                /\ dhcp.lease.router \in {0, cfg'.gateway} /\ dhcp.lease.dns \in {0, cfg'.dns}
          /\ cmd'.said = "timeout" => cfg' = asked.before
      ]_cfgVars
=============================================================================
