------------------------------- MODULE Daemon -------------------------------
(***************************************************************************)
(* The start of netplayd: options, the pid file, DPDK, the ports of the    *)
(* interfaces and a writer thread per core.  What the writers and the      *)
(* monitor do then is in Pipeline.                                         *)
(***************************************************************************)
EXTENDS Integers, Sequences, FiniteSets, SequencesExt, FiniteSetsExt

CONSTANTS
  Daemons,   \* processes that run netplayd, by their pids
  Cores,     \* cores of writers, numbers
  Ifaces,    \* interfaces
  Queues,    \* num_inc_q and num_out_q of a BESS port
  None,      \* no process, or no value
  MaxExits   \* bound on the processes that end

ASSUME DaemonAssumption ==
  /\ Cores \subseteq Nat /\ IsFiniteSet(Cores) /\ Queues \in Nat /\ MaxExits \in Nat
  /\ None \notin Daemons /\ Daemons \cap {"absent", "empty"} = {} /\ IsFiniteSet(Daemons)

VARIABLES
  lock,   \* the process that has locked the pid file
  file,   \* what the pid file says
  inst,   \* the processes
  exits   \* how many have ended

daemonVars == <<lock, file, inst, exits>>

-----------------------------------------------------------------------------
(* Options                                                                 *)

\* parse_writer_mapping: the last interface given for a core counts; one that is
\* missing is an exit.
parse_writer_mapping(mapping, pairs) ==
  FoldLeft(LAMBDA m, p : [m EXCEPT ![p.core] = p.iface], mapping, pairs)

\* The switch of main: "l" runs on into "m", so that the log directory is also
\* taken for the core, and without an argument atoi(NULL) crashes.
OneOption(c, o) ==
  CASE o.opt = "p" -> [c EXCEPT !.pidfile = TRUE]
    [] o.opt = "l" -> [c EXCEPT !.master_core = 0, !.ok = @ /\ o.arg # None]
    [] o.opt = "m" -> [c EXCEPT !.master_core = o.arg]
    [] o.opt = "w" -> IF \E i \in 1..Len(o.arg) : o.arg[i].iface = None
                        THEN [c EXCEPT !.ok = FALSE]
                        ELSE [c EXCEPT !.mapping = parse_writer_mapping(@, o.arg)]

\* The options and the one argument, the virtual switch.
ParseOptions(args) ==
  FoldLeft(OneOption, [ok |-> args.vswitch # None, pidfile |-> FALSE, master_core |-> 0,
                       mapping |-> [c \in Cores |-> None], vswitch |-> args.vswitch], args.opts)

-----------------------------------------------------------------------------
(* Ports                                                                   *)

\* The calls of each initializer in their order; any of them may fail, which is
\* an exception that nothing catches.
ovs_ring_init == <<"rx ring", "tx ring", "rte_eth_from_rings", "rx queue", "tx queue">>
bess_ring_init ==
  <<"port file", "bar", "rte_eth_from_rings", "configure">>
    \o [i \in 1..Queues |-> "rx queue"] \o [i \in 1..Queues |-> "tx queue"]

vport_init(vswitch) == IF vswitch = "ovs" THEN ovs_ring_init ELSE bess_ring_init

-----------------------------------------------------------------------------
(* Processes                                                               *)

\* A process that has not been started yet, with the arguments it will get, or None.
Process(args) ==
  [pc |-> "new", args |-> args, conf |-> ParseOptions([opts |-> <<>>, vswitch |-> None]), told |-> None, todo |-> <<>>,
   port |-> [i \in Ifaces |-> 0], writers |-> {},
   start_pkts |-> 0, epoch_pkts |-> 0]

DaemonInit(args) ==
  /\ lock = None
  /\ file = "absent"
  /\ inst = [d \in Daemons |-> Process(args[d])]
  /\ exits = 0

Goto(d, pc) == inst' = [inst EXCEPT ![d].pc = pc]

Alive(d) == inst[d].pc \notin {"new", "ended"}

\* main() up to the pid file; daemon() forks before it.
ReadOptions(d) ==
  LET c == ParseOptions(inst[d].args)
  IN  /\ inst[d].pc = "new" /\ inst[d].args # None
      /\ inst' = [inst EXCEPT ![d].conf = c,
                    ![d].pc = IF ~c.ok THEN "ended" ELSE IF c.pidfile THEN "open" ELSE "dpdk"]
      /\ UNCHANGED <<lock, file, exits>>

\* Mutant: the file is truncated when it is opened.
OpenTruncating(d) ==
  /\ inst[d].pc = "open" /\ Goto(d, "flock")
  /\ file' = "empty"
  /\ UNCHANGED <<lock, exits>>

\* open() creates the file.
OpenPidfile(d) ==
  /\ inst[d].pc = "open" /\ Goto(d, "flock")
  /\ file' = IF file = "absent" THEN "empty" ELSE file
  /\ UNCHANGED <<lock, exits>>

\* flock() does not wait; if the lock is taken, the pid in the file is reported,
\* should there be one.
LockPidfile(d) ==
  /\ inst[d].pc = "flock"
  /\ IF lock = None THEN lock' = d /\ Goto(d, "truncate")
                    ELSE lock' = lock /\ Goto(d, "refused")
  /\ UNCHANGED <<file, exits>>

ReportPid(d) ==
  /\ inst[d].pc = "refused"
  /\ inst' = [inst EXCEPT ![d].pc = "ended", ![d].told = file]
  /\ UNCHANGED <<lock, file, exits>>

TruncatePidfile(d) ==
  /\ inst[d].pc = "truncate" /\ Goto(d, "write")
  /\ file' = "empty"
  /\ UNCHANGED <<lock, exits>>

WritePidfile(d) ==
  /\ inst[d].pc = "write" /\ Goto(d, "dpdk")
  /\ file' = d
  /\ UNCHANGED <<lock, exits>>

\* redirect_output, init_dpdk with init_eal and find_secondary_mempool, and the
\* entry of netplay_daemon::start, which goes through the cores in order.
InitDpdk(d) ==
  /\ inst[d].pc = "dpdk" /\ inst[d].conf.vswitch \in {"ovs", "bess"}
  /\ inst' = [inst EXCEPT ![d].pc = "start",
                ![d].todo = SetToSortSeq({c \in Cores : inst[d].conf.mapping[c] # None}, <)]
  /\ UNCHANGED <<lock, file, exits>>

\* main() returns for another switch.
Unsupported(d) ==
  /\ inst[d].pc = "dpdk" /\ inst[d].conf.vswitch \notin {"ovs", "bess"}
  /\ Goto(d, "ended")
  /\ lock' = IF lock = d THEN None ELSE lock
  /\ UNCHANGED <<file, exits>>

NextIface(d) == inst[d].conf.mapping[Head(inst[d].todo)]
Calls(d) == Len(vport_init(inst[d].conf.vswitch))

\* Mutant: a port is made for each writer.
OpenPortAgain(d) ==
  /\ inst[d].pc = "start" /\ inst[d].todo # <<>>
  /\ inst' = [inst EXCEPT ![d].port[NextIface(d)] =
                IF @ = Calls(d) /\ \E c \in inst[d].writers : inst[d].conf.mapping[c] = NextIface(d)
                  THEN 1 ELSE @ + 1]
  /\ UNCHANGED <<lock, file, exits>>

\* The next call that makes the port of an interface not met before.
OpenPort(d) ==
  /\ inst[d].pc = "start" /\ inst[d].todo # <<>>
  /\ inst[d].port[NextIface(d)] < Calls(d)
  /\ inst' = [inst EXCEPT ![d].port[NextIface(d)] = @ + 1]
  /\ UNCHANGED <<lock, file, exits>>

\* pthread_create: the writer polls from now on, while later ports are still made.
StartWriter(d) ==
  /\ inst[d].pc = "start" /\ inst[d].todo # <<>>
  /\ inst[d].port[NextIface(d)] = Calls(d)
  /\ inst' = [inst EXCEPT ![d].writers = inst[d].writers \cup {Head(inst[d].todo)},
                ![d].todo = Tail(inst[d].todo)]
  /\ UNCHANGED <<lock, file, exits>>

Startup(d) ==
  \/ ReadOptions(d) \/ OpenPidfile(d) \/ LockPidfile(d) \/ ReportPid(d) \/ TruncatePidfile(d)
  \/ WritePidfile(d) \/ InitDpdk(d) \/ Unsupported(d) \/ OpenPort(d) \/ StartWriter(d)

\* The process ends: a call of the start fails, bench() returns, or it is killed.
\* Its lock goes with it, the contents of the file do not.
End(d) ==
  /\ Alive(d) /\ exits < MaxExits
  /\ inst' = [inst EXCEPT ![d].pc = "ended", ![d].writers = {}]
  /\ lock' = IF lock = d THEN None ELSE lock
  /\ exits' = exits + 1
  /\ UNCHANGED file

=============================================================================
