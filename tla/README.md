# Networking Recipe: a TLA+ verification project

This project models the part of the Networking Recipe that carries its own
logic: **ovs-p4rt**, the library inside `ovs-vswitchd` that turns what Open
vSwitch learns (MAC addresses, tunnels, VLANs, ports) into match-action table
entries, and programs them through the P4Runtime server of `infrap4d`.  Around
it: the start-up of the **infrap4d** daemon, and **p4rt_perf_test**, a
multi-threaded client with the same sessions.

## The system

| Component | State | Operations | Interacts with |
|---|---|---|---|
| Session (`sidecar/session`, `sidecar/client`) | one gRPC channel and arbitration stream per API call; election id; role | connect (arbitrate), get the pipeline's P4Info, read, write, close | P4Runtime server; every API |
| FDB programming (`core/v3/es2k_config_fdb_entry.cc`) | none of its own: the tables of the switch, a copy of `learn_info` | learn / forget a MAC address: 2 to 5 RPCs | session, encoders, `TX_ACC_VSI_TABLE` |
| Tunnel programming (`core/v3/es2k_config_tunnel_entry.cc`) | none of its own | create / remove a tunnel: 3 writes | session, encoders |
| VLAN, source-port, RX-tunnel and IP/MAC-map programming (`core/v3/do_config_*.cc`) | none of its own | one to four RPCs each | session, encoders |
| Encoders (`core/v3/es2k_encoders.cc`, `core/common/ovsp4rt_encode_utils.*`) | none: pure functions | input structure to table, key, action | all of the above |
| DPDK variants (`core/v3/dpdk_*.cc`) | none of its own | FDB: 1 or 2 writes; tunnels: 2 writes; nothing is read | session, DPDK encoders |
| Version 1 of the core (`core/v1/ovsp4rt.cc`), the default build | none of its own | the same APIs in one file, for both targets, with its own encoders | session |
| Version 2 of the core (`core/v2`) | none of its own | between versions 1 and 3 | session |
| C API (`core/api`), journal, logging, stubs, spies | a journal file, log lines | wrap the calls | OVS |
| `infrap4d` (`infrap4d_main.cc`, `daemon/daemon-unix.c`) | start-up pipe, exit statuses | daemonize, create the krnlmon thread, run Stratum | the user's shell; krnlmon, Stratum (submodules) |
| `p4rt_perf_test` | threads and their status | divide entries among threads, one session and one request each | P4Runtime server |
| Other clients (`gnmi-ctl`, `p4rt-ctl`, `sgnmi_cli`) | none that lasts | one or a few RPCs per command | gNMI and P4Runtime servers |

OVS calls the API functions from its handler, revalidator and main threads.
There is no lock and no state shared between calls inside the library: **all
coordination happens in the P4Runtime server**, through election ids, and in
the tables.  That is where this code is hard:

* *interleaving*: a call makes up to five RPCs, and the RPCs of another
  thread's call may come between any two of them;
* *primacy*: each call opens a session of its own; the server takes writes only
  from the session with the highest election id it has seen, so a call can lose
  the right to write in the middle of its work;
* *ignored statuses*: the FDB call never looks at the status of a write, and
  the status of `GetForwardingPipelineConfig` is dropped;
* *no undo*: a call that fails half-way leaves what it wrote;
* *versions*: the build picks one of three cores that were refactored by hand;
* *keys narrower than identities*: some tables are keyed by the MAC address or
  by the VNI alone, and several values are cut to 8, 16, 20 or 24 bits.

`PROJECT.json` lists the hazards one by one with the line where each bites and
the property that covers it.

What makes each component correct:

* session: calls that overlap never present the same election id, so none gets
  stuck because of another;
* FDB: a MAC address is known to the switch completely or not at all; "OK"
  means that the work is done; a delete recognises the kind of entry;
* tunnels: "OK" means complete; a packet that a termination entry accepts finds
  its decapsulation entry;
* small APIs: what one call inserts, the delete of the same arguments removes,
  and nothing else;
* encoders: insert and delete of the same argument name the same key;
* DPDK: "OK" means complete; the two tables of a VLAN address agree on its port;
* version 1: what it does to the switch, version 3 may do;
* daemon: the foreground process always ends; when it reports a failure no
  daemon is left behind;
* `p4rt_perf_test`: the threads' shares cover the entries; the error of a thread
  is passed on; the threads of a run do not get each other stuck.

## Modules

| Module | Models |
|---|---|
| `P4rtTables` | tables as the server exposes them (**external**: Stratum and the target driver are submodules whose code is not here). At most one entry per key; INSERT of an existing key and DELETE of a missing one fail; a request without table id or, for INSERT, without action id is refused. |
| `OvsP4rtSession` | a session: `BeginSession` (`Client::connect`, election id), `Arbitrate`/`ArbitrationFails` (`OvsP4rtSession::Create`), `GetPipelineConfig`, `SendReadRequest`, `SendWriteRequest`, `EndSession`; the server's arbitration (**external**) |
| `Es2kEncoders` | every encoder of `es2k_encoders.cc`: table, key fields, action and parameters with their widths |
| `Es2kTxAccVsi` | the lookup of a VSI's host port in `TX_ACC_VSI_TABLE`, a constant function: the library reads that table and never writes it |
| `Es2kConfigFdb` | `ovsp4rt_config_fdb_entry` on ES2K, one action per RPC |
| `Es2kConfigTunnel` | `ovsp4rt_config_tunnel_entry` on ES2K, one action per RPC |
| `Es2kConfigPorts` | the VLAN, source-port, tunnel source-port, RX-tunnel and IP/MAC-map calls on ES2K, one action per RPC |
| `Es2kConfigFdb_proofs`, `Es2kFdbService_proofs`, `Es2kConfigTunnel_proofs`, `Es2kConfigPorts_proofs`, `DpdkConfig_proofs`, `Daemon_proofs`, `P4rtPerfTest_proofs` | the inductive invariants and the theorems about the modules they are named after |
| `V1_proofs` | that each call of version 1 implements version 3 of it, and so has what is proved of version 3; `HostPortMapped` |
| `FdbService` | what `ovsp4rt_config_fdb_entry` promises to OVS: an FDB in which an address is learned and forgotten in one step |
| `Es2kFdbService` | the refinement mapping from `Es2kConfigFdb` to `FdbService` |
| `DpdkEncoders`, `DpdkConfig` | the encoders and the two calls of DPDK, one action per RPC |
| `V1Encoders` | the encoders of version 1; the constant `Target` does what the preprocessor does |
| `V1TxAccVsi` | how version 1 puts a VSI's host port together from bytes |
| `V1ConfigFdb`, `V1DpdkFdb`, `V1ConfigTunnel`, `V1ConfigPorts` | the calls of version 1, each with an instance `V3` of version 3 |
| `Daemon` | the start-up of `infrap4d`: parent, child and krnlmon thread |
| `P4rtPerfTest` | `p4rt_perf_test` |
| `MCFdb`, `MCFdbRace`, `MCFdbOdd`, `MCTunnel`, `MCPorts`, `MCDpdk`, `MCV1`, `MCPerf` | instances for TLC |

`Es2kConfigFdb` and `Es2kConfigPorts` extend `OvsP4rtSession` (which extends
`P4rtTables`) and `Es2kTxAccVsi` (which extends `Es2kEncoders`);
`Es2kConfigTunnel` and `DpdkConfig` extend the session and their encoders, and
`P4rtPerfTest` the session.  Version 1 is the default of the build; version 3
splits it by API and is the one whose invariants are proved.  The two are related
by refinement, so that what holds of the tables under version 3 holds under
version 1, which is what the default build runs:

    version 1 of each call  =>  version 3 of it;   Es2kConfigFdb  =>  FdbService

### State and actions

`pc[t]` is the step a thread's call has reached; `electionId`, `p4info`,
`insert`, `info` are the locals of that call (the session's id, whether the
P4Info was obtained, `insert_entry`, and the call's own copy of
`learn_info`/`tunnel_info`, which `UpdateFdbTunnelInfo` and
`UpdateFdbSrcPortInfo` change).  `streams`, `highest` and `entries` are the
server's.  Encoding is local to a thread and is part of the action of the RPC
that sends its result.

An RPC is one atomic action, for the server processes it atomically.  A read
succeeds or fails; a failed read of an existing key is possible (a broken
connection).  A write is refused, applied, lost, or *applied with its response
lost*.  If `GetForwardingPipelineConfig` fails, `p4info[t]` is `FALSE` and every
later request names table -1, which the server refuses.

IPv4 addresses are sequences of four bytes in the order of memory.  The
IP/MAC-map call compares them as integers of the host with `INADDR_LOOPBACK` and
its like (`ValidIpAddr`); on the little-endian targets of the recipe that
constant is the address 1.0.0.127, so 127.0.0.1 passes for valid.  The model
says what the code does.

P4 sessions are arbitrated as the P4Runtime specification has it and the code
relies on: an id in use by an open stream is refused (or the request is never
answered: `Answered`), the primary is the holder
of the highest id ever seen, and a stream closed by the client is noticed by the
server some time later (`StreamClosed`).

### The history variables

`disturbed` collects the MAC addresses (VNIs) for which the all-or-nothing
promise *cannot* hold, because something happened that the code does not
handle.  For FDB: two calls on the address overlapped; a call named it on a
second bridge; a read failed although the key exists; a write had no effect
although the session was primary, or had been for an earlier write of the same
call (loss of primacy in the middle).  `wrote[t]` says whether the call has
issued a write as the primary.  The guards never look at these variables; they
only delimit the properties.  Calls that never were primary, calls without
P4Info and calls with unsupported arguments do **not** disturb, and the
properties cover them.  For tunnels: overlapping calls on the VNI; a call on a
VNI of which the tables hold an entry of another tunnel; a delete that fails
after its first effect.

The smaller calls have three: `touched[t]` (another call changed an entry under
one of this call's keys), `lost[t]` (the session was primary, the server would
have accepted the write, and it had no effect) and `broken` (VLAN keys on which
calls overlapped, or that a delete left half removed).

`DpdkConfig` has `touched`, and `broken` for MAC addresses on which calls
overlapped or of which a failed delete left the RX entry alone.

### Version 1

A call of version 1 has the actions of version 3 with two differences.  Its FDB
function has no result (`status` keeps what it knew at its return), and it reads
the TX table in two places; `V3pc` maps both to version 3's one.  The encoders
are translated from `v1/ovsp4rt.cc` alone, so the refinement compares two
independent translations, entry by entry, for every type, family and vlan mode.
The history variables are those of version 3, updated by its operators.

`ovsp4rt_config_fdb_entry` and `ovsp4rt_config_src_port_entry` take the port from
the bytes of an action parameter: `PortTable` is the table as version 3 reads it.
The refinement is checked and proved for parameters of four bytes (`PortParams`).
The code takes four bytes whatever the length; an entry with another action gives port 0 in version 1
and an error in version 3 (no such entry is among the inputs).  `CharSigned` is
`FALSE` in the runs: see "Known differences".

### The FDB service

`FdbService` has a map from MAC addresses to what is known of them, and requests.
`Es2kFdbService` maps a partial set of entries of an address with a call in
progress to "unknown": an insert takes effect with its last write, a delete with
its first.  Addresses in `disturbed` are `lost`, and the service loses an address
only while a call on it is in progress.  It checks what `FdbAllOrNothing` cannot
see: that entries come and go only through a call that asked for it, that a
learned address has the entries of *that* call, and that a call never touches
another address.

### The daemon

`pc`, `exit` and the two ends of the pipe per process; a process can be killed at
any step.  `pipe` and `fork` can fail, which the code only prints: after a failed
`pipe` the descriptors are uninitialised, so `read_fully` returns a byte, an
error, or blocks, as the model chooses.  A failed `fork` sends the process down
the child's branch.  Fairness: a process that can take a step of its start-up
takes it; serving, signals and shutdown are not fair.

### p4rt_perf_test

The threads of `main` use the session module (the program has its own copy of
that code, the thread id in the election id included).  One request carries all
entries of a thread; the server does any subset of the updates it can, and
reports an error unless it did all.  `Run` can start the program again, with the
table and the server's streams as the run before left them.

## Runs

| Run | Instance | Shows |
|---|---|---|
| `fdb_race` | 2 threads; 2 MACs of two kinds, or 1 MAC as both | all interleavings of two calls: `FdbAllOrNothing`, `FdbReturnTruthful`, `LiveIdsDiffer`, `DeleteClassifies`, `FdbTypeOK`, and `ImplementsFdbService` |
| `fdb_odd_inputs` | 1 thread with all shapes of argument; or 2 threads, 2 seconds, 1 MAC; fairness | the inductive invariant `FdbInv`, `FdbReturnTruthful` and `ImplementsFdbService` with a second bridge, a VSI without host port, an unknown tunnel type, mixed families; `CallsReturn` with two threads |
| `tunnel` | 2 threads, 5 offers of 2 tunnels | `TunnelStatusTruthful`, `TerminationBacked`, `TunnelTypeOK` for every type, family and vlan mode, with shared and aliased VNIs |
| `ports` | 2 threads, 3 offers | `PopBacked` (a popped tag was pushed), `PortsStatusTruthful`, `PortsTypeOK`, `IpMacMapDone` (the call ignores every status and still does its work when it is primary and undisturbed) |
| `dpdk` | 2 threads, 2 offers | `RxMatchesTx`, `DpdkStatusTruthful`, `DpdkTypeOK` |
| `v1` | 9 parts: each call of version 1, on each target | `ImplementsV3Fdb`, `ImplementsV3Tunnel`, `ImplementsV3Dpdk`, `SmallerImplementV3` (`ImplementsV3Ports` in its parts), `HostPortMapped` |
| `daemon` | parent and child, all failures | `ForegroundReturns`, `FailureMeansNoDaemon`, `ReaderReleased` |
| `perf_test` | 2 threads, 3 entries, 2 runs, fairness | `SharesCover`, `SuccessMeansSent`, `RunEnds` |
| `pipeline_errors` | 1 thread | *violation*: a failed fetch of the P4Info ends in OK |
| `election_ids` | 2 threads | *violation*: ids do not increase monotonically within a second |
| `fdb_two_bridges` | 1 thread | *violation*: a VLAN delete is mistaken for a tunnel delete |
| `daemon_success` | parent and child | *violation*: success is reported before the switch is initialised |

**Offers and parts.**  Some runs ask one question of several sets of arguments.
In `MCFdbRace`, `MCTunnel`, `MCPorts` and `MCDpdk` the variable `offer` is chosen
once, and a behaviour has only the arguments of its offer: the specification is
otherwise unchanged, and the sets are grouped so that arguments which share
tables and keys are in one offer.  In `MCFdbOdd` the variable `callers` says in the
same way which threads make calls.  In `MCV1` the variable `part` chooses the
function, the target and the number of threads: the smaller calls are those of
`V1ConfigPorts`, which it extends, by API, and the other parts are instances of
the version 1 modules on the same variables.

**Bounds.**  `MaxClock` bounds the seconds.  One second suffices for the race
runs: within a second the order of ids is the order of thread ids, so both
"the later call is primary" and "the later call is not" happen, and a thread
that makes two calls in one second presents the same id twice.  Two seconds
in `perf_test` and in the two-thread part of `fdb_odd_inputs` let a thread have
different ids; a thread that is alone is the primary in any second, so that part
has one.  Two threads
make every pairwise interleaving; the properties relate at most two calls.  Every
loop of the code is over the RPCs of one call, so nothing else needs a bound
there.  Ports beyond 255 and VNIs beyond 2^8, 2^20 and 2^24 are among the inputs
so that the truncations happen.  `perf_test` has `MaxRuns` 2 and `TotNumEntries`
3, which two threads cannot share evenly; the second run finds what a failed
first one left.  The daemon has no bound: its 288 states are all there are.

**Fairness.**  `Fairness` is weak fairness of `CallStep(t)` while the server owes
the thread an answer (`Answered`): gRPC reports a broken connection, and a
connected server answers.  The code sets no deadline on any RPC, so this is an
assumption on gRPC and the server, not something the library ensures.  It is not
made for a session that asks for the election id of an open stream: the comment in
`OvsP4rtSession::Create` (`ovsp4rt_session.cc:118-129`) says that this leaves the
thread "stuck", and so may it be in the model, for ever.  Starting a call, the
clock and the server's notice of closed streams are not fair either.

`CallsReturn` then says what the thread id in the election id is there for: a call
whose id is not in use returns, whatever sessions the other threads open before
its request arrives.  With the seconds alone as the id (the mutant) the thread
that comes second is stuck.  It does not say that every call returns: a thread
that makes two calls in one second presents its own id again, and may get stuck if
the server still holds the first stream.  `RunEnds` is the same for the threads of
`p4rt_perf_test`, whose copy of the comment is at `p4rt_perf_session.cc:90-101`: a
run that starts when no stream is left of an earlier one ends.  It also assumes
that `main` goes on.  `Daemon` assumes that processes which can run do.

**Deadlock** is checked except for `Daemon` and `MCPerf`, which end.

## Findings

* **Election ids do not increase.**  `TimeBasedElectionId` says that its ids
  increase monotonically and are "guaranteed to be higher than any previous
  election ID".  They have whole seconds in the upper half, and `Create` adds the
  thread id to the lower half: of two sessions of one second the later one has
  the lower id whenever its thread id is lower, never becomes primary, and its
  writes are refused -- silently, in the FDB call.
* **A VLAN delete mistaken for a tunnel delete.**  `UpdateFdbTunnelInfo` looks
  for the MAC address in tables that are keyed by the MAC address alone.  If the
  address is a tunnel entry on another bridge, the delete of the VLAN entry takes
  the tunnel path and removes the L2-to-tunnel entry of the other bridge.
* **A pipeline error that is not reported.**  `GetForwardingPipelineConfig`
  (`ovsp4rt_session.cc:144`) turns the status of its RPC into a local variable
  and returns OK.  Every caller checks the result, and a test expects the call to
  return the error (with a mock in place of this function).  With an empty P4Info
  all writes are refused, and the FDB call, which ignores their status, returns
  OK.
* **Success before start-up.**  `daemonize_start` says that its parent waits
  until the child "completed startup successfully"; `infrap4d_main.cc:27` calls
  `daemonize_complete` before it starts krnlmon and Stratum, so the user's shell
  gets exit status 0 for a daemon that then fails to start.

### Known differences

These follow from the models too, with the constants or actions named, and have
no run of their own:

* Version 1 puts a host port together with `host_sp << 8 | int(s2[i])`
  (`v1/ovsp4rt.cc:2566`).  Where `char` is signed, a byte of 0x80 or more covers
  the bytes before it.  With `CharSigned = TRUE` the assumption `PortParams` of
  `MCV1` is false and, without it, the run `v1` refutes
  `HostPortMapped` and the refinement; version 3 masks the bytes.
* On DPDK the FDB entry carries 8 bits of the VNI and the encapsulation table is
  keyed by 24 (`dpdk_encoders.cc:111`; a known anomaly according to
  `ovsp4rt-encoding-anomalies.md`): from VNI 256 on, packets for an address behind
  one tunnel can leave on another.  The encoders are modelled with these widths; no
  property says that packets stay on their tunnel.
* After a failed `fork` the process runs the switch in the foreground
  (`ForkFails`), where the comment of `fork_and_clean_up` says that it exits.
* `SimpleL2DemoTest` drops the status of its request, so `p4rt_perf_test` exits
  with SUCCESS when the switch refused the entries; `SuccessMeansSent` says what
  SUCCESS does mean.

## Proofs

Every invariant of the passing runs is a theorem for all values of the constants,
and so are the refinements
`ImplementsFdbService` and `ImplementsV3Fdb`, `-Tunnel`, `-Dpdk`, `-Ports`.

| Module | Proved of its specification | Inductive invariant |
|---|---|---|
| `Es2kConfigFdb_proofs` | `FdbTypeOK`, `FdbAllOrNothing`, `FdbReturnTruthful`, `LiveIdsDiffer`, `DeleteClassifies` | `FdbInv` |
| `Es2kFdbService_proofs` | `ImplementsFdbService` | `FdbInv`, `MacInv` |
| `Es2kConfigTunnel_proofs` | `TunnelTypeOK`, `TunnelStatusTruthful`, `TerminationBacked` | `TunnelInv` |
| `Es2kConfigPorts_proofs` | `PortsTypeOK`, `PortsStatusTruthful`, `IpMacMapDone`, `PopBacked` | `PortsInv` |
| `DpdkConfig_proofs` | `DpdkTypeOK`, `DpdkStatusTruthful`, `RxMatchesTx` | `DpdkInv` |
| `Daemon_proofs` | `FailureMeansNoDaemon`, `ReaderReleased` | `DaemonInv` |
| `P4rtPerfTest_proofs` | `SharesCover`, `SuccessMeansSent` | `PerfInv` |
| `V1_proofs` | `ImplementsV3Fdb`, `ImplementsV3Tunnel`, `ImplementsV3Dpdk` (both calls), `ImplementsV3Ports`; hence, of version 1, all the properties of version 3 above but the type invariants; `HostPortMapped` | `FdbControl`, `NoDecap`, `PortsControl`, `HostPortInv` |

### Assumptions

All are about the constants, and TLC evaluates them in the runs:

* `ThreadIdAssumption`: thread ids are naturals and differ, as `pthread_self` does
  for live threads; `MaxClockAssumption`.
* `InfosAssumption`, `TunnelInfosAssumption`, `PortsAssumption`,
  `DpdkInfosAssumption`: arguments are well typed.  A delete of an FDB entry has
  `is_tunnel` unset and no IPv6 families, as OVS's caller leaves them; on DPDK a
  MAC address is behind a tunnel in all calls or in none.
* `TxAccVsiAssumption`: host ports are naturals, keys one byte.
* `PerfAssumption`: 1 to 8 threads, which is what `ValidateInput` lets through,
  numbered from 0.
* `PortParams`, for version 1's FDB and smaller calls on ES2K: each entry of
  `TX_ACC_VSI_TABLE` has a port of four bytes and, where `char` is signed, one
  whose last byte is below 128.  Without it version 1 does not implement version
  3 ("Known differences").  `TxAccVsiAssumption` follows from it.

`MCV1` extends `V1ConfigPorts` and has the other modules of version 1 as
instances, so its assumption `MCAssumptions` states these for each of them, with
the constants it is given.

One theorem has a hypothesis of its own, without which it is false:

* `TerminationIsBacked` (`TerminationBacked`) needs that no two tunnels have the
  same termination entry, one in the native tagged mode and one not.  The
  termination entry says which decapsulation table comes next, the key of both
  tables leaves the vlan mode out, and `PrepareDecapTableEntry` picks the table by
  the mode: a tunnel of the mode `ACCESS` or `TRUNK` has the termination entry of
  a tagged tunnel and its decapsulation entry in the table for untagged ones (the
  hazard at `es2k_config_tunnel_entry.cc:160`).

The instance `MCTunnel` satisfies it.  `TunnelIsBacked`, the
theorem on version 1 that rests on `TerminationIsBacked`, has the same one.

### The arguments

*FDB.*  `FdbAllOrNothing` speaks of addresses no call is working on, so
it is not inductive: one has to know what a call in progress has done.  `FdbInv`
adds, per thread, `IdInv` (a session's id never exceeds the highest the server
has seen, so primacy once lost is lost for good: `PrimacyLost`), `ControlInv`
(which arguments go with which step), and `CallInv`, for calls on undisturbed
addresses: the call is alone on its address; if it has not written as primary the
address is still settled, and it never will write after its first write
(`UnwrittenInv`); if it has, the tables hold exactly the prefix of its entries
(`WrittenInv`); at the return the address is settled again and, if the status is
OK and the session is primary, the work is done (`ReturnInv`).  `InvStep` has one
*actor lemma* per action for the thread that takes the step, and one frame
argument (`MidCallFrame`) for all others: a step touches the entries of its own
address only (`WriteFrame`).  `InsertEffect` and `DeleteEffect` say what a write
that does not disturb does.

*The FDB service.*  `RefinedStep` has one lemma per action: with `FdbInv` before
and after the step, and `MacInv` (calls are about addresses in `Macs`), it is a
`Call`, `Learn`, `Forget`, `Lose` or `Complete` of the service, or a stutter.  The mapping
tells addresses with a call in progress from others; `KnownIs` shows that under
`FdbInv` it amounts to *known iff the entries are an image of an insert*, for an
image has both an SMAC entry and a TX entry (`ImageTables`, `NotAnImage`), which
no proper prefix of an insert (`PartUnknown`) and no rest of a delete
(`RestUnknown`) has.  So only the last write of an insert (`LearnWrite`) and the
first of a delete (`ForgetWrite`) can be seen; all others are `QuietWrite`s.

*Tunnels, smaller calls, DPDK.*  These calls stop at the first write that fails,
so the status is evidence.  The three invariants have the same parts.  `DoneInv`:
the entries *behind* the step a call has reached (`Behind(t)`) are done, so at an
OK return all are; another call can undo them only through an equal key, which
the history variables record.  `AloneInv`: calls on an undisturbed VNI (unbroken
VLAN key, MAC address) do not overlap.  `BackedInv`/`MatchInv`: the dependent
entry (termination, pop, RX) has the one it needs, or a delete is between the two
writes (`HalfDeleted`) -- the case the properties exclude, and without which they
are not inductive.  A delete that fails there makes the key disturbed or broken,
which is why the history variables have that clause.  Then each has what it needs
of its own: `OwnInv` for tunnels (the entries of an undisturbed VNI all have the
keys of the tunnel of the call at work on it, so a delete removes *them*),
`TxInv`/`PushInv` (the first of two entries does not depend on `touched`, which
other keys can set), `EntriesInv` (the form of the entries, or the call an RX entry came from), and for the
IP/MAC-map call, which ignores its statuses, `MapInv` with `IdInv`: primary at the
end implies primary at each earlier write.

*Daemon.*  `PipeInv` says who holds which end of the pipe: a process that has
ended holds none, the parent that reads is no writer, and holds the read end until
it has read.  So a byte cannot get lost, and the reader cannot keep itself
waiting (`ReaderReleased`, the safety part of `ForegroundReturns`).  `ControlInv`
has that a parent reaches `waitpid` and an error status only with the child gone.

*p4rt_perf_test.*  `TableInv`: the completed requests of a run left exactly their
shares.  `SharesArithmetic` shows that the shares of `PopulateThreadInfo`,
quotient and remainder, are the numbers from 1 to `TotNumEntries`, by cases on the
number of threads (products of two variables are out of the solver's reach).

*Version 1.*  Each refinement has the same lemmas.  `...Encoders`: the encoders of
the two versions, translated from two sources, give the same entry for every
argument, by cases on tunnel type, families and vlan mode.  `...Session` and
`...Write`: the RPCs of the two are the same steps.  `...Step`: one case per
action.  Three of the calls need a small invariant of version 1 first, for a
mapping is a function of the whole state: `FdbControl` (the read of the FDB tunnel
table is for tunnel addresses and that of the VLAN table for others, so `V3pc` can
map both to version 3's one read, which picks the table by `is_tunnel`; and
version 1's in-place changes of `learn_info` leave it a `LearnInfo`), `NoDecap`
(no call on DPDK comes to the decapsulation table, which the one function for both
targets has), and `PortsControl` (a call in progress has seen no error).  The byte
arithmetic is `ShiftedIn`, `PutTogether` and `PortTableIs`: shifting four bytes
through a `uint16_t` leaves the last two, which is what version 3 reads, unless a
sign bit covers the third.

`V1_proofs` extends `V1ConfigPorts` and has the other calls as instances.

That gives `Spec => ImplementsV3...`.  The theorems on version 3 are about a
top-level instance (`FdbV3`), and the mapped one is nested (`Fdb!V3`): the lemmas
`...Same` show that their next-state relations are one formula, so that
`...IsV3`, and with it the theorems `...IsTruthful` and `TunnelIsBacked`, follow
without a second induction.

`HostPortMapped` is not inductive: a write takes its key from what a previous
step looked up.  `HostPortInv` adds `PortKnown(t)`: a thread about to write the
source-port table holds a port of `PortTable` or of its `TunnelSrcPorts`
argument.  Other tables' entries do not matter (`PortsOtherTables`), and a delete
only removes.

### Model-checked only

* Liveness: `CallsReturn`, `RunEnds`, `ForegroundReturns`
  (fairness and `ENABLED` are out of the prover's reach).
* The four violations, which are counterexamples.

Facts that need induction over data, and recursive operators, cannot be proved
with the installed backends; the modules use neither.

## Not modelled

* Stratum, krnlmon, the SDE and Open vSwitch are submodules: external.
* Version 2 of the core: the intermediate form of the refactoring from version 1
  to version 3, with the encoders of the one and the client interface of the
  other.  Both ends are modelled.
* Formatting, logging, the journal and the journal variant of the C API: I/O
  without influence on the state the properties are about.
* `gnmi-ctl`, `sgnmi_cli` and `p4rt-ctl`: command lines turned into one RPC each.
* The P4 programs and protocol definitions are data here.  The ES2K program is not in the repository, so properties that need
  it (20-bit tunnel ids, stale RX ports) are listed as hazards with a note.

## Plan

* **Composition** of all calls on one server, and `TX_ACC_VSI_TABLE` as a
  variable that the environment changes: the hazards about a stale lookup and
  about keys shared between APIs would get properties.
* **Version 2 of the core**, if it stays in the tree: an instance of the same
  refinement lemmas.
