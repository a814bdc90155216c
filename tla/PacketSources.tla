--------------------------- MODULE PacketSources ---------------------------
(***************************************************************************)
(* How md_engine's main starts, with ASTRA_CPU set: the options, the       *)
(* capacity gate, the CPU for a kernel source, the one packet source the   *)
(* options ask for, the CPU for DPDK, the books, the run.  Anything may    *)
(* throw on the way; a source that is open is then destroyed, as it is     *)
(* when the run is over.  The port receives from its start to its stop,    *)
(* wherever main stands.                                                   *)
(*                                                                         *)
(* source is "dual" (DualUdpReceiver or DualUdpBatchReceiver), "batch"     *)
(* (UdpBatchReceiver) or "dpdk".  A single UdpReceiver is one line of      *)
(* DualReceiver.  The variables of the sources that are not open keep      *)
(* their initial values; closing a socket is left out.                     *)
(***************************************************************************)
EXTENDS BatchReceiver, DpdkReceiver

VARIABLES
  source,    \* the source ASTRA_RX, ASTRA_UDP_RX and the arguments ask for
  boot,      \* where main stands
  cpu,       \* the thread's affinity: "inherited", "requested" or "EAL"
  mappedOn   \* history: the affinity when the books were mapped

bootVars    == <<source, boot, cpu, mappedOn>>
sourcesVars == <<vars, batchVars, dpdkVars>>
mainVars    == <<sourcesVars, bootVars>>

MainInit ==
  /\ source \in {"dual", "batch", "dpdk"}
  /\ boot = "options" /\ cpu = "inherited" /\ mappedOn = "none"
  /\ IF source = "dual" THEN Init ELSE batched = FALSE /\ metered = FALSE /\ Unread
  /\ BatchInit
  /\ IF source = "dpdk" THEN DpdkInit
     ELSE /\ dpdk = "closed" /\ flowFilter = FALSE /\ Unopened
          /\ ends = CHOOSE e \in Endpoints : TRUE

\* The order of main.
BootOrder == <<"options", "gate", "pin", "open", "repin", "map", "run">>

Later(stage) == BootOrder[(CHOOSE i \in DOMAIN BootOrder : BootOrder[i] = stage) + 1]

\* The options are read; the capacity profile is validated.
Validate ==
  /\ boot \in {"options", "gate"}
  /\ boot' = Later(boot)
  /\ UNCHANGED <<sourcesVars, source, cpu, mappedOn>>

\* Mutant of PinsAt: the CPU is chosen before the source, whatever it is.
PinsAtStart(stage) == stage = "pin"

\* pinRequestedCpu is called before a kernel source is opened and after DPDK.
PinsAt(stage) == stage = (IF source = "dpdk" THEN "repin" ELSE "pin")

PinCpu ==
  /\ boot \in {"pin", "repin"}
  /\ boot' = Later(boot)
  /\ cpu' = IF PinsAt(boot) THEN "requested" ELSE cpu
  /\ UNCHANGED <<sourcesVars, source, mappedOn>>

OpenSockets ==
  /\ boot = "open" /\ source # "dpdk"
  /\ boot' = Later(boot)
  /\ UNCHANGED <<sourcesVars, source, cpu, mappedOn>>

\* DpdkReceiver's constructor: the EAL may move the thread, then the port is
\* set up.
OpenDpdk ==
  /\ boot = "open" /\ source = "dpdk"
  /\ Acquire
  /\ cpu' \in (IF held = {} THEN {cpu, "EAL"} ELSE {cpu})
  /\ boot' = IF dpdk' = "idle" THEN Later(boot) ELSE boot
  /\ UNCHANGED <<vars, batchVars, source, mappedOn>>

MapBooks ==
  /\ boot = "map"
  /\ boot' = Later(boot)
  /\ mappedOn' = cpu
  /\ UNCHANGED <<sourcesVars, source, cpu>>

\* An option, the capacity profile, the CPU, the source or the books are
\* refused: main catches the exception, and a DPDK source that is complete
\* is destroyed on the way.
StartupThrows ==
  /\ boot \in {"options", "gate", "pin", "open", "repin", "map"}
  /\ CASE dpdk = "idle" -> Destroy /\ boot' = "failing"
       [] dpdk = "starting" /\ boot = "open" -> InitializeThrows /\ boot' = "failed"
       [] OTHER -> UNCHANGED dpdkVars /\ boot' = "failed"
  /\ UNCHANGED <<vars, batchVars, source, cpu, mappedOn>>

\* The run is over and main returns.
MainReturns ==
  /\ boot = "run" /\ source = "dpdk"
  /\ Destroy
  /\ boot' = "returning"
  /\ UNCHANGED <<vars, batchVars, source, cpu, mappedOn>>

\* The destructor of the DPDK source goes on.
RunDestructor ==
  /\ boot \in {"failing", "returning"}
  /\ ReleaseCached \/ GiveBack
  /\ boot' = IF dpdk' # "destroyed" THEN boot ELSE IF boot = "failing" THEN "failed" ELSE "done"
  /\ UNCHANGED <<vars, batchVars, source, cpu, mappedOn>>

\* The engine polls its source, and datagrams and frames arrive.
RunDual  == boot = "run" /\ source = "dual" /\ Next /\ UNCHANGED <<batchVars, dpdkVars, bootVars>>
RunBatch == boot = "run" /\ source = "batch" /\ BatchNext /\ UNCHANGED <<vars, dpdkVars, bootVars>>

PollDpdk == CallNext \/ ReceiveBurst \/ TakeFrame

RunDpdk  == boot = "run" /\ source = "dpdk" /\ PollDpdk /\ UNCHANGED <<vars, batchVars, bootVars>>

PortReceives == Traffic /\ UNCHANGED <<vars, batchVars, bootVars>>

MainNext ==
  \/ Validate \/ PinCpu \/ OpenSockets \/ OpenDpdk \/ MapBooks \/ StartupThrows
  \/ MainReturns \/ RunDestructor
  \/ RunDual \/ RunBatch \/ RunDpdk \/ PortReceives

MainSpec == MainInit /\ [][MainNext]_mainVars
-----------------------------------------------------------------------------
\* Nothing is lost, repeated or reordered between a source and the decoder.
SourceLosesNothing == NothingLost /\ BatchNothingLost /\ DpdkNothingLost

\* A packet is a view into a buffer of its source: whatever arrives, it is
\* unchanged until the engine asks for the next one.
ViewsIntact == BatchViewsIntact /\ DpdkViewIntact

\* The books are mapped by the thread on the CPU that was asked for, which
\* the EAL may have moved it from.  Nothing of a port is given back while
\* something that was set up on it is held, and when main has ended nothing
\* is held, unless the constructor gave up halfway.
OrderlyStartAndStop ==
  /\ mappedOn \in {"none", "requested"}
  /\ "started" \in held => {"pool", "device", "queue"} \subseteq held
  /\ {"device", "queue"} \cap held # {} => "pool" \in held
  /\ {"flowA", "flowB"} \cap held # {} => "isolation" \in held
  /\ boot \in {"failed", "done"} => held = {} \/ dpdk = "failed"
=============================================================================
