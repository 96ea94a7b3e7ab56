--------------------------- MODULE AdapterContract ---------------------------
(***************************************************************************)
(* What the client expects of a hardware adapter, stated of one entry of   *)
(* DriverTable: the rules an adapter has to follow so that the latch, the  *)
(* permits and the deadline around it keep the robot at rest. The theorems *)
(* of ThreadProofs need nothing else of an adapter; MCControl has TLC      *)
(* evaluate that every adapter of the repository follows them.             *)
(***************************************************************************)
EXTENDS Naturals, Sequences

Outputs(device) == device.drives \cup device.holds

Steps(device) == [write : SUBSET Outputs(device), on : BOOLEAN, quiet : BOOLEAN]

\* Step i of steps turns output o on, or to rest.
Starts(steps, i, o) == o \in steps[i].write /\ steps[i].on

Ends(steps, i, o) == o \in steps[i].write /\ ~ steps[i].on

Described(device) ==
  /\ \A c \in DOMAIN device.run : device.run[c] \in Seq(Steps(device))
  /\ device.stop \in Seq(Steps(device))
  /\ \A i \in DOMAIN device.stop : ~ device.stop[i].on

\* emergency_stop writes every output that stays on by itself.
StopsWhatItDrives(device) ==
  \A o \in device.drives : \E i \in DOMAIN device.stop : Ends(device.stop, i, o)

\* What steps turn on among outputs, they turn off again.
ComesToRest(steps, outputs) ==
  \A i \in DOMAIN steps : \A o \in outputs :
    Starts(steps, i, o) => \E j \in DOMAIN steps : j > i /\ Ends(steps, j, o)

\* A command ends what it drives, unless the board waits for another message.
EndsItsPulses(device) ==
  device.relays \/ \A c \in DOMAIN device.run : ComesToRest(device.run[c], device.drives)

DrivesIn(steps, outputs) == \E i \in DOMAIN steps : \E o \in outputs : Starts(steps, i, o)

\* A command that drives is listed in motion_commands.
DeclaresMotion(device) ==
  \A c \in DOMAIN device.run : DrivesIn(device.run[c], device.drives) => c \in device.motion

HonoursContract(device) ==
  /\ Described(device) /\ StopsWhatItDrives(device)
  /\ EndsItsPulses(device) /\ DeclaresMotion(device)
==============================================================================
