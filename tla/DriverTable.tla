----------------------------- MODULE DriverTable -----------------------------
(***************************************************************************)
(* What each hardware adapter (src/botparty_robot/hardware) does to its    *)
(* device: for every command it supports, the checks and the device writes *)
(* of on_command in their order; the writes of setup and emergency_stop.   *)
(* Speeds, directions and durations are data: an output is at rest or not. *)
(*                                                                         *)
(*   drives   outputs that stay on until they are written again            *)
(*   holds    outputs that keep a position, a direction or a light         *)
(*   motion   motion_commands: they arm the deadline of the client         *)
(*   run      supported_commands -> the steps of on_command                *)
(*   stop     the steps of emergency_stop in the thread of a stop          *)
(*   relays   the device is told to start and ends when it is told to      *)
(*   detached on_command returns while its steps still run on the loop     *)
(*                                                                         *)
(* The command "stop" is not listed: the client never gives it to          *)
(* on_command (client_commands.py:310).                                    *)
(***************************************************************************)
EXTENDS SequencesExt

\* ensure_active, interruptible_sleep and both checks of run_if_epoch_active:
\* they raise once the permit's epoch has ended.
Check == [write |-> {}, on |-> FALSE, quiet |-> FALSE]

On(outputs) == <<[write |-> outputs, on |-> TRUE, quiet |-> FALSE]>>

Off(outputs) == <<[write |-> outputs, on |-> FALSE, quiet |-> FALSE]>>

\* contextlib.suppress(Exception) around one write of set_low.
OffQuietly(outputs) == <<[write |-> outputs, on |-> FALSE, quiet |-> TRUE]>>

Pause == <<Check>>

\* guarded_write: run_if_epoch_active around the operation.
Guarded(operation) == <<Check>> \o operation \o <<Check>>

\* The usual command: start under the permit, sleep, write the neutral value.
Pulse(start, neutral) == Guarded(start) \o Pause \o neutral


\* One step for each output, in their order.
Each(outputs, Step(_)) == FlattenSeq([i \in DOMAIN outputs |-> Step({outputs[i]})])

GuardedOn(outputs) == Guarded(On(outputs))
GuardedOff(outputs) == Guarded(Off(outputs))

Drive == {"forward", "backward", "left", "right"}
Arm == {"lift_up", "lift_down", "open", "close"}
Neck == {"head_up", "head_down"}

Driver(drives, holds, motion, run, stop) ==
  [drives |-> drives, holds |-> holds, motion |-> motion, run |-> run, stop |-> stop,
   relays |-> FALSE, detached |-> FALSE]

-----------------------------------------------------------------------------
(* Steering servo, drive, and an auxiliary servo that nothing centres.     *)

\* Mutant: straight pulses end at the slow speed.
PulseDriveSettles(steers, settles) ==
  (IF steers THEN GuardedOn({"steer"}) ELSE <<>>) \o GuardedOn({"drive"}) \o Pause
    \o (IF settles THEN GuardedOn({"drive"}) ELSE GuardedOff({"steer"}) \o GuardedOff({"drive"}))

\* _pulse_drive; every write of this adapter is guarded.
PulseDrive(steers, settles) ==
  (IF steers THEN GuardedOn({"steer"}) ELSE <<>>)
    \o GuardedOn({"drive"}) \o Pause
    \o (IF settles THEN GuardedOn({"drive"}) \o Pause ELSE <<>>)
    \o GuardedOff({"steer"}) \o GuardedOff({"drive"})

AuxServo == {"s2inc", "s2dec", "pos60", "neg60"}

adafruit_pwm ==
  LET commands == Drive \cup {"bl", "br"} \cup AuxServo IN
  Driver({"drive"}, {"steer", "aux"}, commands,
         [c \in commands |->
            IF c \in AuxServo THEN GuardedOn({"aux"})
            ELSE PulseDrive(c \notin {"forward", "backward"}, c \in {"forward", "backward"})],
         Off({"steer"}) \o Off({"drive"}))

-----------------------------------------------------------------------------
(* Motor boards whose library starts and stops both motors.                *)

BothWheels == {"left", "right"}

WheelPulse(start, neutral) ==
  Driver(BothWheels, {}, Drive, [c \in Drive |-> Pulse(start, neutral)], neutral)

gopigo2 == WheelPulse(On(BothWheels), Off(BothWheels))

\* Turns set the motors one after the other.
gopigo3 ==
  LET turn == Pulse(On({"left"}) \o On({"right"}), Off(BothWheels))
      straight == Pulse(On(BothWheels), Off(BothWheels))
  IN Driver(BothWheels, {}, Drive,
            [c \in Drive |-> IF c \in {"left", "right"} THEN turn ELSE straight],
            Off(BothWheels))

maestro_servo ==
  WheelPulse(On({"left"}) \o On({"right"}), Off({"left"}) \o Off({"right"}))

\* enable and disable frame the speeds.
mc33926 ==
  Driver(BothWheels, {"enable"}, Drive,
         [c \in Drive |-> Pulse(On({"enable"}) \o On(BothWheels),
                                Off(BothWheels) \o Off({"enable"}))],
         Off(BothWheels) \o Off({"enable"}))

pololu == WheelPulse(On(BothWheels), Off(BothWheels))

thunderborg == WheelPulse(On({"left"}) \o On({"right"}), Off(BothWheels))

-----------------------------------------------------------------------------
(* GPIO pins.                                                              *)

\* setup_output_pins, set_low: the pins one by one, a failure is suppressed.
SetLow(pins) == Each(pins, OffQuietly)

\* Pins are lists in the options; here every direction has two of four.
DirectionPins ==
  [forward |-> <<"a1", "b1">>, backward |-> <<"a2", "b2">>,
   left |-> <<"a2", "b1">>, right |-> <<"a1", "b2">>]

l298n ==
  Driver({"a1", "a2", "b1", "b2"}, {}, Drive,
         [c \in Drive |-> Each(DirectionPins[c], GuardedOn) \o Pause \o SetLow(DirectionPins[c])],
         SetLow(DirectionPins.forward \o DirectionPins.backward
                  \o DirectionPins.left \o DirectionPins.right))

\* Direction pins and two PWM channels in one operation.
mdd10 ==
  LET zero == Off({"p1"}) \o Off({"p2"}) IN
  Driver({"p1", "p2"}, {"dig1", "dig2"}, Drive,
         [c \in Drive \cup {"maxspeed"} |->
            IF c = "maxspeed" THEN <<>>
            ELSE Pulse(On({"dig1"}) \o On({"dig2"}) \o On({"p1"}) \o On({"p2"}), zero)],
         zero)

\* The enable pin of each motor; its direction pins are written with it.
MotorPins == <<"motor1", "motor2", "motor3", "motor4">>

motozero ==
  Driver(Range(MotorPins), {}, Drive,
         [c \in Drive |-> Each(MotorPins, GuardedOn) \o Pause \o Each(MotorPins, Off)],
         Each(MotorPins, Off))

-----------------------------------------------------------------------------
(* Boards with accessories.                                                *)

Tracks == <<"left_track", "right_track">>
Accessory == [lift_up |-> "arm", lift_down |-> "arm", open |-> "grabber", close |-> "grabber"]

\* _motor_run guards the zero speeds too.
megapi_board ==
  Driver(Range(Tracks) \cup {"arm", "grabber"}, {}, Drive \cup Arm,
         [c \in Drive \cup Arm |->
            LET ports == IF c \in Drive THEN Tracks ELSE <<Accessory[c]>>
            IN Each(ports, GuardedOn) \o Pause \o Each(ports, GuardedOff)],
         Each(Tracks \o <<"arm", "grabber">>, Off))

\* Channels 1 to 4: both wheels, up_motor and open_motor.
HatMotors == <<"left", "right", "arm", "grabber">>

\* Mutant: the accessories are not released.
ReleaseWheels == Each(<<"left", "right">>, Off)

ReleaseAll == Each(HatMotors, Off)

motor_hat ==
  Driver(Range(HatMotors), {}, Drive \cup Arm,
         [c \in Drive \cup Arm |->
            IF c \in Drive
            THEN Each(<<"left", "right">>, GuardedOn) \o Pause \o ReleaseAll
            ELSE Pulse(On({Accessory[c]}), Off({Accessory[c]}))],
         ReleaseAll)

\* Mutant: supported_commands[:8] leaves out the gripper.
OwiMotionCutShort == Drive \cup Neck \cup {"lift_up", "lift_down"}

OwiMotion == Drive \cup Neck \cup Arm

\* One USB transfer carries all motors and the light.
owi_arm ==
  LET moves == Drive \cup Neck \cup Arm IN
  Driver({"arm"}, {"led"}, OwiMotion,
         [c \in moves \cup {"1", "0"} |->
            IF c \in moves THEN GuardedOn({"arm"}) \o Pause \o GuardedOff({"arm"})
            ELSE (IF c = "1" THEN GuardedOn({"led"}) ELSE GuardedOff({"led"}))
                   \o Pause \o GuardedOff({"arm"})],
         Off({"arm"}))

-----------------------------------------------------------------------------
(* Robots with a controller of their own.                                  *)

\* wait_for_completed: the robot ends the motion by itself.
cozmo ==
  Driver({"wheels"}, {"lift", "head"}, Drive \cup Neck \cup {"lift_up", "lift_down"},
         [c \in Drive \cup Neck \cup {"lift_up", "lift_down"} |->
            CASE c \in Drive -> GuardedOn({"wheels"}) \o Off({"wheels"})
              [] c \in {"lift_up", "head_up"} -> GuardedOn(IF c = "lift_up" THEN {"lift"} ELSE {"head"})
              [] OTHER -> GuardedOff(IF c = "lift_down" THEN {"lift"} ELSE {"head"})],
         Off({"wheels", "lift", "head"}))

\* The head goes back to 0 without a permit; a stop ends the wheels only.
vector ==
  Driver({"wheels"}, {"lift", "head"}, Drive \cup Neck \cup {"lift_up", "lift_down"},
         [c \in Drive \cup Neck \cup {"lift_up", "lift_down"} |->
            CASE c \in Drive -> Pulse(On({"wheels"}), Off({"wheels"}))
              [] c \in Neck -> Pulse(On({"head"}), Off({"head"}))
              [] c = "lift_up" -> GuardedOn({"lift"})
              [] OTHER -> GuardedOff({"lift"})],
         Off({"wheels"}))

\* _drive runs on the loop; a stop disarms, after which _drive does nothing.
navq ==
  [Driver({"thrust"}, {}, Drive,
          [c \in Drive |-> Pause \o On({"thrust"}) \o Pause \o Off({"thrust"})],
          Off({"thrust"})) EXCEPT !.detached = TRUE]

-----------------------------------------------------------------------------
(* Devices that are told to move and told to stop.                         *)

\* One frame or message, acknowledged or not; the device runs until the next.
Relay == [Driver({"board"}, {}, Drive, [c \in Drive |-> GuardedOn({"board"})], Off({"board"}))
            EXCEPT !.relays = TRUE]

serial_board == Relay

telly == serial_board

mqtt_pub == Relay

-----------------------------------------------------------------------------
(* Nothing that moves: LED patterns, and the adapter that only logs.       *)

max7219 ==
  LET patterns == {"LED_OFF", "LED_FULL", "LED_LOW", "LED_MED", "LED_E_SMILEY"} IN
  Driver({}, {"led"}, {},
         [c \in patterns |-> IF c = "LED_OFF" THEN Off({"led"}) ELSE On({"led"})],
         Off({"led"}))

none == Driver({}, {}, {}, [c \in {} |-> <<>>], <<>>)

\* The loader of hardware_custom.py: an adapter written on the base class is
\* executed with the permit of the outer one.
custom(inner) ==
  [inner EXCEPT !.run = [c \in DOMAIN inner.run |-> Pause \o inner.run[c] \o Pause]]

\* create_hardware: the profile's module and its HardwareAdapter.
Catalogue ==
  [adafruit_pwm |-> adafruit_pwm, cozmo |-> cozmo, custom |-> custom(gopigo3), gopigo2 |-> gopigo2, gopigo3 |-> gopigo3,
   l298n |-> l298n, maestro_servo |-> maestro_servo, max7219 |-> max7219, mc33926 |-> mc33926,
   mdd10 |-> mdd10, megapi_board |-> megapi_board, motor_hat |-> motor_hat,
   motozero |-> motozero, mqtt_pub |-> mqtt_pub, navq |-> navq, none |-> none,
   owi_arm |-> owi_arm, pololu |-> pololu, serial_board |-> serial_board, telly |-> telly,
   thunderborg |-> thunderborg, vector |-> vector]
==============================================================================
