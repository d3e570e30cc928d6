--------------------------------- MODULE Ps2 ----------------------------------
(***************************************************************************)
(* The initialisation of the PS/2 controller (PS2_init, identify_device    *)
(* and keyboard_init) against a controller whose answers may come too late *)
(* for recieve_byte, and then are taken for the answer to the next command.*)
(*                                                                         *)
(* The controller and the devices are external: they do what the code      *)
(* expects and what the emulator qemu.sh starts does.  A byte sent to a    *)
(* device makes it drop the answer nobody has read.                        *)
(***************************************************************************)
EXTENDS Integers, Sequences

CONSTANTS
  KindsOne, KindsTwo,  \* what may be at each port: subsets of Kind
  Configs,             \* configuration bytes firmware may leave, as sets of bits
  Leftovers            \* bytes it may leave unread

Port == {1, 2}
Kind == {"absent", "broken", "empty", "keyboard", "mouse", "faulty"}
Bit == 0..7

ASSUME Ps2Assumption ==
  /\ KindsOne \subseteq Kind \ {"absent"} /\ KindsTwo \subseteq Kind
  /\ Configs \subseteq SUBSET Bit /\ Leftovers \subseteq 0..254

VARIABLES
  kinds,        \* what is at each port of this machine
  prompt,       \* whether every answer comes before recieve_byte gives up
  config,       \* the controller's configuration byte, as a set of bits
  out,          \* bytes to be read, each with its sender: a port or Controller
  pc, port,     \* where PS2_init is, and for which port
  config_byte,  \* its local
  saved,        \* config, the local of identify_device
  id,           \* bytes collected from a device
  tries,        \* i, the local of keyboard_init
  ports,        \* PS2_port_one and PS2_port_two: the ports it takes to exist
  device,       \* PS2_device_one and PS2_device_two
  PS2_port      \* the port of the keyboard

machine == <<kinds, prompt>>
locals == <<config_byte, saved, id, tries>>
vars == <<machine, config, out, pc, port, locals, ports, device, PS2_port>>

Controller == 0
ACK == 250       \* 0xFA
TIMEOUT == 255   \* what recieve_byte returns when nothing comes
NONE == 65535    \* no device

\* The bits of a byte as a set, and back.
Weight == <<1, 2, 4, 8, 16, 32, 64, 128>>
Bits(v) == {i \in Bit : (v \div Weight[i + 1]) % 2 = 1}
Value(S, i) == IF i \in S THEN Weight[i + 1] ELSE 0
Byte(S) == Value(S, 0) + Value(S, 1) + Value(S, 2) + Value(S, 3)
           + Value(S, 4) + Value(S, 5) + Value(S, 6) + Value(S, 7)
IRQ(p) == p - 1          \* bits 0 and 1
Off(p) == p + 3          \* bits 4 and 5: the clock of a port is off
TRANSLATION == 6

Init ==
  /\ \E one \in KindsOne, two \in KindsTwo : kinds = <<one, two>>
  /\ prompt \in BOOLEAN
  /\ config \in Configs
  /\ out \in {<<>>} \cup {<<[from |-> 1, val |-> v]>> : v \in Leftovers}
  /\ pc = "flush" /\ port = 2
  /\ config_byte = {} /\ saved = {} /\ id = 0 /\ tries = 0
  /\ ports = {1} /\ device = [p \in Port |-> 0] /\ PS2_port = 1

------------------------------------------------------------------------------
(* The devices and the controller                                          *)

Says(from, vals) == [i \in DOMAIN vals |-> [from |-> from, val |-> vals[i]]]

Answer(kind, v) ==
  CASE kind = "keyboard" /\ v = 255 -> <<ACK, 170>>
    [] kind = "keyboard" /\ v = 242 -> <<ACK, 171, 131>>
    [] kind = "mouse" /\ v = 255 -> <<ACK, 170, 0>>
    [] kind = "mouse" /\ v = 242 -> <<ACK, 0>>
    [] kind = "faulty" /\ v = 255 -> <<ACK, 252>>
    [] kind \in {"keyboard", "mouse"} /\ v \notin {255, 242} -> <<ACK>>
    [] OTHER -> <<>>

\* The bytes of o that are not from p.
Others(o, p) ==
  LET others[n \in 0..Len(o)] ==
        IF n = 0 THEN <<>>
        ELSE IF o[n].from # p THEN Append(others[n - 1], o[n]) ELSE others[n - 1]
  IN others[Len(o)]

\* send_byte to a device: nothing is sent to a port that does not exist, and
\* a port that is off does not pass the byte on.
Sent(o, cfg, p, v) ==
  IF p \in ports /\ Off(p) \notin cfg
  THEN Others(o, p) \o Says(p, Answer(kinds[p], v))
  ELSE o

\* recieve_byte: the first byte there is, or TIMEOUT when none comes in time.
Arrives(o) ==
  (IF o = <<>> THEN {} ELSE {[val |-> Head(o).val, rest |-> Tail(o)]})
  \cup (IF o = <<>> \/ ~prompt THEN {[val |-> TIMEOUT, rest |-> o]} ELSE {})

\* idt_init has enabled interrupts: while the firmware's configuration lets the
\* controller interrupt, PS2_key_handler may read any number of bytes first.
Reads(o) ==
  UNION {Arrives(SubSeq(o, k + 1, Len(o))) :
           k \in IF IRQ(1) \in config THEN 0..Len(o) ELSE {0}}

\* A command to which the controller answers v.
Asks(v) == Reads(out \o Says(Controller, <<v>>))

ReadConfig(cfg) == Asks(Byte(cfg))

\* write_config sends its byte as if to port one: without it, nothing is sent.
WriteConfig(cfg) == config' = IF 1 \in ports THEN cfg ELSE config

------------------------------------------------------------------------------
(* PS2_init up to the ports                                                *)

\* Both ports are disabled and one byte is read.
Flush ==
  /\ pc = "flush" /\ pc' = "clear"
  /\ config' = config \cup {Off(1), Off(2)}
  /\ \E r \in Reads(out) : out' = r.rest
  /\ UNCHANGED <<machine, port, locals, ports, device, PS2_port>>

\* config_byte &= 0xAE
ClearConfig ==
  /\ pc = "clear" /\ pc' = "selftest"
  /\ \E r \in ReadConfig(config) :
       /\ out' = r.rest
       /\ config_byte' = Bits(r.val) \cap Bits(174)
       /\ WriteConfig(config_byte')
  /\ UNCHANGED <<machine, port, saved, id, tries, ports, device, PS2_port>>

\* The controller's self test answers 0x55 and may reset the configuration.
SelfTest ==
  /\ pc = "selftest"
  /\ \E r \in Asks(85) :
       /\ out' = r.rest
       /\ IF r.val = 85 THEN pc' = "second" /\ WriteConfig(config_byte)
                        ELSE pc' = "failed" /\ config' \in Configs \cup {config}
  /\ UNCHANGED <<machine, port, locals, ports, device, PS2_port>>

\* Enabling the second port clears its bit if there is one.
SecondPort ==
  /\ pc = "second"
  /\ LET tried == IF kinds[2] = "absent" THEN config ELSE config \ {Off(2)}
     IN \E r \in ReadConfig(tried) :
          /\ out' = r.rest /\ config_byte' = Bits(r.val)
          /\ IF Off(2) \in Bits(r.val)
             THEN /\ pc' = "test" /\ port' = 1 /\ config' = tried
                  /\ UNCHANGED ports
             ELSE /\ pc' = "second_config" /\ ports' = ports \cup {2}
                  /\ config' = tried \cup {Off(2)} /\ UNCHANGED port
  /\ UNCHANGED <<machine, saved, id, tries, device, PS2_port>>

\* config_byte &= 0xDD
SecondConfig ==
  /\ pc = "second_config" /\ pc' = "test"
  /\ \E r \in ReadConfig(config) :
       /\ out' = r.rest
       /\ config_byte' = Bits(r.val) \cap Bits(221)
       /\ WriteConfig(config_byte')
  /\ UNCHANGED <<machine, port, saved, id, tries, ports, device, PS2_port>>

------------------------------------------------------------------------------
(* The same for each port, the second one first                            *)

NextPort == IF port = 2 THEN pc' = "test" /\ port' = 1
                        ELSE pc' = "enable_irqs" /\ UNCHANGED port

Test == Asks(IF kinds[port] = "broken" THEN 1 ELSE 0)

\* Mutant: the answer is read the wrong way round.
Inverted(v) == v # 0

Works(v) == v = 0

\* The port's test (0xA9, 0xAB); if it passes, the device is reset.
PortFails ==
  /\ pc = "test"
  /\ \E r \in Test : ~Works(r.val) /\ out' = r.rest
  /\ ports' = ports \ {port}
  /\ IF port = 1 /\ 2 \notin ports THEN pc' = "panic" /\ UNCHANGED port ELSE NextPort
  /\ UNCHANGED <<machine, config, locals, device, PS2_port>>

ResetDevice ==
  /\ pc = "test" /\ pc' = "reset"
  /\ config' = config \ {Off(port)}
  /\ \E r \in Test : Works(r.val) /\ out' = Sent(r.rest, config', port, 255)
  /\ id' = 0
  /\ UNCHANGED <<machine, port, config_byte, saved, tries, ports, device, PS2_port>>

\* Mutant: the id is not cut to 16 bits.
Unbounded(v) == 256 * id + v

\* Mutant: the byte is not shifted.
NotShifted(v) == id + v

\* PS2_device <<= 8; PS2_device |= val
Appended(v) == (256 * id + v) % 65536

Collect ==
  /\ pc \in {"reset", "identity"}
  /\ \E r \in Reads(out) : /\ r.val # TIMEOUT /\ out' = r.rest
                           /\ id' = Appended(r.val)
  /\ UNCHANGED <<machine, config, pc, port, config_byte, saved, tries, ports,
                 device, PS2_port>>

Unusable == id \in {0, 64252}    \* nothing, or 0xFAFC

NoDevice ==
  /\ pc = "reset" /\ Unusable
  /\ \E r \in Reads(out) : r.val = TIMEOUT /\ out' = r.rest
  /\ device' = [device EXCEPT ![port] = NONE]
  /\ NextPort
  /\ UNCHANGED <<machine, config, locals, ports, PS2_port>>

\* identify_device: translation off, and scanning disabled with 0xF5.
Identify ==
  /\ pc = "reset" /\ ~Unusable /\ pc' = "disable"
  /\ \E r \in Reads(out) :
       /\ r.val = TIMEOUT
       /\ \E c \in Reads(r.rest \o Says(Controller, <<Byte(config)>>)) :
            /\ saved' = Bits(c.val)
            /\ WriteConfig(saved' \ {TRANSLATION})
            /\ out' = Sent(c.rest, config', port, 245)
  /\ UNCHANGED <<machine, port, config_byte, id, tries, ports, device, PS2_port>>

\* Mutant: any byte is an acknowledgement.
AnyByte(v) == v # TIMEOUT

IsAck(v) == v = ACK

\* 0xF5, 0xF2 or 0xF4 is not acknowledged: the configuration is left as it is.
NotIdentified ==
  /\ pc \in {"disable", "identify", "enable"}
  /\ \E r \in Reads(out) : ~IsAck(r.val) /\ out' = r.rest
  /\ device' = [device EXCEPT ![port] = NONE]
  /\ NextPort
  /\ UNCHANGED <<machine, config, locals, ports, PS2_port>>

Disabled ==
  /\ pc = "disable" /\ pc' = "identify"
  /\ \E r \in Reads(out) : IsAck(r.val) /\ out' = Sent(r.rest, config, port, 242)
  /\ UNCHANGED <<machine, config, port, locals, ports, device, PS2_port>>

Identified ==
  /\ pc = "identify" /\ pc' = "identity" /\ id' = 0
  /\ \E r \in Reads(out) : IsAck(r.val) /\ out' = r.rest
  /\ UNCHANGED <<machine, config, port, config_byte, saved, tries, ports, device,
                 PS2_port>>

Enable ==
  /\ pc = "identity" /\ pc' = "enable"
  /\ \E r \in Reads(out) : /\ r.val = TIMEOUT
                           /\ out' = Sent(r.rest, config, port, 244)
  /\ UNCHANGED <<machine, config, port, locals, ports, device, PS2_port>>

IsKeyboard == id > 255 /\ id # NONE

\* identify_device returns; a keyboard is set up.
Enabled ==
  /\ pc = "enable"
  /\ \E r \in Reads(out) : IsAck(r.val) /\ out' = r.rest
  /\ WriteConfig(saved)
  /\ device' = [device EXCEPT ![port] = id]
  /\ IF IsKeyboard THEN /\ pc' = "scan_codes" /\ tries' = 1
                        /\ PS2_port' = port /\ UNCHANGED port
                   ELSE NextPort /\ UNCHANGED <<tries, PS2_port>>
  /\ UNCHANGED <<machine, config_byte, saved, id, ports>>

\* Mutant: attempts are not counted.
SameTry == tries

NextTry == tries + 1

\* keyboard_init: 0xF0 and 0xED with an argument, three times at most.
KeyboardInit ==
  /\ pc \in {"scan_codes", "lights"}
  /\ LET sent == Sent(Sent(out, config, port, 240), config, port, 2)
     IN \E r \in Reads(sent) :
          /\ out' = r.rest
          /\ \/ /\ ~IsAck(r.val) /\ tries < 3
                /\ tries' = NextTry /\ UNCHANGED <<pc, port>>
             \/ /\ IsAck(r.val) \/ tries = 3
                /\ tries' = 1
                /\ IF pc = "scan_codes" THEN pc' = "lights" /\ UNCHANGED port
                                        ELSE NextPort
  /\ UNCHANGED <<machine, config, config_byte, saved, id, ports, device, PS2_port>>

\* config_byte |= 0x40 and the bit of each port whose device is not NONE.
EnableIrqs ==
  /\ pc = "enable_irqs" /\ pc' = "done"
  /\ \E r \in ReadConfig(config) :
       /\ out' = r.rest
       /\ config_byte' = Bits(r.val) \cup {TRANSLATION}
                         \cup {IRQ(p) : p \in {q \in Port : device[q] # NONE}}
       /\ WriteConfig(config_byte')
  /\ UNCHANGED <<machine, port, saved, id, tries, ports, device, PS2_port>>

------------------------------------------------------------------------------
Next ==
  \/ Flush \/ ClearConfig \/ SelfTest \/ SecondPort \/ SecondConfig
  \/ PortFails \/ ResetDevice \/ Collect \/ NoDevice
  \/ Identify \/ NotIdentified \/ Disabled \/ Identified \/ Enable \/ Enabled
  \/ KeyboardInit \/ EnableIrqs

Spec == Init /\ [][Next]_vars

\* PS2_init waits for nothing longer than recieve_byte polls.
FairSpec == Spec /\ WF_vars(Next)

------------------------------------------------------------------------------
(* Properties                                                              *)

\* Ids keep their 16 bits, and at most three attempts are made.
TypeOK ==
  /\ kinds \in KindsOne \X KindsTwo /\ prompt \in BOOLEAN
  /\ config \in SUBSET Bit /\ config_byte \in SUBSET Bit /\ saved \in SUBSET Bit
  /\ out \in Seq([from : Port \cup {Controller}, val : 0..255])
  /\ port \in Port /\ ports \in SUBSET Port /\ PS2_port \in Port
  /\ id \in 0..NONE /\ device \in [Port -> 0..NONE]
  /\ tries \in 0..3

Keyboards == {p \in Port : kinds[p] = "keyboard"}

\* With prompt answers and a first port that works, every keyboard is found,
\* whatever the other port holds: identified, its port on, its interrupt
\* and the translation enabled, and no answer left to be taken for a key.
KeyboardUsable ==
  (pc = "done" /\ prompt /\ kinds[1] # "broken") =>
    /\ out = <<>>
    /\ \A p \in Keyboards :
         /\ device[p] = 43907
         /\ Off(p) \notin config /\ {IRQ(p), TRANSLATION} \subseteq config
    /\ Keyboards # {} => PS2_port \in Keyboards

\* However late answers come, one port's answers, or the controller's, are
\* never taken for a keyboard at a port that has none.
NoPhantomKeyboard ==
  \A p \in Port : device[p] > 255 /\ device[p] # NONE => p \in Keyboards

\* The kernel panics only on a machine without a working port.
PanicsWithoutPorts ==
  (pc = "panic" /\ prompt) => kinds[1] = "broken" /\ kinds[2] \in {"absent", "broken"}

\* PS2_init always ends: every loop gives up.
InitEnds == <>(pc \in {"done", "failed", "panic"})
==============================================================================
