------------------------------ MODULE PS2Setup ------------------------------
(***************************************************************************)
(* PS2_KeyboardDriverRegister and PS2_IssueCommand (PS2Keyboard.c): the    *)
(* driver turns the controller's translation off, selects scancode set 2   *)
(* and routes the interrupt.  It talks to the controller by polling, with  *)
(* one buffer in each direction; what the keyboard then sends is decoded   *)
(* in Keyboard.tla.                                                        *)
(*                                                                         *)
(* A read of the data port returns the latest byte whether or not it is    *)
(* new.  With fast the controller and the keyboard have answered by the    *)
(* time the driver reads, as the emulators the kernel runs on do; without  *)
(* it they take as long as they like.  No key is pressed before the        *)
(* interrupt is routed.                                                    *)
(***************************************************************************)
EXTENDS Naturals, Sequences

CONSTANTS
    FAST,          \* subset of BOOLEAN: the values of fast
    MAX_RESENDS,   \* 3 in the code
    MAX_FAULTS,    \* bound: bytes the keyboard does not understand
    MAX_KEYS,      \* bound: keys pressed
    NoByte

\* A byte is what it means; the configuration byte has its flags.  DISABLED stops
\* the clock of the keyboard's port.
Byte(kind) == [kind |-> kind, flags |-> {}]
Ccb(flags) == [kind |-> "CCB", flags |-> flags]
InitialConfig == {"INT", "TRANSLATE"}
ConfigFlags == InitialConfig \cup {"DISABLED"}
Bytes == [kind : {"ACK", "RESEND", "SCAN", "READ_CCB", "WRITE_CCB", "CCB", "GETSET_SCANSET", "SET2"},
          flags : SUBSET ConfigFlags]

ASSUME PS2Assumption ==
    /\ FAST \subseteq BOOLEAN /\ MAX_RESENDS \in Nat \ {0} /\ MAX_FAULTS \in Nat /\ MAX_KEYS \in Nat
    /\ NoByte \notin [cmd : BOOLEAN, byte : Bytes]

\* What the data port may hold from before, with the flags it has when it is taken
\* for the configuration: of those, 0xFA and 0xFE have the last two, and the scan
\* codes have any.
OldBytes == [kind : {"ACK", "RESEND"}, flags : {{"TRANSLATE", "DISABLED"}}]
            \cup [kind : {"SCAN"}, flags : SUBSET ConfigFlags]

VARIABLES
    fast,       \* the hardware answers before the driver looks
    regStep, i, NrResends, Response,
    ibf,        \* byte the controller has yet to take: [cmd, byte], or NoByte
    job,        \* the one it has taken and works on, or NoByte
    data, obf,  \* what the data port returns, and whether it is new
    config,     \* the controller's configuration
    expects,    \* the next data byte is the configuration
    scanset, awaits,   \* the keyboard: its scancode set; the next byte selects one
    out,        \* bytes the keyboard has yet to hand to the controller
    faults, keys,
    routed,     \* the pin of the interrupt is unmasked
    edge        \* an edge waits for the processor

registration == <<regStep, i, NrResends, Response>>
ps2Keyboard == <<scanset, awaits, out, faults, keys>>
ps2Vars == <<fast, registration, ibf, job, data, obf, config, expects, ps2Keyboard, routed, edge>>

Ps2Init ==
    /\ fast \in FAST
    /\ regStep = "ccb:send" /\ i = 0 /\ NrResends = 0 /\ Response = Byte("ACK")
    /\ ibf = NoByte /\ job = NoByte /\ obf = FALSE
    /\ data \in OldBytes
    /\ config = InitialConfig /\ expects = FALSE
    /\ scanset \in {1, 2} /\ awaits = FALSE /\ out = <<>> /\ faults = 0 /\ keys = 0
    /\ routed = FALSE /\ edge = FALSE

\* Everything sent has been answered.
Settled == ibf = NoByte /\ job = NoByte /\ out = <<>>

Send(cmd, byte) == ibf = NoByte /\ ibf' = [cmd |-> cmd, byte |-> byte]
DriverStep == UNCHANGED <<fast, job, config, expects, ps2Keyboard>>

-----------------------------------------------------------------------------
(***************************************************************************)
(* PS2_IssueCommand.  Its loop starts at the byte after the one that is to *)
(* be sent again, as i = 0 is followed by i++.                             *)
(***************************************************************************)
SetScanset2 == <<Byte("GETSET_SCANSET"), Byte("SET2")>>

\* Mutant: a byte is sent again for ever.
LoopNeverGivesUp(n) == i < n
LoopGoesOn(n) == i < n /\ NrResends < MAX_RESENDS

Answered(next) ==
    /\ IF Response'.kind = "RESEND"
       THEN i' = 1 /\ NrResends' = NrResends + 1
       ELSE i' = i + 1 /\ UNCHANGED NrResends
    /\ regStep' = next

\* PS2_CMD_READ_CONT_CFG_BYTE, one byte, to the command port.
IssueToCommandPort ==
    /\ regStep = "ccb:send" /\ Send(TRUE, Byte("READ_CCB"))
    /\ regStep' = "ccb:read"
    /\ UNCHANGED <<i, NrResends, Response, data, obf, routed, edge>> /\ DriverStep

\* The answer of a command to the controller is read once the command is taken.
\* Mutant: it is left in the buffer.
PeekConfiguration ==
    /\ regStep = "ccb:read" /\ ibf = NoByte /\ (fast => obf)
    /\ Response' = data /\ UNCHANGED obf
    /\ regStep' = "ccb:command" /\ i' = 0 /\ NrResends' = 0
    /\ UNCHANGED <<ibf, data, routed, edge>> /\ DriverStep
ReadConfiguration ==
    /\ regStep = "ccb:read" /\ ibf = NoByte /\ (fast => obf)
    /\ Response' = data /\ obf' = FALSE
    /\ regStep' = "ccb:command" /\ i' = 0 /\ NrResends' = 0
    /\ UNCHANGED <<ibf, data, routed, edge>> /\ DriverStep

\* Mutant: the configuration is written back as it was read.
SameFlags(b) == b.flags
\* Mutant: nothing but the translation is left on.
InvertedFlags(b) == {"TRANSLATE"}
WithoutTranslate(b) == b.flags \ {"TRANSLATE"}

\* Mutant: the driver waits for an answer, which the controller does not give.
WriteAndWait ==
    \/ /\ regStep = "ccb:command" /\ Send(TRUE, Byte("WRITE_CCB"))
       /\ regStep' = "ccb:write"
       /\ UNCHANGED <<i, NrResends, Response, data, obf, routed, edge>> /\ DriverStep
    \/ /\ regStep = "ccb:write" /\ Send(FALSE, Ccb(WithoutTranslate(Response)))
       /\ regStep' = "set:read"
       /\ UNCHANGED <<i, NrResends, Response, data, obf, routed, edge>> /\ DriverStep
WriteConfiguration ==
    \/ /\ regStep = "ccb:command" /\ Send(TRUE, Byte("WRITE_CCB"))
       /\ regStep' = "ccb:write"
       /\ UNCHANGED <<i, NrResends, Response, data, obf, routed, edge>> /\ DriverStep
    \/ /\ regStep = "ccb:write" /\ Send(FALSE, Ccb(WithoutTranslate(Response)))
       /\ regStep' = "set:send"
       /\ UNCHANGED <<i, NrResends, Response, data, obf, routed, edge>> /\ DriverStep

\* PS2_CMD_GETSET_SCANSET to the keyboard, byte by byte, and Register's test of
\* the last answer.
IssueToKeyboard ==
    /\ regStep = "set:send"
    /\ IF LoopGoesOn(Len(SetScanset2))
       THEN Send(FALSE, SetScanset2[i + 1]) /\ regStep' = "set:read"
       ELSE regStep' = (IF Response.kind = "ACK" THEN "route" ELSE "failed") /\ UNCHANGED ibf
    /\ UNCHANGED <<i, NrResends, Response, data, obf, routed, edge>> /\ DriverStep

ReadAnswer ==
    /\ regStep = "set:read" /\ obf /\ (fast => Settled)
    /\ Response' = data /\ obf' = FALSE
    /\ Answered("set:send")
    /\ UNCHANGED <<ibf, data, routed, edge>> /\ DriverStep

\* SetHardwareInterrupt and SetRedirectIRQ.
Route ==
    /\ regStep = "route"
    /\ routed' = TRUE /\ regStep' = "registered"
    /\ UNCHANGED <<i, NrResends, Response, ibf, data, obf, edge>> /\ DriverStep

\* PS2_KeyboardInterrupt reads the byte.
KeyboardInterrupt ==
    /\ edge /\ edge' = FALSE /\ obf' = FALSE
    /\ UNCHANGED <<registration, ibf, data, routed>> /\ DriverStep

PS2_KeyboardDriverRegister ==
    \/ IssueToCommandPort \/ ReadConfiguration \/ WriteConfiguration
    \/ IssueToKeyboard \/ ReadAnswer \/ Route

-----------------------------------------------------------------------------
(***************************************************************************)
(* The controller and the keyboard.  The controller takes a command that   *)
(* has an answer when there is room for it.  A byte for the keyboard       *)
(* enables its port, and while that is disabled the keyboard keeps its own.*)
(***************************************************************************)
Offer(byte) ==
    /\ data' = byte /\ obf' = TRUE
    /\ edge' = (edge \/ (routed /\ "INT" \in config))

KeyboardTakes(byte) ==
    \/ /\ faults < MAX_FAULTS /\ faults' = faults + 1
       /\ out' = Append(out, Byte("RESEND"))
       /\ UNCHANGED <<scanset, awaits, keys>>
    \/ /\ LET known == byte.kind = "GETSET_SCANSET" \/ (byte.kind = "SET2" /\ awaits) IN
          /\ out' = Append(out, Byte(IF known THEN "ACK" ELSE "RESEND"))
          /\ awaits' = (byte.kind = "GETSET_SCANSET")
          /\ scanset' = IF known /\ byte.kind = "SET2" THEN 2 ELSE scanset
       /\ UNCHANGED <<faults, keys>>

Take ==
    /\ ibf # NoByte /\ job = NoByte
    /\ job' = ibf /\ ibf' = NoByte
    /\ UNCHANGED <<fast, registration, data, obf, config, expects, ps2Keyboard, routed, edge>>

Work ==
    /\ job # NoByte /\ job' = NoByte
    /\ CASE job.cmd /\ job.byte.kind = "READ_CCB" ->
              /\ ~obf /\ Offer(Ccb(config))
              /\ UNCHANGED <<config, expects, ps2Keyboard>>
         [] job.cmd /\ job.byte.kind = "WRITE_CCB" ->
              /\ expects' = TRUE /\ UNCHANGED <<data, obf, edge, config, ps2Keyboard>>
         [] ~job.cmd /\ expects ->
              /\ config' = job.byte.flags /\ expects' = FALSE
              /\ UNCHANGED <<data, obf, edge, ps2Keyboard>>
         [] ~job.cmd /\ ~expects ->
              /\ KeyboardTakes(job.byte) /\ config' = config \ {"DISABLED"}
              /\ UNCHANGED <<data, obf, edge, expects>>
    /\ UNCHANGED <<fast, registration, ibf, routed>>

HandOver ==
    /\ out # <<>> /\ "DISABLED" \notin config /\ ~obf /\ Offer(Head(out))
    /\ out' = Tail(out)
    /\ UNCHANGED <<fast, registration, ibf, job, config, expects, scanset, awaits, faults, keys, routed>>

PressKey ==
    /\ regStep = "registered" /\ keys < MAX_KEYS
    /\ keys' = keys + 1 /\ out' = Append(out, Byte("SCAN"))
    /\ UNCHANGED <<fast, registration, ibf, job, data, obf, config, expects, scanset, awaits, faults, routed, edge>>

Hardware == Take \/ Work \/ HandOver

Ps2Next == PS2_KeyboardDriverRegister \/ KeyboardInterrupt \/ Hardware \/ PressKey

\* The driver polls, the controller and the keyboard work.
Ps2Fairness ==
    /\ WF_ps2Vars(PS2_KeyboardDriverRegister) /\ WF_ps2Vars(KeyboardInterrupt)
    /\ WF_ps2Vars(Take) /\ WF_ps2Vars(Work) /\ WF_ps2Vars(HandOver)

Ps2Spec == Ps2Init /\ [][Ps2Next]_ps2Vars /\ Ps2Fairness

-----------------------------------------------------------------------------
Ps2TypeOK ==
    /\ i \in 0..Len(SetScanset2) /\ NrResends \in 0..MAX_RESENDS
    /\ config \subseteq ConfigFlags /\ scanset \in {1, 2}
    /\ obf \in BOOLEAN /\ awaits \in BOOLEAN /\ edge \in BOOLEAN

\* The driver registers only a keyboard that it can understand: scancode set 2 is
\* selected, however often a byte had to be sent again, nothing translates it,
\* and the controller raises interrupts, if the hardware answers before the
\* driver looks.
RegisteredIsConfigured ==
    fast /\ regStep = "registered" => scanset = 2 /\ config = {"INT"}

\* Whatever the controller answers and whenever, the keys are not translated
\* behind the back of a driver that decodes set 2.
TranslationIsOff == regStep \in {"route", "registered"} => "TRANSLATE" \notin config

\* All three: a registered keyboard uses scancode set 2, and the translation is
\* off however slow the controller is (PS2_KeyboardDriverRegister).
KeyboardIsConfigured == Ps2TypeOK /\ RegisteredIsConfigured /\ TranslationIsOff

\* Polling never waits for a byte that nobody will send.
RegistrationEnds == <>(regStep \in {"registered", "failed"})

\* No answer stays behind in the output buffer when the interrupt is routed: it
\* would hold up the first key without an edge that tells of it.  A slow answer
\* does that.
KeysAreSeen == []<>(fast => out = <<>>)
=============================================================================
