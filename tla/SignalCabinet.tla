---------------------------- MODULE SignalCabinet ----------------------------
(***************************************************************************)
(* The edge gateway of one junction: SignalControllerBridge and the        *)
(* VirtualCabinetEmulator of iot/edge/signal_controller_bridge.py.  Here a *)
(* Modbus frame is what it switches on; its bytes are in Gateway.          *)
(*                                                                         *)
(* coils    what is lit: lamp <<approach, aspect>> is coil 3*approach +    *)
(*          aspect, approaches in the order N, E, S, W, aspects R, A, G    *)
(* flash    flash_mode                                                     *)
(* tx_id    _tx_id, the transaction id of the last Modbus frame            *)
(* frame    the lamps the last Modbus frame switches on; the others go off *)
(* report   cabinet_diagnostics of the last answer                         *)
(* raised   the action whose dispatch_command raised last, or "none"       *)
(***************************************************************************)
EXTENDS Naturals

CONSTANTS
  Actions,   \* actions the callers dispatch, in upper case
  TxLimit    \* the largest id struct.pack(">H") takes: 65535 in the code

ASSUME CabinetAssumption == TxLimit \in Nat \ {0}

VARIABLES coils, flash, tx_id, frame, report, raised
cabinet == <<coils, flash, tx_id, frame, report, raised>>

Approaches == {"N", "E", "S", "W"}
Lamps == Approaches \X {"R", "A", "G"}

\* The three pictures the code knows.
AllRed == Approaches \X {"R"}
NorthSouth == {<<"N", "G">>, <<"S", "G">>, <<"E", "R">>, <<"W", "R">>}
EastWest == {<<"E", "G">>, <<"W", "G">>, <<"N", "R">>, <<"S", "R">>}

Holds == {"HOLD_GREEN", "EXTEND_GREEN"}
None == [status |-> "none", aspects |-> {}]

CabinetInit ==
  /\ coils = NorthSouth /\ flash = FALSE
  /\ tx_id = 1
  /\ frame = {} /\ report = None /\ raised = "none"

-----------------------------------------------------------------------------
(* VirtualCabinetEmulator.apply_override *)

\* Mutant: a phase skip lights its lamps on top of those that are lit.
CoilsAfterOnTop(a) ==
  CASE a = "FLASH_ALL_RED" -> AllRed
    [] a = "PHASE_SKIP" -> coils \cup EastWest
    [] OTHER -> coils
\* Hold actions write no coil.
CoilsAfter(a) ==
  CASE a = "FLASH_ALL_RED" -> AllRed
    [] a = "PHASE_SKIP" -> EastWest
    [] OTHER -> coils

FlashAfter(a) ==
  CASE a = "FLASH_ALL_RED" -> TRUE
    [] a \in Holds \cup {"PHASE_SKIP"} -> FALSE
    [] OTHER -> flash

ReportAfter(a) ==
  CASE a = "FLASH_ALL_RED" -> [status |-> "APPLIED", aspects |-> AllRed]
    [] a = "PHASE_SKIP" -> [status |-> "APPLIED", aspects |-> EastWest]
    [] a \in Holds -> [status |-> "APPLIED", aspects |-> NorthSouth]
    [] OTHER -> [status |-> "UNKNOWN_ACTION", aspects |-> {}]

-----------------------------------------------------------------------------
(* SignalControllerBridge.dispatch_command *)

\* Every other action, also one nobody knows, sends north-south green.
FrameFor(a) ==
  CASE a = "FLASH_ALL_RED" -> AllRed
    [] a = "PHASE_SKIP" -> EastWest
    [] OTHER -> NorthSouth

\* Mutant: each of the two encoders takes an id of its own.
NextTxTwice == tx_id + 2
NextTx == tx_id + 1

dispatch_command(a) ==
  /\ tx_id < TxLimit
  /\ tx_id' = NextTx
  /\ frame' = FrameFor(a)
  /\ coils' = CoilsAfter(a) /\ flash' = FlashAfter(a)
  /\ report' = ReportAfter(a)
  /\ raised' = "none"

\* The id does not fit any more: struct.pack raises, before the frame is built
\* and the cabinet is told.  That the id goes on counting changes nothing.
dispatch_raises(a) ==
  /\ tx_id = TxLimit
  /\ raised' = a
  /\ UNCHANGED <<coils, flash, tx_id, frame, report>>

CabinetNext == \E a \in Actions : dispatch_command(a) \/ dispatch_raises(a)

CabinetSpec == CabinetInit /\ [][CabinetNext]_cabinet

-----------------------------------------------------------------------------
(* Properties *)

\* Type invariant.
CabinetTypeOK ==
  /\ coils \subseteq Lamps /\ frame \subseteq Lamps
  /\ flash \in BOOLEAN
  /\ tx_id \in 1 .. TxLimit
  /\ report.aspects \subseteq Lamps
  /\ raised \in Actions \cup {"none"}

\* Some approach of A is green.
Green(A, lamps) == \E p \in A : <<p, "G">> \in lamps

\* A picture is safe: every approach shows one aspect, and conflicting
\* approaches are never green together.
Safe(lamps) ==
  /\ \A p \in Approaches : \E s \in {"R", "A", "G"} :
       lamps \cap ({p} \X {"R", "A", "G"}) = {<<p, s>>}
  /\ ~(Green({"N", "S"}, lamps) /\ Green({"E", "W"}, lamps))

\* After any sequence of commands the lamps are safe, on the cabinet and on the
\* relay board that the frames go to ("enforces safety interlocks"), and a
\* flashing cabinet is all red.
SafetyInterlocks ==
  /\ Safe(coils) /\ (frame # {} => Safe(frame))
  /\ flash => coils = AllRed
=============================================================================
