------------------------------- MODULE JtagSC -------------------------------
(***************************************************************************)
(* The JTAG interface behind the debug unit (bench/sysc/src/JtagSC.cpp):    *)
(* processActions drives TMS and TDI at every edge of TCK, as the action at *)
(* hand tells it (TapAction*.cpp), and follows the TAP of the target in a   *)
(* state machine of its own (TapStateMachine.cpp).                         *)
(*                                                                         *)
(* One deterministic actor: a state j is followed over the edges.  The     *)
(* signals take effect at the next edge, so the TAP of the target, which   *)
(* is the one of IEEE 1149.1, is always an edge behind the state machine.  *)
(* A scan register of the target is the sequence of its bits, the one that *)
(* leaves first in front.  Pausing scans, which no caller asks for, are    *)
(* left out.                                                               *)
(***************************************************************************)
EXTENDS Naturals, Sequences

ScanKind == {"DR", "IR"}

\* The states of a scan have the kind as a second component.
Tap(name, kind) == <<name, kind>>

TEST_LOGIC_RESET == Tap("TEST_LOGIC_RESET", "none")
RUN_TEST_IDLE    == Tap("RUN_TEST_IDLE", "none")

ScanName == {"SELECT", "CAPTURE", "SHIFT", "EXIT1", "PAUSE", "EXIT2", "UPDATE"}

TapState == {TEST_LOGIC_RESET, RUN_TEST_IDLE} \cup (ScanName \X ScanKind)

mapHigh(state) ==
  LET kind == state[2] IN
    CASE state[1] = "TEST_LOGIC_RESET"         -> TEST_LOGIC_RESET
      [] state = Tap("SELECT", "DR")           -> Tap("SELECT", "IR")
      [] state = Tap("SELECT", "IR")           -> TEST_LOGIC_RESET
      [] state[1] \in {"CAPTURE", "SHIFT"}     -> Tap("EXIT1", kind)
      [] state[1] \in {"EXIT1", "EXIT2"}       -> Tap("UPDATE", kind)
      [] state[1] = "PAUSE"                    -> Tap("EXIT2", kind)
      [] state[1] \in {"RUN_TEST_IDLE", "UPDATE"} -> Tap("SELECT", "DR")

mapLow(state) ==
  LET kind == state[2] IN
    CASE state[1] \in {"TEST_LOGIC_RESET", "RUN_TEST_IDLE", "UPDATE"} -> RUN_TEST_IDLE
      [] state[1] = "SELECT"                        -> Tap("CAPTURE", kind)
      [] state[1] \in {"CAPTURE", "SHIFT", "EXIT2"} -> Tap("SHIFT", kind)
      [] state[1] \in {"EXIT1", "PAUSE"}            -> Tap("PAUSE", kind)

nextState(state, tms) == IF tms THEN mapHigh(state) ELSE mapLow(state)

\* The targets for which the map of targetState has a 0, that is a low TMS.
LowFor(state) ==
  LET Here(names) == names \X {state[2]} IN
    CASE state = TEST_LOGIC_RESET                -> TapState \ {TEST_LOGIC_RESET}
      [] state[1] \in {"RUN_TEST_IDLE", "UPDATE"} -> {RUN_TEST_IDLE}
      [] state[1] = "SELECT"                     -> Here(ScanName \ {"SELECT"})
      [] state[1] \in {"CAPTURE", "SHIFT"}       -> Here({"SHIFT"})
      [] state[1] \in {"EXIT1", "EXIT2"}         -> Here({"SHIFT", "EXIT1", "PAUSE", "EXIT2"})
      [] state[1] = "PAUSE"                      -> Here({"PAUSE"})

targetState(state, target) == target \notin LowFor(state)

-----------------------------------------------------------------------------
(* An edge of TCK.                                                         *)

CONSTANT TAP_RESET_CYCLES

\* What the target does with the signals of the edge before: its TAP moves, the
\* register of the scan is loaded, shifted or put to use.
TargetEdge(j) ==
  [j EXCEPT !.hw = nextState(@, j.tms),
            !.reg = CASE j.hw[1] = "CAPTURE" -> j.captured
                      [] j.hw[1] = "SHIFT"   -> Append(Tail(@), j.tdi)
                      [] OTHER               -> @,
            !.used = IF j.hw[1] = "UPDATE" THEN j.reg ELSE @]

\* nextState follows the TMS that is driven.
Drive(j, tms) == [TargetEdge(j) EXCEPT !.tms = tms, !.sw = nextState(j.sw, tms)]

\* TapAction::checkResetDone, as far as TapActionReset uses it.
ResetEdge(j) ==
  [Drive(j, TRUE) EXCEPT
     !.resetCounter = (j.resetCounter + 1) % TAP_RESET_CYCLES,
     !.done = j.resetCounter + 1 = TAP_RESET_CYCLES]

\* [mutant] TDO is taken for the state of the same edge.
ScanEdge_Early(j) ==
  LET n == Len(j.in)
      shift == Tap("SHIFT", j.kind)
      update == Tap("UPDATE", j.kind)
      read == IF j.shifted < n THEN Append(j.out, Head(j.reg)) ELSE j.out
  IN IF j.shifted = 0 /\ j.sw # shift THEN Drive(j, targetState(j.sw, shift))
     ELSE IF j.shifted < n
     THEN [Drive(j, j.shifted + 1 = n) EXCEPT
             !.tdi = j.in[j.shifted + 1], !.out = read, !.shifted = @ + 1]
     ELSE [Drive(j, targetState(j.sw, update)) EXCEPT !.out = read, !.done = j.sw = update]

\* TapActionIRScan::process and TapActionDRScan::process.  TDO is the first bit of
\* the register, and comes an edge late.
ScanEdge(j) ==
  LET n == Len(j.in)
      shift == Tap("SHIFT", j.kind)
      update == Tap("UPDATE", j.kind)
      read == IF j.shifted > 0 /\ Len(j.out) < n THEN Append(j.out, Head(j.reg)) ELSE j.out
  IN IF j.shifted = 0 /\ j.sw # shift THEN Drive(j, targetState(j.sw, shift))
     ELSE IF j.shifted < n
     THEN [Drive(j, j.shifted + 1 = n) EXCEPT
             !.tdi = j.in[j.shifted + 1], !.out = read, !.shifted = @ + 1]
     ELSE [Drive(j, targetState(j.sw, update)) EXCEPT !.out = read, !.done = j.sw = update]

\* Without an action TMS is to lead to Run-Test/Idle; the state machine stays.
IdleEdge(j) == [TargetEdge(j) EXCEPT !.tms = targetState(j.sw, RUN_TEST_IDLE)]

-----------------------------------------------------------------------------
(* Actions from start to end.                                              *)

\* A target whose scan register captures the given bits, and JtagSC beside it.
Start(sw, hw, tms) ==
  [sw |-> sw, hw |-> hw, tms |-> tms, tdi |-> FALSE, reg |-> <<FALSE>>, captured |-> <<FALSE>>,
   used |-> <<>>, resetCounter |-> 0, kind |-> "DR", in |-> <<>>, out |-> <<>>,
   shifted |-> 0, done |-> FALSE]

\* The queue goes on with an action until it is done.
ActionEdge(j) == IF j.done THEN j ELSE IF j.kind = "reset" THEN ResetEdge(j) ELSE ScanEdge(j)

Run(j, edges) ==
  LET after[k \in 0..edges] == IF k = 0 THEN j ELSE ActionEdge(after[k - 1]) IN after[edges]

Reset(j) == Run([j EXCEPT !.kind = "reset", !.done = FALSE], TAP_RESET_CYCLES)

ScanStart(j, kind, in, captured) ==
  [j EXCEPT !.kind = kind, !.in = in, !.captured = captured, !.out = <<>>,
            !.shifted = 0, !.done = FALSE]

\* A scan takes at most five edges to Shift, one for every bit, and two to Update.
Scan(j, kind, in, captured) == Run(ScanStart(j, kind, in, captured), Len(in) + 7)

Idle(j, edges) ==
  LET after[k \in 0..edges] == IF k = 0 THEN j ELSE IdleEdge(after[k - 1]) IN after[edges]

-----------------------------------------------------------------------------
(* Properties.                                                             *)

InStep(j) == j.sw = nextState(j.hw, j.tms)

\* The number of edges the map needs from a state to another; TooFar if it never
\* comes there.
TooFar == 16
Steps(state, target) ==
  LET walk[n \in 0..TooFar] ==
        IF n = 0 THEN state
        ELSE LET at == walk[n - 1] IN
               IF at = target THEN target ELSE nextState(at, targetState(at, target))
      arrived == {n \in 0..TooFar : walk[n] = target}
  IN IF arrived = {} THEN TooFar ELSE CHOOSE n \in arrived : \A m \in arrived : n <= m

\* The map of targetState leads from every state to every other, and no other
\* choice of TMS on the way makes it shorter (TapStateMachine.cpp:133).
TapMapOptimal ==
  \A s, t \in TapState : s # t =>
    /\ Steps(s, t) < TooFar
    /\ \A tms \in BOOLEAN : Steps(s, t) <= Steps(nextState(s, tms), t) + 1

\* Whatever states the two are in, a reset brings them together.
ResetRight ==
  \A sw, hw \in TapState, tms \in BOOLEAN :
    LET j == Reset(Start(sw, hw, tms)) IN
      j.done /\ InStep(j) /\ j.sw = TEST_LOGIC_RESET

Bits == UNION {[1..n -> BOOLEAN] : n \in 1..3}

\* The action has read what the target captured, and the target uses what the
\* action wrote as soon as TMS has taken effect.
Exchanged(j, in, captured) ==
  /\ j.done /\ InStep(j)
  /\ j.out = captured
  /\ TargetEdge(j).used = in

\* After a reset, idle or not, and after another scan, a scan exchanges the bits.
ScanRight ==
  \A first, kind \in ScanKind, in \in Bits, n \in 0..3 :
    \A captured \in [DOMAIN in -> BOOLEAN] :
      LET ready == Idle(Reset(Start(TEST_LOGIC_RESET, RUN_TEST_IDLE, FALSE)), n)
          once == Scan(ready, first, captured, in)
      IN /\ Exchanged(Scan(ready, kind, in, captured), in, captured)
         /\ Exchanged(once, captured, in)
         /\ Exchanged(Scan(once, kind, in, captured), in, captured)

\* After a scan there must be the next one: idle edges lead to Test-Logic-Reset,
\* not to Run-Test/Idle, and the state machine does not follow.
IdleAfterScanLoses ==
  \A kind \in ScanKind, n \in 1..3 :
    LET once == Scan(Reset(Start(TEST_LOGIC_RESET, RUN_TEST_IDLE, FALSE)), kind, <<TRUE>>, <<TRUE>>)
    IN ~InStep(Idle(once, n))

=============================================================================
