--------------------------- MODULE StdioWrapProofs ---------------------------
(***************************************************************************)
(* What StdioWrap promises, for every value of its constants.              *)
(*                                                                         *)
(* Of its wire: every variable keeps its kind and every cursor stays in    *)
(* its stream, the gate holds, the client's order is kept, a frame has one *)
(* outcome, and a server frame is never split.                             *)
(*                                                                         *)
(* Of its database: nothing is missing on a side without a reason on       *)
(* record, a frame is recorded after it crossed and in order, a gap in the *)
(* record is announced, and run_wrap returns with everything settled.      *)
(*                                                                         *)
(* And that its pumps implement GatedWire.                                 *)
(*                                                                         *)
(* Each is proved from an invariant that says where the pump stands when   *)
(* the promise is at stake.                                                *)
(***************************************************************************)
EXTENDS WrapRefinement, FiniteSetTheorems, SequenceTheorems, TLAPS

USE DEF Pumps

(***************************************************************************)
(* Type correctness. TypeInv adds to TypeOK what the program counters say  *)
(* about the cursors: a pump past its read has taken a chunk, and events   *)
(* are owed only in "ev".                                                  *)
(***************************************************************************)
BusyInv ==
  /\ \A p \in Pumps : pc[p] \notin {"read", "done"} => rd[p] > 0
  /\ pc["c2s"] = "ev" => left > 0

TypeInv == TypeOK /\ BusyInv

\* What a step leaves alone stays well typed.
LEMMA KeepParties == PartiesOK /\ UNCHANGED <<clientVars, serverVars>> => PartiesOK'
BY DEF PartiesOK, clientVars, serverVars

LEMMA KeepWire == WireOK /\ UNCHANGED wireVars => WireOK'
BY DEF WireOK, wireVars

LEMMA KeepPumps == PumpsOK /\ BusyInv /\ UNCHANGED pumpVars => PumpsOK' /\ BusyInv'
BY DEF PumpsOK, BusyInv, pumpVars

LEMMA KeepCursors ==
  CursorsOK /\ UNCHANGED <<sent, emitted, rd>> => CursorsOK'
BY DEF CursorsOK

LEMMA KeepStore == StoreOK /\ UNCHANGED <<tapVars, storeVars, main>> => StoreOK'
BY DEF StoreOK, tapVars, storeVars, Messages

\* A try_send keeps the channel a sequence of messages and the latches Booleans.
LEMMA TrySendType ==
  ASSUME StoreOK, UNCHANGED <<storeVars, main>>,
         NEW p \in Pumps, NEW kind \in {"tap", "sec", "inj", "over"}, NEW i \in Nat,
         TrySend(p, Msg(kind, p, i))
  PROVE  StoreOK'
<1>1. Msg(kind, p, i) \in Messages
  BY DEF Msg, Messages
<1>2. Append(chan, Msg(kind, p, i)) \in Seq(Messages)
  BY <1>1 DEF StoreOK
<1>3. chan' \in Seq(Messages) /\ logged' \in [Pumps -> BOOLEAN]
  BY <1>2 DEF TrySend, StoreOK
<1>4. QED
  BY <1>3 DEF StoreOK, storeVars, Messages

\* What a pump writes is of the wire's kind.
LEMMA ToServerType ==
  ASSUME WireOK, NEW n \in Nat, NEW w \in BOOLEAN
  PROVE  Append(toServer, [i |-> n, whole |-> w]) \in Seq([i : Nat, whole : BOOLEAN])
BY DEF WireOK

StdoutParts == [p : {"body", "nl", "cut", "err", "resp", "raw", "end", "rem"}, i : Nat]

LEMMA StdoutType ==
  ASSUME WireOK, NEW part \in {"body", "nl", "cut", "err", "resp", "raw", "end", "rem"},
         NEW n \in Nat
  PROVE  Append(stdout, [p |-> part, i |-> n]) \in Seq(StdoutParts)
<1>1. [p |-> part, i |-> n] \in StdoutParts
  BY DEF StdoutParts
<1>2. stdout \in Seq(StdoutParts)
  BY DEF WireOK, StdoutParts
<1>3. QED
  BY <1>1, <1>2

LEMMA InitTypeInv == Init => TypeInv
<1> SUFFICES ASSUME Init PROVE TypeInv
  OBVIOUS
<1> USE DEF Init
<1>1. PartiesOK
  BY DEF PartiesOK
<1>2. WireOK
  BY DEF WireOK
<1>3. PumpsOK /\ BusyInv
  BY DEF PumpsOK, BusyInv, C2sPcs, S2cPcs
<1>4. CursorsOK
  BY DEF CursorsOK
<1>5. StoreOK
  BY DEF StoreOK
<1>6. QED
  BY <1>1, <1>2, <1>3, <1>4, <1>5 DEF TypeInv, TypeOK

LEMMA EnvironmentTypeInv == TypeInv /\ Environment => TypeInv'
<1> SUFFICES ASSUME PartiesOK, WireOK, PumpsOK, CursorsOK, StoreOK, BusyInv, Environment
             PROVE  TypeInv'
  BY DEF TypeInv, TypeOK
<1> USE DEF ClientSend, ClientClose, ClientStopsReading, ServerSend, ServerClosesStdin,
      ServerExit, clientVars, serverVars
<1>1. UNCHANGED <<wireVars, pumpVars, tapVars, storeVars, main>>
  BY DEF Environment
<1>2. WireOK' /\ PumpsOK' /\ BusyInv' /\ StoreOK'
  BY <1>1, KeepWire, KeepPumps, KeepStore
<1>3. rd' = rd /\ rd["c2s"] \in Nat /\ rd["s2c"] \in Nat
  BY <1>1 DEF pumpVars, PumpsOK
<1>4. PartiesOK'
  <2>1. /\ \A c \in ClientChunks \cup {Rem} : Append(sent, c) \in Seq(ClientChunks \cup {Rem})
        /\ \A c \in ServerChunks \cup {Rem} : Append(emitted, c) \in Seq(ServerChunks \cup {Rem})
    BY DEF PartiesOK
  <2>2. /\ sent' \in Seq(ClientChunks \cup {Rem})
        /\ emitted' \in Seq(ServerChunks \cup {Rem})
    BY <2>1 DEF Environment, PartiesOK
  <2>3. QED
    BY <2>2 DEF Environment, PartiesOK
<1>5. CursorsOK'
  <2>1. /\ \E c \in ClientChunks \cup {Rem} : sent' \in {sent, Append(sent, c)}
        /\ \E c \in ServerChunks \cup {Rem} : emitted' \in {emitted, Append(emitted, c)}
    BY DEF Environment, PartiesOK
  <2>2. Len(sent') >= Len(sent) /\ Len(emitted') >= Len(emitted)
    BY <2>1 DEF PartiesOK
  <2>3. /\ Len(sent) \in Nat /\ Len(sent') \in Nat
        /\ Len(emitted) \in Nat /\ Len(emitted') \in Nat
    BY <1>4 DEF PartiesOK
  <2>4. QED
    BY <1>3, <2>2, <2>3 DEF CursorsOK
<1>6. QED
  BY <1>2, <1>4, <1>5 DEF TypeInv, TypeOK

\* What the pumps leave alone.
LEMMA PumpFrame == PumpC2s \/ PumpS2c => UNCHANGED outerVars
BY DEF PumpC2s, C2sDecide, C2sDropRaw, C2sForwardRaw, C2sWake, C2sForward, C2sLock,
   C2sRespond, C2sInject, C2sTap, C2sEvent, C2sEof, PumpS2c, S2cRead, S2cWake, S2cLock,
   S2cWrite, S2cNewline, S2cInject, S2cTap, S2cEof

LEMMA PumpC2sTypeInv == TypeInv /\ PumpC2s => TypeInv'
<1> SUFFICES ASSUME PartiesOK, WireOK, PumpsOK, CursorsOK, StoreOK, BusyInv, PumpC2s
             PROVE  TypeInv'
  BY DEF TypeInv, TypeOK
<1>1. UNCHANGED <<clientVars, serverVars, storeVars, main>> /\ PartiesOK'
  BY PumpFrame, KeepParties DEF outerVars
<1>2. UNCHANGED <<sent, emitted>>
  BY <1>1 DEF clientVars, serverVars
<1>3. /\ rd \in [Pumps -> Nat] /\ pc \in [Pumps -> C2sPcs \cup S2cPcs]
      /\ Len(sent) \in Nat /\ Len(emitted) \in Nat
      /\ rd["c2s"] \in Nat /\ rd["c2s"] + 1 \in Nat
  BY DEF PumpsOK, PartiesOK
<1> SUFFICES WireOK' /\ PumpsOK' /\ BusyInv' /\ CursorsOK' /\ StoreOK'
  BY <1>1 DEF TypeInv, TypeOK
<1> USE DEF Goto, CanRead, Take, C2sPcs, S2cPcs
<1>4. CASE C2sDecide
  <2>1. WireOK' /\ StoreOK'
    BY <1>1, <1>4, KeepWire, KeepStore DEF C2sDecide
  <2>2. NextC2s \in ClientChunks \cup {Rem}
    BY <1>3, <1>4 DEF C2sDecide, NextC2s, PartiesOK
  <2>3. NextC2s.hits \in Nat
    BY <2>2, StdioWrapAssumption DEF Rem
  <2>4. \E at \in C2sPcs \ {"ev"} : pc' = [pc EXCEPT !["c2s"] = at]
    BY <1>4, StdioWrapAssumption DEF C2sDecide
  <2>5. fault' \in [Pumps -> Faults \cup {"none"}]
    BY <1>4 DEF C2sDecide, PumpsOK
  <2>6. rd' = [rd EXCEPT !["c2s"] = @ + 1] /\ left' \in Nat /\ dropping' = dropping
    BY <1>4, <2>3 DEF C2sDecide
  <2>7. CursorsOK'
    BY <1>2, <1>3, <1>4, <2>6 DEF C2sDecide, CursorsOK
  <2>8. PumpsOK' /\ BusyInv'
    BY <1>3, <2>4, <2>5, <2>6 DEF PumpsOK, BusyInv
  <2>9. QED
    BY <2>1, <2>7, <2>8
<1>5. CASE C2sDropRaw
  <2>1. WireOK'
    BY <1>5, KeepWire DEF C2sDropRaw
  <2>2. StoreOK'
    BY <1>1, <1>3, <1>5, KeepStore, TrySendType DEF C2sDropRaw
  <2>3. CursorsOK'
    BY <1>2, <1>3, <1>5 DEF C2sDropRaw, CursorsOK
  <2>4. PumpsOK' /\ BusyInv'
    BY <1>3, <1>5 DEF C2sDropRaw, StillDropping, PumpsOK, BusyInv
  <2>5. QED
    BY <2>1, <2>2, <2>3, <2>4
<1>6. CASE C2sForwardRaw
  <2>1. StoreOK'
    BY <1>1, <1>6, KeepStore DEF C2sForwardRaw
  <2>2. WireOK'
    <3>1. Append(toServer, [i |-> rd["c2s"] + 1, whole |-> TRUE]) \in Seq([i : Nat, whole : BOOLEAN])
      BY <1>3, ToServerType, Zenon
    <3>2. toServer' \in Seq([i : Nat, whole : BOOLEAN])
      BY <1>6, <3>1 DEF C2sForwardRaw, WireOK
    <3>3. QED
      BY <1>6, <3>2 DEF C2sForwardRaw, WireOK
  <2>3. CursorsOK'
    BY <1>2, <1>3, <1>6 DEF C2sForwardRaw, CursorsOK
  <2>4. PumpsOK' /\ BusyInv'
    BY <1>3, <1>6 DEF C2sForwardRaw, PumpsOK, BusyInv
  <2>5. QED
    BY <2>1, <2>2, <2>3, <2>4
<1>7. CASE C2sWake
  <2>1. WireOK' /\ StoreOK' /\ CursorsOK'
    BY <1>1, <1>2, <1>7, KeepWire, KeepStore, KeepCursors DEF C2sWake
  <2>2. PumpsOK' /\ BusyInv'
    BY <1>3, <1>7 DEF C2sWake, PumpsOK, BusyInv
  <2>3. QED
    BY <2>1, <2>2
<1>8. CASE C2sForward
  <2>1. StoreOK' /\ CursorsOK'
    BY <1>1, <1>2, <1>8, KeepStore, KeepCursors DEF C2sForward
  <2>2. Delivery \in Seq([i : Nat, whole : BOOLEAN])
    BY <1>3 DEF Delivery
  <2>3. toServer \o Delivery \in Seq([i : Nat, whole : BOOLEAN])
    BY <2>2 DEF WireOK
  <2>4. WireOK'
    BY <1>8, <2>3 DEF C2sForward, WireOK
  <2>5. PumpsOK' /\ BusyInv'
    BY <1>3, <1>8 DEF C2sForward, AfterForward, AfterWire, PumpsOK, BusyInv
  <2>6. QED
    BY <2>1, <2>4, <2>5
<1>9. CASE C2sLock
  <2>1. StoreOK' /\ CursorsOK'
    BY <1>1, <1>2, <1>9, KeepStore, KeepCursors DEF C2sLock
  <2>2. WireOK'
    BY <1>9 DEF C2sLock, WireOK
  <2>3. PumpsOK' /\ BusyInv'
    BY <1>3, <1>9 DEF C2sLock, PumpsOK, BusyInv
  <2>4. QED
    BY <2>1, <2>2, <2>3
<1>10. CASE C2sRespond
  <2>1. StoreOK' /\ CursorsOK'
    BY <1>1, <1>2, <1>10, KeepStore, KeepCursors DEF C2sRespond
  <2>2. WireOK'
    <3>1. Append(stdout, [p |-> "resp", i |-> rd["c2s"]]) \in Seq(StdoutParts)
      BY <1>3, StdoutType
    <3>2. QED
      BY <1>10, <3>1 DEF C2sRespond, WireOK, StdoutParts
  <2>3. PumpsOK' /\ BusyInv'
    BY <1>3, <1>10 DEF C2sRespond, AfterWire, PumpsOK, BusyInv
  <2>4. QED
    BY <2>1, <2>2, <2>3
<1>11. CASE C2sInject
  <2>1. WireOK' /\ CursorsOK'
    BY <1>2, <1>11, KeepWire, KeepCursors DEF C2sInject
  <2>2. StoreOK'
    BY <1>1, <1>3, <1>11, TrySendType DEF C2sInject
  <2>3. PumpsOK' /\ BusyInv'
    BY <1>3, <1>11 DEF C2sInject, PumpsOK, BusyInv
  <2>4. QED
    BY <2>1, <2>2, <2>3
<1>12. CASE C2sTap
  <2>1. WireOK' /\ CursorsOK'
    BY <1>2, <1>12, KeepWire, KeepCursors DEF C2sTap
  <2>2. StoreOK'
    BY <1>1, <1>3, <1>12, KeepStore, TrySendType DEF C2sTap
  <2>3. PumpsOK' /\ BusyInv'
    BY <1>3, <1>12 DEF C2sTap, EventsOwed, PumpsOK, BusyInv
  <2>4. QED
    BY <2>1, <2>2, <2>3
<1>13. CASE C2sEvent
  <2>1. WireOK' /\ CursorsOK'
    BY <1>2, <1>13, KeepWire, KeepCursors DEF C2sEvent
  <2>2. StoreOK'
    BY <1>1, <1>3, <1>13, TrySendType DEF C2sEvent, EventMsg
  <2>3. PumpsOK' /\ BusyInv'
    BY <1>3, <1>13 DEF C2sEvent, LastEvent, PumpsOK, BusyInv
  <2>4. QED
    BY <2>1, <2>2, <2>3
<1>14. CASE C2sEof
  <2>1. StoreOK'
    BY <1>1, <1>14, KeepStore DEF C2sEof
  <2>2. WireOK'
    <3>1. Append(toServer, [i |-> rd["c2s"] + 1, whole |-> TRUE]) \in Seq([i : Nat, whole : BOOLEAN])
      BY <1>3, ToServerType, Zenon
    <3>2. toServer' \in Seq([i : Nat, whole : BOOLEAN])
      BY <1>14, <3>1 DEF C2sEof, WireOK
    <3>3. QED
      BY <1>14, <3>2 DEF C2sEof, WireOK
  <2>3. CursorsOK'
    BY <1>2, <1>3, <1>14 DEF C2sEof, CursorsOK
  <2>4. PumpsOK' /\ BusyInv'
    BY <1>3, <1>14 DEF C2sEof, PumpsOK, BusyInv
  <2>5. QED
    BY <2>1, <2>2, <2>3, <2>4
<1>15. QED
  BY <1>4, <1>5, <1>6, <1>7, <1>8, <1>9, <1>10, <1>11, <1>12, <1>13, <1>14 DEF PumpC2s

\* The shape of what pump_s2c writes first.
LEMMA PartType ==
  TypeInv /\ pc["s2c"] = "write" => Part \in {"body", "cut", "err", "raw", "end", "rem"}
<1> SUFFICES ASSUME TypeInv, pc["s2c"] = "write"
             PROVE  Part \in {"body", "cut", "err", "raw", "end", "rem"}
  OBVIOUS
<1>1. rd["s2c"] \in 1 .. Len(emitted) /\ emitted \in Seq(ServerChunks \cup {Rem})
  BY DEF TypeInv, TypeOK, BusyInv, CursorsOK, PumpsOK, PartiesOK
<1>2. CurS2c \in ServerChunks \cup {Rem}
  BY <1>1 DEF CurS2c
<1>3. CurS2c.t \in {"frame", "raw", "end", "rem"}
  BY <1>2, StdioWrapAssumption DEF Rem
<1>4. QED
  BY <1>3 DEF Part

LEMMA PumpS2cTypeInv == TypeInv /\ PumpS2c => TypeInv'
<1> SUFFICES ASSUME PartiesOK, WireOK, PumpsOK, CursorsOK, StoreOK, BusyInv, PumpS2c
             PROVE  TypeInv'
  BY DEF TypeInv, TypeOK
<1>1. UNCHANGED <<clientVars, serverVars, storeVars, main>> /\ PartiesOK'
  BY PumpFrame, KeepParties DEF outerVars
<1>2. UNCHANGED <<sent, emitted>>
  BY <1>1 DEF clientVars, serverVars
<1>3. /\ rd \in [Pumps -> Nat] /\ pc \in [Pumps -> C2sPcs \cup S2cPcs]
      /\ Len(sent) \in Nat /\ Len(emitted) \in Nat
      /\ rd["s2c"] \in Nat
  BY DEF PumpsOK, PartiesOK
<1> SUFFICES WireOK' /\ PumpsOK' /\ BusyInv' /\ CursorsOK' /\ StoreOK'
  BY <1>1 DEF TypeInv, TypeOK
<1> USE DEF Goto, CanRead, Take, C2sPcs, S2cPcs
<1>4. CASE S2cRead
  <2>1. WireOK' /\ StoreOK'
    BY <1>1, <1>4, KeepWire, KeepStore DEF S2cRead
  <2>2. \E at \in S2cPcs : pc' = [pc EXCEPT !["s2c"] = at]
    BY <1>4, StdioWrapAssumption DEF S2cRead
  <2>3. fault' \in [Pumps -> Faults \cup {"none"}]
    BY <1>4 DEF S2cRead, PumpsOK
  <2>4. rd' = [rd EXCEPT !["s2c"] = @ + 1] /\ left' = left /\ dropping' = dropping
    BY <1>4 DEF S2cRead
  <2>5. CursorsOK'
    BY <1>2, <1>3, <1>4, <2>4 DEF S2cRead, CursorsOK
  <2>6. PumpsOK' /\ BusyInv'
    BY <1>3, <2>2, <2>3, <2>4 DEF PumpsOK, BusyInv
  <2>7. QED
    BY <2>1, <2>5, <2>6
<1>5. CASE S2cWake
  <2>1. WireOK' /\ StoreOK' /\ CursorsOK'
    BY <1>1, <1>2, <1>5, KeepWire, KeepStore, KeepCursors DEF S2cWake
  <2>2. PumpsOK' /\ BusyInv'
    BY <1>3, <1>5 DEF S2cWake, PumpsOK, BusyInv
  <2>3. QED
    BY <2>1, <2>2
<1>6. CASE S2cLock
  <2>1. StoreOK' /\ CursorsOK'
    BY <1>1, <1>2, <1>6, KeepStore, KeepCursors DEF S2cLock
  <2>2. WireOK'
    BY <1>6 DEF S2cLock, WireOK
  <2>3. PumpsOK' /\ BusyInv'
    BY <1>3, <1>6 DEF S2cLock, PumpsOK, BusyInv
  <2>4. QED
    BY <2>1, <2>2, <2>3
<1>7. CASE S2cWrite
  <2>1. StoreOK' /\ CursorsOK'
    BY <1>1, <1>2, <1>7, KeepStore, KeepCursors DEF S2cWrite
  <2>2. rd["s2c"] > 0
    BY <1>7 DEF S2cWrite, BusyInv
  <2>3. Part \in {"body", "cut", "err", "raw", "end", "rem"}
    BY <1>7, PartType DEF S2cWrite, TypeInv, TypeOK
  <2>4. Append(stdout, [p |-> Part, i |-> rd["s2c"]]) \in Seq(StdoutParts)
    BY <1>3, <2>3, StdoutType
  <2>5. WireOK'
    BY <1>7, <2>4 DEF S2cWrite, LockAfterWrite, WireOK, StdoutParts
  <2>6. \E at \in S2cPcs : pc' = [pc EXCEPT !["s2c"] = at]
    BY <1>7, <2>3 DEF S2cWrite
  <2>7. PumpsOK' /\ BusyInv'
    BY <1>3, <1>7, <2>2, <2>6 DEF S2cWrite, PumpsOK, BusyInv
  <2>8. QED
    BY <2>1, <2>5, <2>7
<1>8. CASE S2cNewline
  <2>1. StoreOK' /\ CursorsOK'
    BY <1>1, <1>2, <1>8, KeepStore, KeepCursors DEF S2cNewline
  <2>2. Append(stdout, [p |-> "nl", i |-> rd["s2c"]]) \in Seq(StdoutParts)
    BY <1>3, StdoutType
  <2>3. WireOK'
    BY <1>8, <2>2 DEF S2cNewline, WireOK, StdoutParts
  <2>4. PumpsOK' /\ BusyInv'
    BY <1>3, <1>8 DEF S2cNewline, AfterWire, PumpsOK, BusyInv
  <2>5. QED
    BY <2>1, <2>3, <2>4
<1>9. CASE S2cInject
  <2>1. WireOK' /\ CursorsOK'
    BY <1>2, <1>9, KeepWire, KeepCursors DEF S2cInject
  <2>2. StoreOK'
    BY <1>1, <1>3, <1>9, TrySendType DEF S2cInject
  <2>3. PumpsOK' /\ BusyInv'
    BY <1>3, <1>9 DEF S2cInject, PumpsOK, BusyInv
  <2>4. QED
    BY <2>1, <2>2, <2>3
<1>10. CASE S2cTap
  <2>1. WireOK' /\ CursorsOK'
    BY <1>2, <1>10, KeepWire, KeepCursors DEF S2cTap
  <2>2. StoreOK'
    BY <1>1, <1>3, <1>10, KeepStore, TrySendType DEF S2cTap
  <2>3. PumpsOK' /\ BusyInv'
    BY <1>3, <1>10 DEF S2cTap, PumpsOK, BusyInv
  <2>4. QED
    BY <2>1, <2>2, <2>3
<1>11. CASE S2cEof
  <2>1. WireOK' /\ StoreOK' /\ CursorsOK'
    BY <1>1, <1>2, <1>11, KeepWire, KeepStore, KeepCursors DEF S2cEof
  <2>2. PumpsOK' /\ BusyInv'
    BY <1>3, <1>11 DEF S2cEof, PumpsOK, BusyInv
  <2>3. QED
    BY <2>1, <2>2
<1>12. QED
  BY <1>4, <1>5, <1>6, <1>7, <1>8, <1>9, <1>10, <1>11 DEF PumpS2c

LEMMA MainTypeInv == TypeInv /\ Main => TypeInv'
<1> SUFFICES ASSUME PartiesOK, WireOK, PumpsOK, CursorsOK, StoreOK, BusyInv, Main
             PROVE  TypeInv'
  BY DEF TypeInv, TypeOK
<1>1. CASE C2sCancel
  <2>1. UNCHANGED <<clientVars, serverVars, storeVars, main, tapVars, rd, sent, emitted>>
    BY <1>1 DEF C2sCancel, outerVars, clientVars, serverVars
  <2>2. PartiesOK' /\ StoreOK' /\ CursorsOK'
    BY <2>1, KeepParties, KeepStore, KeepCursors
  <2>3. WireOK'
    BY <1>1 DEF C2sCancel, WireOK
  <2>4. PumpsOK' /\ BusyInv'
    BY <1>1 DEF C2sCancel, Goto, PumpsOK, BusyInv, C2sPcs, S2cPcs
  <2>5. QED
    BY <2>2, <2>3, <2>4 DEF TypeInv, TypeOK
<1>2. CASE MainReap \/ MainAbort \/ MainJoin \/ MainExit
  <2>1. /\ UNCHANGED <<clientVars, serverVars, wireVars, pumpVars, tapVars, storeVars>>
        /\ main' \in {"wait", "drain", "join", "flush", "exit"}
    BY <1>2 DEF MainReap, MainAbort, MainJoin, MainExit, MainStep
  <2>2. UNCHANGED <<sent, emitted, rd>>
    BY <2>1 DEF clientVars, serverVars, pumpVars
  <2>3. PartiesOK' /\ WireOK' /\ PumpsOK' /\ BusyInv' /\ CursorsOK'
    BY <2>1, <2>2, KeepParties, KeepWire, KeepPumps, KeepCursors
  <2>4. StoreOK'
    BY <2>1 DEF StoreOK, tapVars, storeVars, Messages
  <2>5. QED
    BY <2>3, <2>4 DEF TypeInv, TypeOK
<1>3. QED
  BY <1>1, <1>2 DEF Main

LEMMA StorageTypeInv == TypeInv /\ Storage => TypeInv'
<1> SUFFICES ASSUME PartiesOK, WireOK, PumpsOK, CursorsOK, StoreOK, BusyInv, Storage
             PROVE  TypeInv'
  BY DEF TypeInv, TypeOK
<1>1. UNCHANGED <<clientVars, serverVars, wireVars, pumpVars, main>>
  BY DEF Storage, StorageRecv, StorageEnd
<1>2. UNCHANGED <<sent, emitted, rd>>
  BY <1>1 DEF clientVars, serverVars, pumpVars
<1>3. PartiesOK' /\ WireOK' /\ PumpsOK' /\ BusyInv' /\ CursorsOK'
  BY <1>1, <1>2, KeepParties, KeepWire, KeepPumps, KeepCursors
<1>4. StoreOK'
  <2>1. CASE StorageRecv
    <3>1. Head(chan) \in Messages /\ Tail(chan) \in Seq(Messages)
      BY <2>1 DEF StorageRecv, StoreOK
    <3>2. Append(drained, Head(chan)) \in Seq(Messages)
      BY <3>1 DEF StoreOK
    <3>3. chan' \in Seq(Messages) /\ drained' \in Seq(Messages)
      BY <2>1, <3>1, <3>2 DEF StorageRecv
    <3>4. QED
      BY <1>1, <2>1, <3>3 DEF StorageRecv, StoreOK, Messages
  <2>2. CASE StorageEnd
    BY <1>1, <2>2 DEF StorageEnd, StoreOK, tapVars, Messages
  <2>3. QED
    BY <2>1, <2>2 DEF Storage
<1>5. QED
  BY <1>3, <1>4 DEF TypeInv, TypeOK

LEMMA NextTypeInv == TypeInv /\ [Next]_vars => TypeInv'
<1> SUFFICES ASSUME TypeInv, [Next]_vars PROVE TypeInv'
  OBVIOUS
<1>1. CASE Next
  BY <1>1, EnvironmentTypeInv, PumpC2sTypeInv, PumpS2cTypeInv, MainTypeInv,
     StorageTypeInv DEF Next
<1>2. CASE UNCHANGED vars
  <2>1. UNCHANGED <<clientVars, serverVars, wireVars, pumpVars, tapVars, storeVars, main,
                    sent, emitted, rd>>
    BY <1>2 DEF vars, clientVars, serverVars, pumpVars
  <2>2. QED
    BY <2>1, KeepParties, KeepWire, KeepPumps, KeepCursors, KeepStore DEF TypeInv, TypeOK
<1>3. QED
  BY <1>1, <1>2

LEMMA AlwaysTypeInv == Spec => []TypeInv
BY InitTypeInv, NextTypeInv, PTL DEF Spec

\* Every reachable state of the proxy is well typed, and no pump's cursor ever
\* passes the end of the stream it reads.
THEOREM TypeCorrect == Spec => []TypeOK
<1>1. TypeInv => TypeOK
  BY DEF TypeInv
<1>2. QED
  BY AlwaysTypeInv, <1>1, PTL

-----------------------------------------------------------------------------
(* The promises of the wire.                                               *)

\* pump_c2s has taken a chunk whose wire action is not over.
Cleared == pc["c2s"] \in {"sleep", "forward"}
Engaged == pc["c2s"] \in {"sleep", "forward", "lock", "resp"}

\* What is on the server's stdin was taken from the client and passed the gate,
\* and so did the chunk about to be written there.
GateInv ==
  /\ \A k \in DOMAIN toServer :
       toServer[k].i \in 1 .. rd["c2s"] /\ ~MustNotForward(sent[toServer[k].i])
  /\ Cleared => ~MustNotForward(CurC2s)

\* Until its wire action is over the current chunk is in neither stream.
OutcomeInv ==
  /\ ForwardedInOrder
  /\ OneOutcome
  /\ Engaged => \A k \in DOMAIN toServer : toServer[k].i < rd["c2s"]
  /\ \A k \in DOMAIN stdout :
       stdout[k].p = "resp" =>
         stdout[k].i <= rd["c2s"] /\ (Engaged => stdout[k].i < rd["c2s"])

(***************************************************************************)
(* Most steps are quiet: they leave the server's stdin and pump_c2s's      *)
(* cursor alone, and put no response on stdout.                            *)
(***************************************************************************)
Quiet ==
  /\ UNCHANGED toServer
  /\ rd'["c2s"] = rd["c2s"]
  /\ Cleared' => Cleared
  /\ Engaged' => Engaged
  /\ \/ UNCHANGED stdout
     \/ \E e \in StdoutParts : e.p # "resp" /\ stdout' = Append(stdout, e)

Loud ==
  C2sDecide \/ C2sDropRaw \/ C2sForwardRaw \/ C2sForward \/ C2sRespond \/ C2sEof

\* What an Append leaves in a sequence.
LEMMA AppendElements ==
  ASSUME NEW S, NEW s \in Seq(S), NEW e \in S, NEW t, t = Append(s, e)
  PROVE  /\ t \in Seq(S) /\ Len(t) = Len(s) + 1
         /\ \A k \in DOMAIN t :
              (k \in 1 .. Len(s) /\ t[k] = s[k]) \/ (k = Len(s) + 1 /\ t[k] = e)
OBVIOUS

\* A stream only grows.
SentGrows ==
  /\ Len(sent') >= Len(sent)
  /\ \A i \in 1 .. Len(sent) : sent'[i] = sent[i]

LEMMA StreamGrows == TypeInv /\ [Next]_vars => SentGrows
<1> SUFFICES ASSUME TypeInv, [Next]_vars PROVE SentGrows
  OBVIOUS
<1>1. sent \in Seq(ClientChunks \cup {Rem})
  BY DEF TypeInv, TypeOK, PartiesOK
<1>2. \/ UNCHANGED sent
      \/ \E c \in ClientChunks \cup {Rem} : sent' = Append(sent, c)
  <2>1. CASE Environment
    BY <2>1 DEF Environment, ClientSend, ClientClose, ClientStopsReading, ServerSend,
       ServerClosesStdin, ServerExit, clientVars
  <2>2. CASE PumpC2s \/ PumpS2c
    BY <2>2, PumpFrame DEF outerVars, clientVars
  <2>3. CASE Main
    BY <2>3 DEF Main, MainReap, MainAbort, C2sCancel, MainJoin, MainExit, outerVars, clientVars
  <2>4. CASE Storage
    BY <2>4 DEF Storage, StorageRecv, StorageEnd, clientVars
  <2>5. CASE UNCHANGED vars
    BY <2>5 DEF vars, clientVars
  <2>6. QED
    BY <2>1, <2>2, <2>3, <2>4, <2>5 DEF Next
<1>3. QED
  BY <1>1, <1>2 DEF SentGrows

LEMMA LoudOrQuiet == TypeInv /\ [Next]_vars => Loud \/ Quiet
<1> SUFFICES ASSUME TypeInv, [Next]_vars, ~Loud PROVE Quiet
  OBVIOUS
<1> USE DEF Quiet, Cleared, Engaged
<1>1. /\ rd \in [Pumps -> Nat] /\ pc \in [Pumps -> C2sPcs \cup S2cPcs]
  BY DEF TypeInv, TypeOK, PumpsOK
<1>2. CASE Environment
  BY <1>2 DEF Environment, ClientSend, ClientClose, ClientStopsReading, ServerSend,
     ServerClosesStdin, ServerExit, wireVars, pumpVars
<1>3. CASE PumpC2s
  BY <1>1, <1>3 DEF PumpC2s, Loud, C2sWake, C2sLock, C2sInject, C2sTap, C2sEvent, Goto,
     wireVars
<1>4. CASE PumpS2c
  <2>1. UNCHANGED toServer /\ rd'["c2s"] = rd["c2s"] /\ pc'["c2s"] = pc["c2s"]
    BY <1>1, <1>4 DEF PumpS2c, S2cRead, S2cWake, S2cLock, S2cWrite, S2cNewline, S2cInject,
       S2cTap, S2cEof, Goto, Take, wireVars
  <2>2. \/ UNCHANGED stdout
        \/ \E e \in StdoutParts : e.p # "resp" /\ stdout' = Append(stdout, e)
    <3>1. CASE S2cWrite
      <4>1. Part \in {"body", "cut", "err", "raw", "end", "rem"}
        BY <3>1, PartType DEF S2cWrite
      <4>2. [p |-> Part, i |-> rd["s2c"]] \in StdoutParts
        BY <1>1, <4>1 DEF StdoutParts
      <4>3. QED
        BY <3>1, <4>1, <4>2 DEF S2cWrite
    <3>2. CASE S2cNewline
      <4>1. [p |-> "nl", i |-> rd["s2c"]] \in StdoutParts
        BY <1>1 DEF StdoutParts
      <4>2. QED
        BY <3>2, <4>1 DEF S2cNewline
    <3>3. CASE ~S2cWrite /\ ~S2cNewline
      BY <1>4, <3>3 DEF PumpS2c, S2cRead, S2cWake, S2cLock, S2cInject, S2cTap, S2cEof,
         wireVars
    <3>4. QED
      BY <3>1, <3>2, <3>3
  <2>3. QED
    BY <2>1, <2>2
<1>5. CASE Main
  BY <1>1, <1>5 DEF Main, MainReap, MainAbort, C2sCancel, MainJoin, MainExit, wireVars,
     pumpVars, Goto
<1>6. CASE Storage
  BY <1>6 DEF Storage, StorageRecv, StorageEnd, wireVars, pumpVars
<1>7. CASE UNCHANGED vars
  BY <1>7 DEF vars, wireVars, pumpVars
<1>8. QED
  BY <1>2, <1>3, <1>4, <1>5, <1>6, <1>7 DEF Next

-----------------------------------------------------------------------------
(* The gate.                                                               *)

LEMMA AppendForwarded ==
  ASSUME toServer \in Seq([i : Nat, whole : BOOLEAN]), NEW n \in Nat, NEW w \in BOOLEAN,
         toServer' = Append(toServer, [i |-> n, whole |-> w])
  PROVE  \A k \in DOMAIN toServer' :
           \/ k \in DOMAIN toServer /\ k <= Len(toServer) /\ toServer'[k] = toServer[k]
           \/ k = Len(toServer) + 1 /\ toServer'[k].i = n
<1>1. [i |-> n, whole |-> w] \in [i : Nat, whole : BOOLEAN]
  OBVIOUS
<1>2. QED
  BY <1>1, AppendElements

\* Forwarding the next chunk untouched, or nothing.
LEMMA ForwardNext ==
  ASSUME toServer \in Seq([i : Nat, whole : BOOLEAN]), rd["c2s"] \in Nat,
         toServer' \in {toServer, Append(toServer, [i |-> rd["c2s"] + 1, whole |-> TRUE])}
  PROVE  \A k \in DOMAIN toServer' :
           \/ k \in DOMAIN toServer /\ k <= Len(toServer) /\ toServer'[k] = toServer[k]
           \/ k = Len(toServer) + 1 /\ toServer'[k].i = rd["c2s"] + 1
<1>1. rd["c2s"] + 1 \in Nat /\ TRUE \in BOOLEAN
  OBVIOUS
<1>2. CASE toServer' = toServer
  BY <1>2
<1>3. CASE toServer' = Append(toServer, [i |-> rd["c2s"] + 1, whole |-> TRUE])
  BY <1>1, <1>3, AppendForwarded, Zenon
<1>4. QED
  BY <1>2, <1>3

LEMMA NextGateInv == TypeInv /\ GateInv /\ [Next]_vars => GateInv'
<1> SUFFICES ASSUME TypeInv, GateInv, [Next]_vars PROVE GateInv'
  OBVIOUS
<1>1. /\ rd \in [Pumps -> Nat] /\ rd["c2s"] \in Nat /\ pc \in [Pumps -> C2sPcs \cup S2cPcs]
      /\ sent \in Seq(ClientChunks \cup {Rem}) /\ Len(sent) \in Nat
      /\ rd["c2s"] <= Len(sent)
      /\ toServer \in Seq([i : Nat, whole : BOOLEAN])
  BY DEF TypeInv, TypeOK, PumpsOK, PartiesOK, CursorsOK, WireOK
<1>2. SentGrows
  BY StreamGrows
\* The chunks already on the server's stdin are the same ones after the step.
<1>3. ASSUME NEW i \in 1 .. rd["c2s"], ~MustNotForward(sent[i])
      PROVE  ~MustNotForward(sent'[i])
  BY <1>1, <1>2, <1>3 DEF SentGrows
<1>4. \A k \in DOMAIN toServer :
        toServer[k].i \in 1 .. rd["c2s"] /\ ~MustNotForward(sent'[toServer[k].i])
  BY <1>3 DEF GateInv
<1> SUFFICES
      /\ \A k \in DOMAIN toServer' :
           toServer'[k].i \in 1 .. rd'["c2s"] /\ ~MustNotForward(sent'[toServer'[k].i])
      /\ Cleared' => ~MustNotForward(sent'[rd'["c2s"]])
  BY DEF GateInv, CurC2s, MustNotForward, Cleared
<1>5. CASE Quiet
  <2>1. ASSUME Cleared' PROVE ~MustNotForward(sent'[rd["c2s"]])
    <3>1. rd["c2s"] \in 1 .. rd["c2s"]
      BY <1>1, <1>5, <2>1 DEF Quiet, Cleared, TypeInv, BusyInv
    <3>2. ~MustNotForward(sent[rd["c2s"]])
      BY <1>5, <2>1 DEF Quiet, GateInv, CurC2s
    <3>3. QED
      BY <3>1, <3>2, <1>3
  <2>2. QED
    BY <1>4, <1>5, <2>1 DEF Quiet
<1>6. CASE C2sDecide
  <2>1. UNCHANGED <<sent, toServer>> /\ rd'["c2s"] = rd["c2s"] + 1
    BY <1>1, <1>6 DEF C2sDecide, Take, outerVars, clientVars, wireVars
  <2>2. Cleared' => ~Blocked(NextC2s) /\ NextC2s.t = "frame"
    BY <1>1, <1>6 DEF C2sDecide, Cleared, Goto
  <2>3. Cleared' => ~MustNotForward(sent'[rd'["c2s"]])
    BY <2>1, <2>2 DEF MustNotForward, Blocked, NextC2s
  <2>4. QED
    BY <1>1, <1>4, <2>1, <2>3
<1>7. CASE C2sDropRaw
  BY <1>1, <1>4, <1>7 DEF C2sDropRaw, CanRead, Take, Cleared, wireVars
<1>8. CASE C2sForwardRaw
  <2>1. \A c : ~MustNotForward(c)
    BY <1>8 DEF C2sForwardRaw, FailClosed, MustNotForward
  <2>2. rd'["c2s"] = rd["c2s"] + 1
    BY <1>1, <1>8 DEF C2sForwardRaw, Take
  <2>3. toServer' \in {toServer, Append(toServer, [i |-> rd["c2s"] + 1, whole |-> TRUE])}
    BY <1>8 DEF C2sForwardRaw
  <2>4. \A k \in DOMAIN toServer' : toServer'[k].i \in 1 .. rd'["c2s"]
    BY <1>1, <1>4, <2>2, <2>3, ForwardNext
  <2>5. QED
    BY <2>1, <2>4
<1>9. CASE C2sForward
  <2>1. UNCHANGED <<sent, rd>> /\ ~Cleared'
    BY <1>1, <1>9 DEF C2sForward, outerVars, clientVars, Cleared, Goto, AfterForward, AfterWire
  <2>2. ~MustNotForward(sent[rd["c2s"]]) /\ rd["c2s"] \in 1 .. rd["c2s"]
    BY <1>1, <1>9 DEF C2sForward, GateInv, Cleared, CurC2s, TypeInv, BusyInv
  <2>3. \/ toServer' = toServer
        \/ toServer' = Append(toServer, [i |-> rd["c2s"], whole |-> fault["c2s"] # "truncate"])
    BY <1>1, <1>9 DEF C2sForward, Delivery
  <2>4. QED
    BY <1>1, <1>4, <2>1, <2>2, <2>3, AppendForwarded
<1>10. CASE C2sRespond
  BY <1>1, <1>4, <1>10 DEF C2sRespond, Cleared, Goto, AfterWire
<1>11. CASE C2sEof
  <2>1. UNCHANGED sent /\ ~Cleared'
    BY <1>1, <1>11 DEF C2sEof, outerVars, clientVars, Cleared, Goto
  <2>2. CASE rd' = rd /\ toServer' = toServer
    BY <1>4, <2>1, <2>2
  <2>3. CASE rd' # rd \/ toServer' # toServer
    <3>1. /\ rd["c2s"] < Len(sent) /\ NextC2s.t = "rem"
          /\ rd'["c2s"] = rd["c2s"] + 1
          /\ toServer' \in {toServer, Append(toServer, [i |-> rd["c2s"] + 1, whole |-> TRUE])}
      BY <1>1, <1>11, <2>3 DEF C2sEof, Take
    <3>2. NextC2s \in ClientChunks \cup {Rem}
      BY <1>1, <3>1 DEF NextC2s
    <3>3. ~MustNotForward(sent[rd["c2s"] + 1])
      BY <3>1, <3>2, StdioWrapAssumption DEF Rem, MustNotForward, NextC2s
    <3>4. QED
      BY <1>1, <1>4, <2>1, <3>1, <3>3, ForwardNext
  <2>4. QED
    BY <2>2, <2>3
<1>12. QED
  BY <1>5, <1>6, <1>7, <1>8, <1>9, <1>10, <1>11, LoudOrQuiet DEF Loud

\* Under enforce, whatever the client sends and however the pumps interleave, no
\* refused frame and no piece of an oversized one ever reaches the server.
THEOREM GateAlwaysHolds == Spec => []GateHolds
<1>1. Init => GateInv
  BY DEF Init, GateInv, Cleared
<1>2. GateInv => GateHolds
  BY DEF GateInv, GateHolds
<1>3. QED
  BY <1>1, <1>2, NextGateInv, AlwaysTypeInv, PTL DEF Spec

-----------------------------------------------------------------------------
(* One outcome per frame, in order.                                        *)

\* Forwarding chunk n, above everything forwarded or answered so far, keeps order
\* and outcomes.
LEMMA ForwardedOutcome ==
  ASSUME TypeInv, ForwardedInOrder, OneOutcome, NEW n \in Nat,
         \A k \in DOMAIN toServer : toServer[k].i < n,
         \A k \in DOMAIN stdout : stdout[k].p = "resp" => stdout[k].i < n,
         \A k \in DOMAIN toServer' :
           \/ k \in DOMAIN toServer /\ k <= Len(toServer) /\ toServer'[k] = toServer[k]
           \/ k = Len(toServer) + 1 /\ toServer'[k].i = n,
         UNCHANGED stdout
  PROVE  ForwardedInOrder' /\ OneOutcome'
<1>1. /\ toServer \in Seq([i : Nat, whole : BOOLEAN]) /\ Len(toServer) \in Nat
      /\ DOMAIN toServer = 1 .. Len(toServer)
  BY DEF TypeInv, TypeOK, WireOK
<1>2. ForwardedInOrder'
  <2> SUFFICES ASSUME NEW j \in DOMAIN toServer', NEW k \in DOMAIN toServer', j < k
               PROVE  toServer'[j].i < toServer'[k].i
    BY DEF ForwardedInOrder, Increasing
  <2>1. j \in DOMAIN toServer /\ toServer'[j] = toServer[j]
    BY <1>1
  <2>2. CASE k \in DOMAIN toServer /\ toServer'[k] = toServer[k]
    BY <2>1, <2>2 DEF ForwardedInOrder, Increasing
  <2>3. CASE toServer'[k].i = n
    BY <2>1, <2>3
  <2>4. QED
    BY <2>2, <2>3
<1>3. OneOutcome'
  <2>1. ASSUME NEW j \in DOMAIN toServer', NEW k \in DOMAIN stdout,
               stdout[k] = [p |-> "resp", i |-> toServer'[j].i]
        PROVE  FALSE
    <3>1. stdout[k].p = "resp" /\ stdout[k].i = toServer'[j].i
      BY <2>1
    <3>2. toServer'[j].i # n
      BY <3>1
    <3>3. j \in DOMAIN toServer /\ toServer'[j] = toServer[j]
      BY <3>2
    <3>4. QED
      BY <2>1, <3>3 DEF OneOutcome, Written
  <2>2. QED
    BY <2>1 DEF OneOutcome, Written
<1>4. QED
  BY <1>2, <1>3

\* A write that is no response changes no outcome.
LEMMA QuietOutcome ==
  ASSUME TypeInv, OneOutcome, UNCHANGED toServer,
         \/ UNCHANGED stdout
         \/ \E e \in StdoutParts : e.p # "resp" /\ stdout' = Append(stdout, e)
  PROVE  /\ OneOutcome'
         /\ \A k \in DOMAIN stdout' :
              stdout'[k].p = "resp" => k \in DOMAIN stdout /\ stdout'[k] = stdout[k]
<1>1. stdout \in Seq(StdoutParts) /\ DOMAIN stdout = 1 .. Len(stdout)
  BY DEF TypeInv, TypeOK, WireOK, StdoutParts
<1>2. \A k \in DOMAIN stdout' :
        stdout'[k].p = "resp" => k \in DOMAIN stdout /\ stdout'[k] = stdout[k]
  BY <1>1, AppendElements
<1>3. OneOutcome'
  BY <1>2 DEF OneOutcome, Written
<1>4. QED
  BY <1>2, <1>3

LEMMA NextOutcomeInv == TypeInv /\ GateInv /\ OutcomeInv /\ [Next]_vars => OutcomeInv'
<1> SUFFICES ASSUME TypeInv, GateInv, OutcomeInv, [Next]_vars PROVE OutcomeInv'
  OBVIOUS
<1>1. /\ rd \in [Pumps -> Nat] /\ rd["c2s"] \in Nat /\ pc \in [Pumps -> C2sPcs \cup S2cPcs]
      /\ toServer \in Seq([i : Nat, whole : BOOLEAN])
      /\ stdout \in Seq(StdoutParts)
      /\ \A k \in DOMAIN toServer : toServer[k].i \in Nat
      /\ \A k \in DOMAIN stdout : stdout[k].i \in Nat
  <2>1. stdout \in Seq(StdoutParts) /\ toServer \in Seq([i : Nat, whole : BOOLEAN])
    BY DEF TypeInv, TypeOK, WireOK, StdoutParts
  <2>2. \A k \in DOMAIN stdout : stdout[k] \in StdoutParts
    BY <2>1, ElementOfSeq
  <2>3. \A k \in DOMAIN stdout : stdout[k].i \in Nat
    BY <2>2 DEF StdoutParts
  <2>4. \A k \in DOMAIN toServer : toServer[k].i \in Nat
    BY DEF GateInv, TypeInv, TypeOK, PumpsOK
  <2>5. QED
    BY <2>1, <2>3, <2>4 DEF TypeInv, TypeOK, PumpsOK
<1>2. \A k \in DOMAIN toServer : toServer[k].i <= rd["c2s"]
  BY <1>1 DEF GateInv
<1>3. CASE Quiet
  <2>1. OneOutcome' /\ ForwardedInOrder'
    BY <1>3, QuietOutcome DEF Quiet, OutcomeInv, ForwardedInOrder, Increasing
  <2>2. \A k \in DOMAIN stdout' :
          stdout'[k].p = "resp" => k \in DOMAIN stdout /\ stdout'[k] = stdout[k]
    BY <1>3, QuietOutcome DEF Quiet, OutcomeInv
  <2>3. QED
    BY <1>3, <2>1, <2>2 DEF Quiet, OutcomeInv
<1>4. CASE C2sDecide \/ C2sDropRaw
  <2>1. UNCHANGED <<toServer, stdout>> /\ rd'["c2s"] = rd["c2s"] + 1
    BY <1>1, <1>4 DEF C2sDecide, C2sDropRaw, Take, wireVars
  <2>2. ForwardedInOrder' /\ OneOutcome'
    BY <2>1 DEF OutcomeInv, ForwardedInOrder, Increasing, OneOutcome, Written
  <2>3. QED
    BY <1>1, <1>2, <2>1, <2>2 DEF OutcomeInv
<1>5. CASE C2sForwardRaw \/ C2sEof
  <2>1. /\ UNCHANGED stdout /\ ~Engaged'
        /\ rd'["c2s"] >= rd["c2s"]
        /\ toServer' \in {toServer, Append(toServer, [i |-> rd["c2s"] + 1, whole |-> TRUE])}
    BY <1>1, <1>5 DEF C2sForwardRaw, C2sEof, Take, CanRead, Goto, Engaged
  <2>2. /\ \A k \in DOMAIN toServer : toServer[k].i < rd["c2s"] + 1
        /\ \A k \in DOMAIN stdout : stdout[k].p = "resp" => stdout[k].i < rd["c2s"] + 1
    BY <1>1, <1>2 DEF OutcomeInv
  <2>3. ForwardedInOrder' /\ OneOutcome'
    <3>1. rd["c2s"] + 1 \in Nat
      BY <1>1
    <3>2. \A k \in DOMAIN toServer' :
            \/ k \in DOMAIN toServer /\ k <= Len(toServer) /\ toServer'[k] = toServer[k]
            \/ k = Len(toServer) + 1 /\ toServer'[k].i = rd["c2s"] + 1
      BY <1>1, <2>1, ForwardNext
    <3>3. QED
      BY <2>1, <2>2, <3>1, <3>2, ForwardedOutcome DEF OutcomeInv
  <2>4. rd'["c2s"] \in Nat
    BY <1>1, <1>5 DEF C2sForwardRaw, C2sEof, Take
  <2>5. QED
    BY <1>1, <2>1, <2>3, <2>4 DEF OutcomeInv
<1>6. CASE C2sForward
  <2>1. /\ UNCHANGED <<stdout, rd>> /\ ~Engaged' /\ Engaged
        /\ \/ toServer' = toServer
           \/ toServer' = Append(toServer, [i |-> rd["c2s"], whole |-> fault["c2s"] # "truncate"])
    BY <1>1, <1>6 DEF C2sForward, Delivery, Goto, AfterForward, AfterWire, Engaged
  <2>2. ForwardedInOrder' /\ OneOutcome'
    <3>1. \A k \in DOMAIN toServer' :
            \/ k \in DOMAIN toServer /\ k <= Len(toServer) /\ toServer'[k] = toServer[k]
            \/ k = Len(toServer) + 1 /\ toServer'[k].i = rd["c2s"]
      BY <1>1, <2>1, AppendForwarded
    <3>2. QED
      BY <1>1, <2>1, <3>1, ForwardedOutcome DEF OutcomeInv
  <2>3. QED
    BY <2>1, <2>2 DEF OutcomeInv
<1>7. CASE C2sRespond
  <2> DEFINE r == [p |-> "resp", i |-> rd["c2s"]]
  <2>1. /\ UNCHANGED <<toServer, rd>> /\ ~Engaged' /\ Engaged
        /\ stdout' \in {stdout, Append(stdout, r)}
    BY <1>1, <1>7 DEF C2sRespond, Goto, AfterWire, Engaged
  <2>2. CASE stdout' = stdout
    BY <2>1, <2>2 DEF OutcomeInv, ForwardedInOrder, Increasing, OneOutcome, Written
  <2>3. CASE stdout' = Append(stdout, r)
    <3>1. r \in StdoutParts
      BY <1>1 DEF StdoutParts
    <3>2. \A k \in DOMAIN stdout' :
            \/ k \in DOMAIN stdout /\ stdout'[k] = stdout[k]
            \/ k = Len(stdout) + 1 /\ stdout'[k] = r
      BY <1>1, <2>3, <3>1, AppendElements
    <3>3. \A k \in DOMAIN stdout : stdout[k].p = "resp" => stdout[k].i < rd["c2s"]
      BY <2>1 DEF OutcomeInv
    <3>4. \A k \in DOMAIN stdout : stdout[k] # r
      BY <1>1, <3>3
    <3>5. ASSUME NEW j \in DOMAIN stdout', NEW k \in DOMAIN stdout',
                 stdout'[j].p = "resp", stdout'[k] = stdout'[j]
          PROVE  j = k
      BY <3>2, <3>4, <3>5 DEF OutcomeInv, OneOutcome
    <3>6. ASSUME NEW j \in DOMAIN toServer, NEW k \in DOMAIN stdout',
                 stdout'[k] = [p |-> "resp", i |-> toServer[j].i]
          PROVE  FALSE
      <4>1. toServer[j].i < rd["c2s"] /\ stdout'[k].i = toServer[j].i
        BY <2>1, <3>6 DEF OutcomeInv
      <4>2. stdout'[k] # r
        BY <1>1, <4>1
      <4>3. k \in DOMAIN stdout /\ stdout'[k] = stdout[k]
        BY <3>2, <4>2
      <4>4. QED
        BY <3>6, <4>3 DEF OutcomeInv, OneOutcome, Written
    <3>7. OneOutcome'
      BY <2>1, <3>5, <3>6 DEF OneOutcome, Written
    <3>8. \A k \in DOMAIN stdout' : stdout'[k].p = "resp" => stdout'[k].i <= rd["c2s"]
      BY <1>1, <3>2, <3>3
    <3>9. QED
      BY <2>1, <3>7, <3>8 DEF OutcomeInv, ForwardedInOrder, Increasing
  <2>4. QED
    BY <2>1, <2>2, <2>3
<1>8. QED
  BY <1>3, <1>4, <1>5, <1>6, <1>7, LoudOrQuiet DEF Loud

LEMMA AlwaysOutcomeInv == Spec => []OutcomeInv
<1>1. Init => GateInv /\ OutcomeInv
  BY DEF Init, GateInv, OutcomeInv, Cleared, Engaged, ForwardedInOrder, Increasing,
     OneOutcome, Written
<1>2. QED
  BY <1>1, NextGateInv, NextOutcomeInv, AlwaysTypeInv, PTL DEF Spec

\* The server receives the client's chunks in the client's order, none twice,
\* under any interleaving, refusal, delay or truncation.
THEOREM ForwardingKeepsOrder == Spec => []ForwardedInOrder
<1>1. OutcomeInv => ForwardedInOrder
  BY DEF OutcomeInv
<1>2. QED
  BY <1>1, AlwaysOutcomeInv, PTL

\* No client frame is both forwarded and answered by the proxy, or answered twice.
THEOREM OutcomeIsUnique == Spec => []OneOutcome
<1>1. OutcomeInv => OneOutcome
  BY DEF OutcomeInv
<1>2. QED
  BY <1>1, AlwaysOutcomeInv, PTL

\* Every client line has one fate, whatever faults are applied to it and wherever the
\* pump is cancelled (apply_c2s_injection, pump_c2s, run_wrap's abort).
THEOREM EachDeliveredOnce == Spec => []DeliveredOnce
<1>1. ForwardedInOrder /\ OneOutcome => DeliveredOnce
  BY DEF DeliveredOnce
<1>2. QED
  BY <1>1, ForwardingKeepsOrder, OutcomeIsUnique, PTL

-----------------------------------------------------------------------------
(* Frame atomicity of the shared stdout.                                   *)

\* Who holds the lock, and that a body without its newline is the last thing on
\* stdout: pump_s2c is about to complete it, or nobody reads any more.
LastIsBody == stdout # <<>> /\ stdout[Len(stdout)].p = "body"

LockInv ==
  /\ lock = "c2s" <=> pc["c2s"] = "resp"
  /\ lock = "s2c" <=> pc["s2c"] \in {"write", "nl"}
  /\ pc["s2c"] = "nl" => LastIsBody /\ stdout[Len(stdout)].i = rd["s2c"]
  /\ LastIsBody => pc["s2c"] = "nl" \/ (pc["s2c"] = "done" /\ ~clientReads)

AtomicInv == FramesAtomic /\ LockInv

\* Steps that neither take nor release the lock, nor write.
Aside ==
  /\ UNCHANGED <<stdout, lock>>
  /\ clientReads' => clientReads
  /\ pc'["c2s"] = "resp" <=> pc["c2s"] = "resp"
  /\ pc'["s2c"] \in {"write", "nl"} <=> pc["s2c"] \in {"write", "nl"}
  /\ \/ pc'["s2c"] = pc["s2c"] /\ rd'["s2c"] = rd["s2c"]
     \/ pc["s2c"] \notin {"write", "nl", "done"}

LEMMA AsideOrLocking ==
  TypeInv /\ [Next]_vars =>
    Aside \/ C2sLock \/ C2sRespond \/ C2sCancel \/ S2cLock \/ S2cWrite \/ S2cNewline
<1> SUFFICES ASSUME TypeInv, [Next]_vars, ~C2sLock, ~C2sRespond, ~C2sCancel, ~S2cLock,
                    ~S2cWrite, ~S2cNewline
             PROVE  Aside
  OBVIOUS
<1> USE DEF Aside, Goto, Take
<1>1. /\ rd \in [Pumps -> Nat] /\ pc \in [Pumps -> C2sPcs \cup S2cPcs]
      /\ pc["c2s"] \in C2sPcs /\ clientReads \in BOOLEAN
  BY DEF TypeInv, TypeOK, PumpsOK, PartiesOK
<1>2. CASE Environment
  BY <1>1, <1>2 DEF Environment, ClientSend, ClientClose, ClientStopsReading, ServerSend,
     ServerClosesStdin, ServerExit, clientVars, wireVars, pumpVars
<1>3. CASE PumpC2s
  <2>1. UNCHANGED <<clientReads, stdout, lock>>
    BY <1>3, PumpFrame DEF PumpC2s, C2sDecide, C2sDropRaw, C2sForwardRaw, C2sWake, C2sForward,
       C2sInject, C2sTap, C2sEvent, C2sEof, outerVars, clientVars, wireVars
  <2>2. pc'["s2c"] = pc["s2c"] /\ rd'["s2c"] = rd["s2c"]
    BY <1>1, <1>3 DEF PumpC2s, C2sDecide, C2sDropRaw, C2sForwardRaw, C2sWake, C2sForward,
       C2sInject, C2sTap, C2sEvent, C2sEof
  <2>3. pc["c2s"] # "resp" /\ pc'["c2s"] # "resp"
    <3>1. CASE C2sDecide
      BY <1>1, <3>1, StdioWrapAssumption DEF C2sDecide, CanRead
    <3>2. CASE C2sForward
      BY <1>1, <3>2 DEF C2sForward, AfterForward, AfterWire
    <3>3. CASE ~C2sDecide /\ ~C2sForward
      BY <1>1, <1>3, <3>3 DEF PumpC2s, C2sDropRaw, C2sForwardRaw, C2sWake, C2sInject, C2sTap,
         C2sEvent, C2sEof, CanRead
    <3>4. QED
      BY <3>1, <3>2, <3>3
  <2>4. QED
    BY <2>1, <2>2, <2>3
<1>4. CASE PumpS2c
  <2>1. UNCHANGED <<clientReads, stdout, lock>> /\ pc'["c2s"] = pc["c2s"]
    BY <1>1, <1>4, PumpFrame DEF PumpS2c, S2cRead, S2cWake, S2cInject, S2cTap, S2cEof,
       outerVars, clientVars, wireVars
  <2>2. pc["s2c"] \notin {"write", "nl", "done"} /\ pc'["s2c"] \notin {"write", "nl"}
    <3>1. CASE S2cRead
      BY <1>1, <3>1, StdioWrapAssumption DEF S2cRead, CanRead
    <3>2. CASE ~S2cRead
      BY <1>1, <1>4, <3>2 DEF PumpS2c, S2cWake, S2cInject, S2cTap, S2cEof
    <3>3. QED
      BY <3>1, <3>2
  <2>3. QED
    BY <2>1, <2>2
<1>5. CASE Main
  BY <1>1, <1>5 DEF Main, MainReap, MainAbort, MainJoin, MainExit, clientVars, wireVars,
     pumpVars
<1>6. CASE Storage
  BY <1>1, <1>6 DEF Storage, StorageRecv, StorageEnd, clientVars, wireVars, pumpVars
<1>7. CASE UNCHANGED vars
  BY <1>1, <1>7 DEF vars, clientVars, wireVars, pumpVars
<1>8. QED
  BY <1>2, <1>3, <1>4, <1>5, <1>6, <1>7 DEF Next

\* A write that does not come between a body and its newline.
LEMMA AtomicAppend ==
  ASSUME TypeInv, FramesAtomic, NEW e \in StdoutParts, stdout' = Append(stdout, e),
         LastIsBody => e = [p |-> "nl", i |-> stdout[Len(stdout)].i]
  PROVE  FramesAtomic' /\ (LastIsBody' <=> e.p = "body") /\ stdout'[Len(stdout')] = e
<1>1. /\ stdout \in Seq(StdoutParts) /\ Len(stdout) \in Nat /\ DOMAIN stdout = 1 .. Len(stdout)
      /\ stdout' \in Seq(StdoutParts) /\ Len(stdout') = Len(stdout) + 1
      /\ stdout'[Len(stdout) + 1] = e
      /\ \A k \in 1 .. Len(stdout) : stdout'[k] = stdout[k]
  BY DEF TypeInv, TypeOK, WireOK, StdoutParts
<1>2. FramesAtomic'
  <2> SUFFICES ASSUME NEW k \in 1 .. Len(stdout), stdout[k].p = "body"
               PROVE  stdout'[k + 1] = [p |-> "nl", i |-> stdout[k].i]
    BY <1>1 DEF FramesAtomic
  <2>1. CASE k < Len(stdout)
    BY <1>1, <2>1 DEF FramesAtomic
  <2>2. CASE k = Len(stdout)
    BY <1>1, <2>2 DEF LastIsBody
  <2>3. QED
    BY <1>1, <2>1, <2>2
<1>3. QED
  BY <1>1, <1>2 DEF LastIsBody

LEMMA NextAtomicInv == TypeInv /\ AtomicInv /\ [Next]_vars => AtomicInv'
<1> SUFFICES ASSUME TypeInv, FramesAtomic, LockInv, [Next]_vars
             PROVE  FramesAtomic' /\ LockInv'
  BY DEF AtomicInv
<1>1. /\ rd \in [Pumps -> Nat] /\ pc \in [Pumps -> C2sPcs \cup S2cPcs]
      /\ pc["c2s"] \in C2sPcs /\ pc["s2c"] \in S2cPcs
      /\ lock \in {"free", "c2s", "s2c"}
  BY DEF TypeInv, TypeOK, PumpsOK, WireOK
<1> USE DEF Goto
<1>2. CASE Aside
  BY <1>2 DEF Aside, LockInv, LastIsBody, FramesAtomic
<1>3. CASE C2sLock \/ S2cLock
  BY <1>1, <1>3 DEF C2sLock, S2cLock, LockInv, LastIsBody, FramesAtomic, outerVars, clientVars
<1>4. CASE C2sCancel
  <2>1. /\ UNCHANGED <<stdout, rd, clientReads>> /\ pc'["s2c"] = pc["s2c"]
        /\ pc'["c2s"] # "resp"
    BY <1>1, <1>4 DEF C2sCancel, outerVars, clientVars
  <2>2. lock' = "s2c" <=> lock = "s2c"
    BY <1>4 DEF C2sCancel
  <2>3. lock' # "c2s"
    BY <1>4 DEF C2sCancel
  <2>4. QED
    BY <2>1, <2>2, <2>3 DEF LockInv, LastIsBody, FramesAtomic
<1>5. CASE C2sRespond
  <2> DEFINE e == [p |-> "resp", i |-> rd["c2s"]]
  <2>1. lock = "c2s" /\ pc["s2c"] \notin {"write", "nl"}
    BY <1>5 DEF C2sRespond, LockInv
  <2>2. /\ lock' = "free" /\ pc'["c2s"] # "resp" /\ pc'["s2c"] = pc["s2c"]
        /\ UNCHANGED <<rd, clientReads>>
    BY <1>1, <1>5 DEF C2sRespond, AfterWire, outerVars, clientVars
  <2>3. CASE stdout' = stdout
    BY <2>1, <2>2, <2>3 DEF LockInv, LastIsBody, FramesAtomic
  <2>4. CASE clientReads /\ stdout' = Append(stdout, e)
    <3>1. ~LastIsBody
      BY <2>1, <2>4 DEF LockInv
    <3>2. e \in StdoutParts
      BY <1>1 DEF StdoutParts
    <3>3. FramesAtomic' /\ ~LastIsBody'
      BY <2>4, <3>1, <3>2, AtomicAppend
    <3>4. QED
      BY <2>1, <2>2, <3>3 DEF LockInv
  <2>5. QED
    BY <1>5, <2>3, <2>4 DEF C2sRespond
<1>6. CASE S2cWrite
  <2> DEFINE e == [p |-> Part, i |-> rd["s2c"]]
  <2>1. Part \in {"body", "cut", "err", "raw", "end", "rem"}
    BY <1>6, PartType DEF S2cWrite
  <2>2. lock = "s2c" /\ pc["c2s"] # "resp" /\ ~LastIsBody
    BY <1>6 DEF S2cWrite, LockInv
  <2>3. pc'["c2s"] = pc["c2s"] /\ UNCHANGED <<rd, clientReads>>
    BY <1>1, <1>6 DEF S2cWrite, outerVars, clientVars
  <2>4. CASE ~clientReads
    BY <1>1, <1>6, <2>2, <2>3, <2>4 DEF S2cWrite, LockInv, LastIsBody, FramesAtomic
  <2>5. CASE clientReads
    <3>1. e \in StdoutParts
      BY <1>1, <2>1 DEF StdoutParts
    <3>2. stdout' = Append(stdout, e)
      BY <1>6, <2>5 DEF S2cWrite
    <3>3. FramesAtomic' /\ (LastIsBody' <=> Part = "body") /\ stdout'[Len(stdout')] = e
      BY <2>2, <3>1, <3>2, AtomicAppend
    <3>4. CASE Part = "body"
      BY <1>1, <1>6, <2>2, <2>3, <2>5, <3>3, <3>4 DEF S2cWrite, LockAfterWrite, LockInv
    <3>5. CASE Part # "body"
      <4>1. lock' = "free" /\ pc'["s2c"] \notin {"write", "nl"}
        BY <1>1, <1>6, <2>1, <2>5, <3>5 DEF S2cWrite, LockAfterWrite
      <4>2. QED
        BY <2>2, <2>3, <3>3, <3>5, <4>1 DEF LockInv
    <3>6. QED
      BY <3>4, <3>5
  <2>6. QED
    BY <2>4, <2>5
<1>7. CASE S2cNewline
  <2> DEFINE e == [p |-> "nl", i |-> rd["s2c"]]
  <2>1. /\ lock = "s2c" /\ pc["c2s"] # "resp"
        /\ LastIsBody /\ stdout[Len(stdout)].i = rd["s2c"]
    BY <1>7 DEF S2cNewline, LockInv
  <2>2. /\ lock' = "free" /\ pc'["c2s"] = pc["c2s"] /\ UNCHANGED <<rd, clientReads>>
        /\ pc'["s2c"] \notin {"write", "nl"}
    BY <1>1, <1>7 DEF S2cNewline, AfterWire, outerVars, clientVars
  <2>3. CASE ~clientReads
    BY <1>1, <1>7, <2>1, <2>2, <2>3 DEF S2cNewline, LockInv, LastIsBody, FramesAtomic
  <2>4. CASE clientReads
    <3>1. e \in StdoutParts
      BY <1>1 DEF StdoutParts
    <3>2. FramesAtomic' /\ ~LastIsBody'
      BY <1>7, <2>1, <2>4, <3>1, AtomicAppend DEF S2cNewline
    <3>3. QED
      BY <2>1, <2>2, <3>2 DEF LockInv
  <2>5. QED
    BY <2>3, <2>4
<1>8. QED
  BY <1>2, <1>3, <1>4, <1>5, <1>6, <1>7, AsideOrLocking

\* The body of a server frame and its newline are always adjacent on stdout: no
\* refusal or injected error is ever written between them.
THEOREM FramesStayWhole == Spec => []FramesAtomic
<1>1. Init => AtomicInv
  BY DEF Init, AtomicInv, FramesAtomic, LockInv, LastIsBody
<1>2. AtomicInv => FramesAtomic
  BY DEF AtomicInv
<1>3. QED
  BY <1>1, <1>2, NextAtomicInv, AlwaysTypeInv, PTL DEF Spec

-----------------------------------------------------------------------------
(* What the database says of the wire.                                     *)

\* FramedStream's contract: "end" and only "end" leaves an oversized frame, and
\* unterminated bytes are the last ones.
Shaped(s) ==
  \A i \in DOMAIN s :
    /\ s[i].t = "end" => i > 1 /\ s[i - 1].t = "raw"
    /\ s[i].t \in {"frame", "rem"} => i = 1 \/ s[i - 1].t # "raw"
    /\ s[i].t = "rem" => i = Len(s)

StreamInv ==
  /\ Shaped(sent) /\ Shaped(emitted)
  /\ clientOpen => \A i \in DOMAIN sent : sent[i].t # "rem"
  /\ child = "up" => \A i \in DOMAIN emitted : emitted[i].t # "rem"

\* What a pump's place in its loop says of the chunk it has taken.
PlaceInv ==
  /\ \A p \in Pumps : pc[p] = "inj" => fault[p] # "none"
  /\ pc["c2s"] \notin {"read", "done"} => CurC2s.t = "frame"
  /\ pc["c2s"] \in {"lock", "resp"} /\ fault["c2s"] = "none" => Blocked(CurC2s)
  /\ pc["s2c"] \notin {"read", "done"} /\ fault["s2c"] # "none" => CurS2c.t = "frame"
  /\ pc["s2c"] \in {"nl", "inj", "tap"} => CurS2c.t = "frame"

\* Client chunk i is a request the gate refuses.
Refused(i) == sent[i].t = "frame" /\ Blocked(sent[i]) /\ sent[i].id

\* Server chunk i is on stdout to its last byte.
Crossed(i) == Written(IF emitted[i].t = "frame" THEN "nl" ELSE emitted[i].t, i)

\* What becomes of a client's chunk, of a server's chunk, of a refused request.
C2sFate(i) == MustNotForward(sent[i]) \/ ForwardedWhole(i) \/ Excused("c2s", i)
S2cFate(i) == Crossed(i) \/ Excused("s2c", i)
Answered(i) == Refused(i) => Written("resp", i) \/ ~clientReads

\* What NoTrafficLost needs of a request whose injected fault is being recorded.
SettledInv == NoTrafficLost /\ (pc["c2s"] = "inj" => Answered(rd["c2s"]))

\* A tap or an event is about a frame whose wire action is over.
Told(r) ==
  r.m \in {"tap", "sec"} =>
    IF r.d = "c2s" THEN sent[r.i].t = "frame" /\ C2sFate(r.i) /\ Answered(r.i)
                   ELSE emitted[r.i].t = "frame" /\ S2cFate(r.i)

\* A message names a chunk its pump has taken, and has left but for its events.
Placed(r) ==
  /\ r.i \in 1 .. rd[r.d]
  /\ r.m \in {"tap", "sec"} /\ r.i = rd[r.d] => pc[r.d] \in {"read", "ev", "done"}
  /\ Told(r)

RecordInv == (\A k \in DOMAIN Reported : Placed(Reported[k])) /\ TapsInOrder

\* The events of chunk i still to be sent.
Owed(i) == IF i = rd["c2s"] /\ pc["c2s"] = "ev" THEN left ELSE 0

\* The exact content of the record up to the chunk in hand, while nothing is dropped.
CountInv ==
  /\ pc["c2s"] \notin {"read", "done", "ev"} => left = CurC2s.hits
  /\ \A i \in 1 .. rd["c2s"] :
       /\ ~logged["c2s"] /\ sent[i].t = "frame"
       /\ i = rd["c2s"] => pc["c2s"] \in {"read", "ev"}
       => /\ Recording => Cardinality(Reports(Msg("tap", "c2s", i))) = 1
          /\ Cardinality(Reports(Msg("sec", "c2s", i))) + Owed(i) = sent[i].hits
  /\ \A i \in 1 .. rd["s2c"] :
       /\ ~logged["s2c"] /\ Recording /\ emitted[i].t = "frame"
       /\ i = rd["s2c"] => pc["s2c"] = "read"
       => Cardinality(Reports(Msg("tap", "s2c", i))) = 1

\* dropping remembers that the last chunk taken was no end of an oversized frame.
OverInv ==
  /\ OversizedReportedOnce
  /\ Mode = "enforce" => (dropping <=> rd["c2s"] > 0 /\ sent[rd["c2s"]].t = "raw")

\* What has ended by the time run_wrap gets where it is.
ExitInv ==
  /\ main \in {"join", "flush", "exit"} => pc["s2c"] = "done"
  /\ main \in {"flush", "exit"} => pc["c2s"] = "done"
  /\ main = "exit" => storage = "ended"
  /\ storage = "ended" => chan = <<>> /\ \A p \in Pumps : pc[p] = "done"
  /\ pc["s2c"] = "done" /\ clientReads /\ Faults = {} =>
       child = "exited" /\ \A i \in DOMAIN emitted : Crossed(i)

-----------------------------------------------------------------------------
(* What only grows: the two streams, the two outputs, the record.          *)

Extended(s, t) == \A i \in DOMAIN s : i \in DOMAIN t /\ t[i] = s[i]

\* What a step does to each stream.
SentStep ==
  \/ UNCHANGED sent /\ (clientOpen' => clientOpen)
  \/ clientOpen /\ \E c \in ClientChunks : Follows(sent, c) /\ sent' = Append(sent, c)
  \/ clientOpen /\ ~clientOpen' /\ ~MidFrame(sent) /\ sent' = Append(sent, Rem)

EmittedStep ==
  \/ UNCHANGED emitted /\ (child' = "up" => child = "up")
  \/ child = "up" /\ \E c \in ServerChunks : Follows(emitted, c) /\ emitted' = Append(emitted, c)
  \/ child = "up" /\ child' = "exited" /\ ~MidFrame(emitted) /\ emitted' = Append(emitted, Rem)

\* Every step takes the streams that way.
LEMMA StreamsStep == TypeInv /\ [Next]_vars => SentStep /\ EmittedStep
<1> SUFFICES ASSUME TypeInv, [Next]_vars PROVE SentStep /\ EmittedStep
  OBVIOUS
<1> USE DEF SentStep, EmittedStep
<1>1. CASE Environment
  BY <1>1 DEF Environment, ClientSend, ClientClose, ClientStopsReading, ServerSend,
     ServerClosesStdin, ServerExit, clientVars, serverVars
<1>2. CASE UNCHANGED <<clientVars, serverVars>>
  BY <1>2 DEF clientVars, serverVars
<1>3. PumpC2s \/ PumpS2c \/ Main \/ Storage \/ UNCHANGED vars =>
        UNCHANGED <<clientVars, serverVars>>
  BY PumpFrame DEF outerVars, vars, Main, MainReap, MainAbort, C2sCancel, MainJoin, MainExit,
     Storage, StorageRecv, StorageEnd
<1>4. QED
  BY <1>1, <1>2, <1>3 DEF Next

\* One more chunk, cut as FramedStream cuts it, leaves a stream well shaped.
LEMMA ShapedAppend ==
  ASSUME NEW S, NEW s \in Seq(S), NEW c \in S, Shaped(s), \A i \in DOMAIN s : s[i].t # "rem",
         \/ Follows(s, c) /\ c.t \in {"frame", "raw", "end"}
         \/ c.t = "rem" /\ ~MidFrame(s)
  PROVE  /\ Shaped(Append(s, c))
         /\ c.t # "rem" => \A i \in DOMAIN Append(s, c) : Append(s, c)[i].t # "rem"
<1> DEFINE t == Append(s, c)
<1>1. /\ Len(s) \in Nat /\ DOMAIN s = 1 .. Len(s) /\ Len(t) = Len(s) + 1 /\ DOMAIN t = 1 .. Len(t)
      /\ \A i \in 1 .. Len(s) : t[i] = s[i]
      /\ t[Len(t)] = c
  OBVIOUS
<1>2. MidFrame(s) <=> Len(s) > 0 /\ s[Len(s)].t = "raw"
  BY <1>1 DEF MidFrame
<1> HIDE DEF t
<1>3. ASSUME NEW i \in DOMAIN t
      PROVE  /\ t[i].t = "end" => i > 1 /\ t[i - 1].t = "raw"
             /\ t[i].t \in {"frame", "rem"} => i = 1 \/ t[i - 1].t # "raw"
             /\ t[i].t = "rem" => i = Len(t)
  <2>1. CASE i \in 1 .. Len(s)
    <3>1. t[i] = s[i] /\ (i > 1 => t[i - 1] = s[i - 1])
      BY <1>1, <2>1
    <3>2. QED
      BY <1>1, <2>1, <3>1 DEF Shaped
  <2>2. CASE i = Len(t)
    <3>1. t[i] = c /\ i - 1 = Len(s)
      BY <1>1, <2>2
    <3>2. Len(s) > 0 => t[i - 1] = s[Len(s)]
      BY <1>1, <3>1
    <3>3. QED
      BY <1>1, <1>2, <2>2, <3>1, <3>2 DEF Follows
  <2>3. QED
    BY <1>1, <2>1, <2>2
<1>4. c.t # "rem" => \A i \in DOMAIN t : t[i].t # "rem"
  BY <1>1
<1>5. QED
  BY <1>3, <1>4 DEF Shaped, t

\* Whatever the two parties send is cut the way FramedStream cuts it.
LEMMA NextStreamInv == TypeInv /\ StreamInv /\ [Next]_vars => StreamInv'
<1> SUFFICES ASSUME TypeInv, StreamInv, [Next]_vars PROVE StreamInv'
  OBVIOUS
<1>1. /\ sent \in Seq(ClientChunks \cup {Rem}) /\ emitted \in Seq(ServerChunks \cup {Rem})
      /\ clientOpen \in BOOLEAN /\ Rem.t = "rem"
      /\ \A c \in ClientChunks \cup ServerChunks : c.t \in {"frame", "raw", "end"}
  BY StdioWrapAssumption DEF TypeInv, TypeOK, PartiesOK, Rem
<1>2. /\ Shaped(sent)'
      /\ clientOpen' => \A i \in DOMAIN sent' : sent'[i].t # "rem"
  <2>1. CASE UNCHANGED sent /\ (clientOpen' => clientOpen)
    BY <2>1 DEF StreamInv, Shaped
  <2>2. CASE clientOpen /\ \E c \in ClientChunks : Follows(sent, c) /\ sent' = Append(sent, c)
    BY <1>1, <2>2, ShapedAppend DEF StreamInv
  <2>3. CASE clientOpen /\ ~clientOpen' /\ ~MidFrame(sent) /\ sent' = Append(sent, Rem)
    BY <1>1, <2>3, ShapedAppend DEF StreamInv
  <2>4. QED
    BY <2>1, <2>2, <2>3, StreamsStep DEF SentStep
<1>3. /\ Shaped(emitted)'
      /\ child' = "up" => \A i \in DOMAIN emitted' : emitted'[i].t # "rem"
  <2>1. CASE UNCHANGED emitted /\ (child' = "up" => child = "up")
    BY <2>1 DEF StreamInv, Shaped
  <2>2. CASE child = "up" /\ \E c \in ServerChunks : Follows(emitted, c) /\ emitted' = Append(emitted, c)
    BY <1>1, <2>2, ShapedAppend DEF StreamInv
  <2>3. CASE child = "up" /\ child' = "exited" /\ ~MidFrame(emitted) /\ emitted' = Append(emitted, Rem)
    BY <1>1, <2>3, ShapedAppend DEF StreamInv
  <2>4. QED
    BY <2>1, <2>2, <2>3, StreamsStep DEF EmittedStep
<1>4. QED
  BY <1>2, <1>3 DEF StreamInv

\* No pump unwrites anything: what is on an output stays there, at its place.
LEMMA OutputsGrow ==
  TypeInv /\ [Next]_vars => Extended(stdout, stdout') /\ Extended(toServer, toServer')
<1> SUFFICES ASSUME TypeInv, [Next]_vars
             PROVE  Extended(stdout, stdout') /\ Extended(toServer, toServer')
  OBVIOUS
<1>1. /\ rd \in [Pumps -> Nat] /\ rd["c2s"] \in Nat /\ stdout \in Seq(StdoutParts)
      /\ toServer \in Seq([i : Nat, whole : BOOLEAN])
  BY DEF TypeInv, TypeOK, PumpsOK, WireOK, StdoutParts
<1>2. ASSUME NEW e \in StdoutParts, stdout' = Append(stdout, e) PROVE Extended(stdout, stdout')
  BY <1>1, <1>2 DEF Extended
<1>3. ASSUME NEW e \in [i : Nat, whole : BOOLEAN], toServer' = Append(toServer, e)
      PROVE  Extended(toServer, toServer')
  BY <1>1, <1>3 DEF Extended
<1>4. /\ UNCHANGED stdout => Extended(stdout, stdout')
      /\ UNCHANGED toServer => Extended(toServer, toServer')
  BY DEF Extended
<1>5. [p |-> "resp", i |-> rd["c2s"]] \in StdoutParts
  BY <1>1 DEF StdoutParts
<1>6. \A n \in Nat, w \in BOOLEAN : [i |-> n, whole |-> w] \in [i : Nat, whole : BOOLEAN]
  OBVIOUS
<1>7. CASE Quiet
  BY <1>2, <1>4, <1>7 DEF Quiet
<1>8. CASE C2sDecide \/ C2sDropRaw
  BY <1>4, <1>8 DEF C2sDecide, C2sDropRaw, wireVars
<1>9. CASE C2sForwardRaw \/ C2sEof
  <2>1. rd["c2s"] + 1 \in Nat /\ UNCHANGED stdout
    BY <1>1, <1>9 DEF C2sForwardRaw, C2sEof
  <2>2. toServer' \in {toServer, Append(toServer, [i |-> rd["c2s"] + 1, whole |-> TRUE])}
    BY <1>9 DEF C2sForwardRaw, C2sEof
  <2>3. QED
    BY <1>3, <1>4, <1>6, <2>1, <2>2
<1>10. CASE C2sForward
  <2>1. /\ UNCHANGED stdout
        /\ \/ toServer' = toServer
           \/ toServer' = Append(toServer, [i |-> rd["c2s"], whole |-> fault["c2s"] # "truncate"])
    BY <1>1, <1>10 DEF C2sForward, Delivery
  <2>2. QED
    BY <1>1, <1>3, <1>4, <1>6, <2>1
<1>11. CASE C2sRespond
  BY <1>2, <1>4, <1>5, <1>11 DEF C2sRespond
<1>12. QED
  BY <1>7, <1>8, <1>9, <1>10, <1>11, LoudOrQuiet DEF Loud

\* The storage thread moves a message from one part of Reported to the other.
LEMMA Received == TypeInv /\ StorageRecv => Reported' = Reported
<1> SUFFICES ASSUME TypeInv, StorageRecv PROVE Reported' = Reported
  OBVIOUS
<1>1. chan \in Seq(Messages) /\ drained \in Seq(Messages) /\ chan # <<>>
  BY DEF StorageRecv, TypeInv, TypeOK, StoreOK
<1>2. drained' = Append(drained, Head(chan)) /\ chan' = Tail(chan)
  BY DEF StorageRecv
<1>3. /\ Len(drained' \o chan') = Len(drained \o chan)
      /\ \A k \in 1 .. Len(drained \o chan) : (drained' \o chan')[k] = (drained \o chan)[k]
  BY <1>1, <1>2
<1>4. drained \o chan \in Seq(Messages) /\ drained' \o chan' \in Seq(Messages)
  BY <1>1, <1>2
<1>5. QED
  BY <1>3, <1>4, SeqEqual DEF Reported

\* A send records the message or latches the drop.
Records(p, msg) ==
  \/ Reported' = Append(Reported, msg) /\ UNCHANGED logged
  \/ Reported' = Reported /\ logged' = [logged EXCEPT ![p] = TRUE]

\* What one try_send does to the record.
LEMMA SendRecords ==
  ASSUME TypeInv, NEW p \in Pumps, NEW msg \in Messages, TrySend(p, msg), UNCHANGED drained
  PROVE  Records(p, msg)
<1>1. chan \in Seq(Messages) /\ drained \in Seq(Messages)
  BY DEF TypeInv, TypeOK, StoreOK
<1>2. drained \o Append(chan, msg) = Append(drained \o chan, msg)
  BY <1>1
<1>3. QED
  BY <1>1, <1>2 DEF TrySend, Records, Reported

Silent == Reported' = Reported /\ UNCHANGED logged

\* The steps that record, and what.
LEMMA SilentOrRecords ==
  TypeInv /\ [Next]_vars =>
    \/ Silent
    \/ C2sDropRaw /\ ~dropping /\ Records("c2s", Msg("over", "c2s", rd["c2s"] + 1))
    \/ C2sInject /\ Records("c2s", Msg("inj", "c2s", rd["c2s"]))
    \/ C2sTap /\ Recording /\ Records("c2s", Msg("tap", "c2s", rd["c2s"]))
    \/ C2sEvent /\ Records("c2s", Msg("sec", "c2s", rd["c2s"]))
    \/ S2cInject /\ Records("s2c", Msg("inj", "s2c", rd["s2c"]))
    \/ S2cTap /\ Recording /\ Records("s2c", Msg("tap", "s2c", rd["s2c"]))
<1> SUFFICES ASSUME TypeInv, [Next]_vars, ~Silent
             PROVE \/ C2sDropRaw /\ ~dropping /\ Records("c2s", Msg("over", "c2s", rd["c2s"] + 1))
                   \/ C2sInject /\ Records("c2s", Msg("inj", "c2s", rd["c2s"]))
                   \/ C2sTap /\ Recording /\ Records("c2s", Msg("tap", "c2s", rd["c2s"]))
                   \/ C2sEvent /\ Records("c2s", Msg("sec", "c2s", rd["c2s"]))
                   \/ S2cInject /\ Records("s2c", Msg("inj", "s2c", rd["s2c"]))
                   \/ S2cTap /\ Recording /\ Records("s2c", Msg("tap", "s2c", rd["s2c"]))
  OBVIOUS
<1>1. ~UNCHANGED <<tapVars, drained>> /\ ~StorageRecv
  BY Received DEF Silent, Reported, tapVars, StorageRecv
<1>2. \/ (C2sDropRaw /\ ~dropping) \/ C2sInject \/ (C2sTap /\ Recording) \/ C2sEvent
      \/ S2cInject \/ (S2cTap /\ Recording)
  <2>1. UNCHANGED drained
    BY <1>1, PumpFrame DEF Next, Environment, ClientSend, ClientClose, ClientStopsReading,
       ServerSend, ServerClosesStdin, ServerExit, outerVars, storeVars, Main, MainReap,
       MainAbort, C2sCancel, MainJoin, MainExit, Storage, StorageEnd, vars
  <2>2. ~UNCHANGED tapVars
    BY <1>1, <2>1
  <2>3. PumpC2s \/ PumpS2c
    BY <1>1, <2>2 DEF Next, Environment, ClientSend, ClientClose, ClientStopsReading,
       ServerSend, ServerClosesStdin, ServerExit, Main, MainReap,
       MainAbort, C2sCancel, MainJoin, MainExit, Storage, StorageEnd, vars
  <2>4. /\ ~C2sDecide /\ ~C2sForwardRaw /\ ~C2sWake /\ ~C2sForward /\ ~C2sLock /\ ~C2sRespond
        /\ ~C2sEof
    BY <2>2 DEF C2sDecide, C2sForwardRaw, C2sWake, C2sForward, C2sLock, C2sRespond, C2sEof
  <2>5. ~S2cRead /\ ~S2cWake /\ ~S2cLock /\ ~S2cWrite /\ ~S2cNewline /\ ~S2cEof
    BY <2>2 DEF S2cRead, S2cWake, S2cLock, S2cWrite, S2cNewline, S2cEof
  <2>6. (C2sDropRaw => ~dropping) /\ (C2sTap \/ S2cTap => Recording)
    BY <2>2 DEF C2sDropRaw, C2sTap, S2cTap
  <2>7. QED
    BY <2>3, <2>4, <2>5, <2>6 DEF PumpC2s, PumpS2c
<1>3. UNCHANGED drained
  BY <1>2, PumpFrame DEF PumpC2s, PumpS2c, outerVars, storeVars
<1>4. /\ rd["c2s"] \in Nat /\ rd["s2c"] \in Nat
      /\ \A m \in {"tap", "sec", "inj", "over"}, p \in Pumps, i \in Nat : Msg(m, p, i) \in Messages
  BY DEF TypeInv, TypeOK, PumpsOK, Msg, Messages
<1>5. rd["c2s"] + 1 \in Nat
  BY <1>4
<1>6. QED
  BY <1>2, <1>3, <1>4, <1>5, SendRecords DEF C2sDropRaw, C2sInject, C2sTap, C2sEvent, EventMsg,
     S2cInject, S2cTap

\* What the record held it still holds, at its place.
LEMMA RecordGrows ==
  TypeInv /\ [Next]_vars =>
    /\ Reported \in Seq(Messages) /\ Extended(Reported, Reported')
    /\ \A p \in Pumps : logged[p] => logged'[p]
<1> SUFFICES ASSUME TypeInv, [Next]_vars
             PROVE  /\ Reported \in Seq(Messages) /\ Extended(Reported, Reported')
                    /\ \A p \in Pumps : logged[p] => logged'[p]
  OBVIOUS
<1>1. Reported \in Seq(Messages) /\ logged \in [Pumps -> BOOLEAN]
  BY DEF TypeInv, TypeOK, StoreOK, Reported
<1>2. ASSUME NEW msg, NEW p \in Pumps, Records(p, msg)
      PROVE  Extended(Reported, Reported') /\ \A q \in Pumps : logged[q] => logged'[q]
  BY <1>1, <1>2 DEF Records, Extended
<1>3. CASE Silent
  BY <1>1, <1>3 DEF Silent, Extended
<1>4. QED
  BY <1>1, <1>2, <1>3, SilentOrRecords

-----------------------------------------------------------------------------
(* Where the pumps stand.                                                  *)

\* A pump moves by its own steps; run_wrap can only end pump_c2s.
LEMMA C2sRests ==
  TypeInv /\ [Next]_vars /\ ~PumpC2s /\ ~C2sCancel =>
    /\ pc'["c2s"] = pc["c2s"] /\ rd'["c2s"] = rd["c2s"] /\ fault'["c2s"] = fault["c2s"]
    /\ UNCHANGED <<left, dropping, toServer>>
<1> SUFFICES ASSUME TypeInv, [Next]_vars, ~PumpC2s, ~C2sCancel
             PROVE  /\ pc'["c2s"] = pc["c2s"] /\ rd'["c2s"] = rd["c2s"]
                    /\ fault'["c2s"] = fault["c2s"] /\ UNCHANGED <<left, dropping, toServer>>
  OBVIOUS
<1>1. /\ pc \in [Pumps -> C2sPcs \cup S2cPcs] /\ rd \in [Pumps -> Nat]
      /\ fault \in [Pumps -> Faults \cup {"none"}]
  BY DEF TypeInv, TypeOK, PumpsOK
<1>2. CASE PumpS2c
  BY <1>1, <1>2 DEF PumpS2c, S2cRead, S2cWake, S2cLock, S2cWrite, S2cNewline, S2cInject, S2cTap,
     S2cEof, Goto, Take, pumpVars, wireVars
<1>3. CASE UNCHANGED <<pumpVars, wireVars>>
  BY <1>3 DEF pumpVars, wireVars
<1>4. ~PumpS2c => UNCHANGED <<pumpVars, wireVars>>
  BY DEF Next, Environment, ClientSend, ClientClose, ClientStopsReading,
       ServerSend, ServerClosesStdin, ServerExit, Main, MainReap,
       MainAbort, MainJoin, MainExit, Storage, StorageRecv, StorageEnd, vars
<1>5. QED
  BY <1>2, <1>3, <1>4

\* Nothing but its own steps moves pump_s2c.
LEMMA S2cRests ==
  TypeInv /\ [Next]_vars /\ ~PumpS2c =>
    pc'["s2c"] = pc["s2c"] /\ rd'["s2c"] = rd["s2c"] /\ fault'["s2c"] = fault["s2c"]
<1> SUFFICES ASSUME TypeInv, [Next]_vars, ~PumpS2c
             PROVE  /\ pc'["s2c"] = pc["s2c"] /\ rd'["s2c"] = rd["s2c"]
                    /\ fault'["s2c"] = fault["s2c"]
  OBVIOUS
<1>1. /\ pc \in [Pumps -> C2sPcs \cup S2cPcs] /\ rd \in [Pumps -> Nat]
      /\ fault \in [Pumps -> Faults \cup {"none"}]
  BY DEF TypeInv, TypeOK, PumpsOK
<1>2. CASE PumpC2s
  BY <1>1, <1>2 DEF PumpC2s, C2sDecide, C2sDropRaw, C2sForwardRaw, C2sWake, C2sForward, C2sLock,
     C2sRespond, C2sInject, C2sTap, C2sEvent, C2sEof, Goto, Take
<1>3. CASE C2sCancel
  BY <1>1, <1>3 DEF C2sCancel, Goto
<1>4. CASE UNCHANGED pumpVars
  BY <1>4 DEF pumpVars
<1>5. ~PumpC2s /\ ~C2sCancel => UNCHANGED pumpVars
  BY DEF Next, Environment, ClientSend, ClientClose, ClientStopsReading,
       ServerSend, ServerClosesStdin, ServerExit, Main, MainReap,
       MainAbort, MainJoin, MainExit, Storage, StorageRecv, StorageEnd, vars
<1>6. QED
  BY <1>2, <1>3, <1>4, <1>5

\* The chunks a pump has taken stay what they were.
LEMMA TakenKept ==
  TypeInv /\ [Next]_vars =>
    /\ \A i \in 1 .. Len(sent) : i \in DOMAIN sent' /\ sent'[i] = sent[i]
    /\ \A i \in 1 .. Len(emitted) : i \in DOMAIN emitted' /\ emitted'[i] = emitted[i]
<1> SUFFICES ASSUME TypeInv, [Next]_vars
             PROVE  /\ \A i \in 1 .. Len(sent) : i \in DOMAIN sent' /\ sent'[i] = sent[i]
                    /\ \A i \in 1 .. Len(emitted) : i \in DOMAIN emitted' /\ emitted'[i] = emitted[i]
  OBVIOUS
<1>1. sent \in Seq(ClientChunks \cup {Rem}) /\ emitted \in Seq(ServerChunks \cup {Rem})
  BY DEF TypeInv, TypeOK, PartiesOK
<1>2. /\ UNCHANGED sent \/ \E c \in ClientChunks \cup {Rem} : sent' = Append(sent, c)
      /\ UNCHANGED emitted \/ \E c \in ServerChunks \cup {Rem} : emitted' = Append(emitted, c)
  BY StreamsStep DEF SentStep, EmittedStep
<1>3. /\ \A c \in ClientChunks \cup {Rem}, i \in 1 .. Len(sent) :
           i \in DOMAIN Append(sent, c) /\ Append(sent, c)[i] = sent[i]
      /\ \A c \in ServerChunks \cup {Rem}, i \in 1 .. Len(emitted) :
           i \in DOMAIN Append(emitted, c) /\ Append(emitted, c)[i] = emitted[i]
  BY <1>1
<1>4. QED
  BY <1>1, <1>2, <1>3

\* The shapes there are.
LEMMA ChunkShapes ==
  TypeInv => /\ \A i \in DOMAIN sent : sent[i].t \in {"frame", "raw", "end", "rem"}
             /\ \A i \in DOMAIN emitted : emitted[i].t \in {"frame", "raw", "end", "rem"}
<1> SUFFICES ASSUME TypeInv
             PROVE  /\ \A i \in DOMAIN sent : sent[i].t \in {"frame", "raw", "end", "rem"}
                    /\ \A i \in DOMAIN emitted : emitted[i].t \in {"frame", "raw", "end", "rem"}
  OBVIOUS
<1>1. /\ \A i \in DOMAIN sent : sent[i] \in ClientChunks \cup {Rem}
      /\ \A i \in DOMAIN emitted : emitted[i] \in ServerChunks \cup {Rem}
  BY ElementOfSeq DEF TypeInv, TypeOK, PartiesOK
<1>2. QED
  BY <1>1, StdioWrapAssumption DEF Rem

\* A pump reaches each place in its loop with a chunk that belongs there.
LEMMA NextPlaceInv == TypeInv /\ PlaceInv /\ [Next]_vars => PlaceInv'
<1> SUFFICES ASSUME TypeInv, PlaceInv, [Next]_vars PROVE PlaceInv'
  OBVIOUS
<1>1. /\ pc \in [Pumps -> C2sPcs \cup S2cPcs] /\ rd \in [Pumps -> Nat]
      /\ fault \in [Pumps -> Faults \cup {"none"}] /\ "none" \notin Faults
      /\ pc["c2s"] \in C2sPcs /\ pc["s2c"] \in S2cPcs
      /\ rd["c2s"] \in 0 .. Len(sent) /\ rd["s2c"] \in 0 .. Len(emitted)
      /\ Len(sent) \in Nat /\ Len(emitted) \in Nat
  BY StdioWrapAssumption DEF TypeInv, TypeOK, PumpsOK, CursorsOK, PartiesOK
<1>2. /\ pc'["c2s"] = "inj" => fault'["c2s"] # "none"
      /\ pc'["c2s"] \notin {"read", "done"} => CurC2s'.t = "frame"
      /\ pc'["c2s"] \in {"lock", "resp"} /\ fault'["c2s"] = "none" => Blocked(CurC2s')
  <2>1. CASE pc'["c2s"] \in {"read", "done"}
    BY <2>1
  <2>2. CASE rd'["c2s"] = rd["c2s"] /\ pc["c2s"] \notin {"read", "done"}
    <3>1. CurC2s' = CurC2s
      BY <1>1, <2>2, TakenKept DEF CurC2s, TypeInv, BusyInv
    <3>2. \/ pc'["c2s"] = "inj" => fault'["c2s"] # "none"
          \/ pc["c2s"] = "inj" /\ pc'["c2s"] = "inj" /\ fault'["c2s"] = fault["c2s"]
      BY <1>1, <2>2, C2sRests DEF PumpC2s, C2sDecide, C2sDropRaw, C2sForwardRaw, C2sWake,
         C2sForward, C2sLock, C2sRespond, C2sInject, C2sTap, C2sEvent, C2sEof, Goto, Take,
         AfterForward, AfterWire, C2sCancel, CanRead
    <3>3. pc'["c2s"] \in {"lock", "resp"} =>
            pc["c2s"] \in {"lock", "resp"} /\ fault'["c2s"] = fault["c2s"]
      BY <1>1, <2>2, C2sRests DEF PumpC2s, C2sDecide, C2sDropRaw, C2sForwardRaw, C2sWake,
         C2sForward, C2sLock, C2sRespond, C2sInject, C2sTap, C2sEvent, C2sEof, Goto, Take,
         AfterForward, AfterWire, C2sCancel, CanRead
    <3>4. QED
      BY <2>2, <3>1, <3>2, <3>3 DEF PlaceInv
  <2>3. CASE C2sDecide
    <3>1. CurC2s' = NextC2s /\ NextC2s.t = "frame"
      BY <1>1, <2>3, PumpFrame DEF PumpC2s, C2sDecide, CurC2s, NextC2s, Take, outerVars, clientVars
    <3>2. QED
      BY <1>1, <2>3, <3>1 DEF C2sDecide, Goto, Blocked
  <2>4. CASE pc["c2s"] \in {"read", "done"} /\ ~C2sDecide
    BY <1>1, <2>1, <2>4, C2sRests DEF PumpC2s, C2sDropRaw, C2sForwardRaw, C2sWake,
       C2sForward, C2sLock, C2sRespond, C2sInject, C2sTap, C2sEvent, C2sEof, Goto, C2sCancel
  <2>5. rd'["c2s"] = rd["c2s"] \/ pc["c2s"] = "read"
    BY <1>1, C2sRests DEF PumpC2s, C2sDecide, C2sDropRaw, C2sForwardRaw, C2sWake,
       C2sForward, C2sLock, C2sRespond, C2sInject, C2sTap, C2sEvent, C2sEof, CanRead, C2sCancel
  <2>6. QED
    BY <2>1, <2>2, <2>3, <2>4, <2>5
<1>3. /\ pc'["s2c"] = "inj" => fault'["s2c"] # "none"
      /\ pc'["s2c"] \in {"nl", "inj", "tap"} => CurS2c'.t = "frame"
  <2>1. CASE pc'["s2c"] \notin {"nl", "inj", "tap"}
    BY <2>1
  <2>2. CASE S2cRead
    <3>1. CurS2c' = NextS2c
      BY <1>1, <2>2, PumpFrame DEF PumpS2c, S2cRead, CurS2c, NextS2c, Take, outerVars, serverVars
    <3>2. QED
      BY <1>1, <2>2, <3>1 DEF S2cRead, Goto
  <2>3. CASE ~S2cRead /\ pc'["s2c"] \in {"nl", "inj", "tap"}
    <3>1. /\ rd'["s2c"] = rd["s2c"] /\ pc["s2c"] \in {"write", "nl", "inj", "tap"}
          /\ pc["s2c"] = "write" => CurS2c.t = "frame"
          /\ pc'["s2c"] = "inj" => fault'["s2c"] = fault["s2c"] /\ fault["s2c"] # "none"
      <4>1. CASE ~PumpS2c
        BY <2>3, <4>1, S2cRests DEF PlaceInv
      <4>2. CASE S2cWrite
        <5>1. Part \in {"body", "cut", "err", "raw", "end", "rem"}
          BY <4>2, PartType DEF S2cWrite
        <5>2. rd' = rd /\ fault' = fault /\ Part \in {"body", "cut", "err"}
          BY <1>1, <2>3, <4>2, <5>1 DEF S2cWrite, Goto
        <5>3. CurS2c.t = "frame"
          <6>1. CurS2c.t \in {"frame", "raw", "end", "rem"}
            BY <1>1, <4>2, ChunkShapes DEF S2cWrite, CurS2c, TypeInv, BusyInv, TypeOK, PartiesOK
          <6>2. QED
            BY <4>2, <5>2, <6>1 DEF S2cWrite, PlaceInv, Part
        <5>4. pc'["s2c"] = "inj" => Part \in {"cut", "err"}
          BY <1>1, <4>2, <5>2 DEF S2cWrite, Goto
        <5>5. Part \in {"cut", "err"} => fault["s2c"] # "none"
          BY <5>3 DEF Part
        <5>6. QED
          BY <4>2, <5>2, <5>3, <5>4, <5>5 DEF S2cWrite
      <4>3. CASE S2cNewline \/ S2cInject \/ S2cTap
        BY <1>1, <2>3, <4>3 DEF S2cNewline, S2cInject, S2cTap, Goto, AfterWire
      <4>4. CASE S2cWake \/ S2cLock \/ S2cEof
        BY <1>1, <2>3, <4>4 DEF S2cWake, S2cLock, S2cEof, Goto
      <4>5. QED
        BY <2>3, <4>1, <4>2, <4>3, <4>4 DEF PumpS2c
    <3>2. CurS2c' = CurS2c
      BY <1>1, <3>1, TakenKept DEF CurS2c, TypeInv, BusyInv
    <3>3. QED
      BY <2>3, <3>1, <3>2 DEF PlaceInv
  <2>4. QED
    BY <2>1, <2>2, <2>3
<1>4. pc'["s2c"] \notin {"read", "done"} /\ fault'["s2c"] # "none" => CurS2c'.t = "frame"
  <2>1. CASE S2cRead
    <3>1. CurS2c' = NextS2c
      BY <1>1, <2>1, PumpFrame DEF PumpS2c, S2cRead, CurS2c, NextS2c, Take, outerVars, serverVars
    <3>2. QED
      BY <1>1, <2>1, <3>1 DEF S2cRead, Goto
  <2>2. CASE ~S2cRead /\ pc'["s2c"] \notin {"read", "done"} /\ fault'["s2c"] # "none"
    <3>1. /\ rd'["s2c"] = rd["s2c"] /\ pc["s2c"] \notin {"read", "done"}
          /\ fault["s2c"] # "none"
      <4>1. CASE ~PumpS2c
        BY <2>2, <4>1, S2cRests
      <4>2. CASE S2cWrite \/ S2cNewline \/ S2cInject \/ S2cTap
        BY <1>1, <2>2, <4>2 DEF S2cWrite, S2cNewline, S2cInject, S2cTap
      <4>3. CASE S2cWake \/ S2cLock \/ S2cEof
        BY <1>1, <2>2, <4>3 DEF S2cWake, S2cLock, S2cEof, Goto
      <4>4. QED
        BY <2>2, <4>1, <4>2, <4>3 DEF PumpS2c
    <3>2. CurS2c' = CurS2c
      BY <1>1, <3>1, TakenKept DEF CurS2c, TypeInv, BusyInv
    <3>3. QED
      BY <3>1, <3>2 DEF PlaceInv
  <2>3. QED
    BY <2>1, <2>2
<1>5. QED
  BY <1>2, <1>3, <1>4 DEF PlaceInv, Blocked

-----------------------------------------------------------------------------
(* Nothing is lost on the wire.                                            *)

\* What has happened to a chunk has happened for good.
LEMMA Lasting ==
  TypeInv /\ [Next]_vars =>
    /\ \A part, i : Written(part, i) => Written(part, i)'
    /\ \A i : ForwardedWhole(i) => ForwardedWhole(i)'
    /\ \A p \in Pumps : \A i : Excused(p, i) => Excused(p, i)'
    /\ \A k, p, i : IsReported(k, p, i) => IsReported(k, p, i)'
    /\ clientReads' => clientReads
<1> SUFFICES ASSUME TypeInv, [Next]_vars
             PROVE  /\ \A part, i : Written(part, i) => Written(part, i)'
                    /\ \A i : ForwardedWhole(i) => ForwardedWhole(i)'
                    /\ \A p \in Pumps : \A i : Excused(p, i) => Excused(p, i)'
                    /\ \A k, p, i : IsReported(k, p, i) => IsReported(k, p, i)'
                    /\ clientReads' => clientReads
  OBVIOUS
<1>1. /\ Extended(stdout, stdout') /\ Extended(toServer, toServer')
      /\ Extended(Reported, Reported') /\ \A p \in Pumps : logged[p] => logged'[p]
  BY OutputsGrow, RecordGrows
<1>2. \A part, i : Written(part, i) => Written(part, i)'
  BY <1>1 DEF Written, Extended
<1>3. \A i : ForwardedWhole(i) => ForwardedWhole(i)'
  BY <1>1 DEF ForwardedWhole, Extended
<1>4. \A k, p, i : IsReported(k, p, i) => IsReported(k, p, i)'
  BY <1>1 DEF IsReported, Extended, Msg
<1>5. \A p \in Pumps : \A i : Excused(p, i) => Excused(p, i)'
  BY <1>1, <1>4 DEF Excused
<1>6. clientReads' => clientReads
  BY PumpFrame DEF Next, Environment, ClientSend, ClientClose, ClientStopsReading, ServerSend,
     ServerClosesStdin, ServerExit, outerVars, clientVars, Main, MainReap, MainAbort, C2sCancel,
     MainJoin, MainExit, Storage, StorageRecv, StorageEnd, vars
<1>7. QED
  BY <1>2, <1>3, <1>4, <1>5, <1>6

\* A chunk's fate, once settled, stands.
LEMMA FateLasts ==
  ASSUME TypeInv, [Next]_vars
  PROVE  /\ \A i \in 1 .. Len(sent) : C2sFate(i) => C2sFate(i)'
         /\ \A i \in 1 .. Len(sent) : Answered(i) => Answered(i)'
         /\ \A i \in 1 .. Len(emitted) : S2cFate(i) => S2cFate(i)'
<1>1. ASSUME NEW i \in 1 .. Len(sent), C2sFate(i) PROVE C2sFate(i)'
  BY <1>1, Lasting, TakenKept DEF C2sFate, MustNotForward
<1>2. ASSUME NEW i \in 1 .. Len(sent), Answered(i) PROVE Answered(i)'
  BY <1>2, Lasting, TakenKept DEF Answered, Refused, Blocked
<1>3. ASSUME NEW i \in 1 .. Len(emitted), S2cFate(i) PROVE S2cFate(i)'
  BY <1>3, Lasting, TakenKept DEF S2cFate, Crossed
<1>4. QED
  BY <1>1, <1>2, <1>3

\* The steps that end a chunk's wire action.
LEMMA C2sSettles ==
  ASSUME TypeInv, [Next]_vars, NEW i \in Nat \ {0}, C2sSettled(i)'
  PROVE  \/ i \in 1 .. Len(sent) /\ C2sSettled(i)
         \/ /\ C2sDecide \/ C2sDropRaw \/ C2sForwardRaw \/ C2sForward \/ C2sRespond \/ C2sInject
            /\ i = rd'["c2s"] /\ pc'["c2s"] \in {"read", "tap"}
<1>1. /\ pc \in [Pumps -> C2sPcs \cup S2cPcs] /\ rd \in [Pumps -> Nat]
      /\ rd["c2s"] \in 0 .. Len(sent) /\ rd["c2s"] \in Nat /\ Len(sent) \in Nat
  BY DEF TypeInv, TypeOK, PumpsOK, CursorsOK, PartiesOK
<1>2. CASE C2sDecide \/ C2sDropRaw \/ C2sForwardRaw
  <2>1. rd'["c2s"] = rd["c2s"] + 1 /\ pc["c2s"] = "read"
    BY <1>1, <1>2 DEF C2sDecide, C2sDropRaw, C2sForwardRaw, Take, CanRead
  <2>2. i <= rd["c2s"] => C2sSettled(i)
    BY <1>1, <2>1 DEF C2sSettled
  <2>3. pc'["c2s"] # "ev"
    BY <1>1, <1>2, StdioWrapAssumption DEF C2sDecide, C2sDropRaw, C2sForwardRaw, Goto, CanRead
  <2>4. QED
    BY <1>1, <1>2, <2>1, <2>2, <2>3 DEF C2sSettled
<1>3. CASE C2sForward \/ C2sRespond \/ C2sInject
  <2>1. rd'["c2s"] = rd["c2s"] /\ pc'["c2s"] # "ev"
    BY <1>1, <1>3 DEF C2sForward, C2sRespond, C2sInject, Goto, AfterForward, AfterWire
  <2>2. QED
    BY <1>1, <1>3, <2>1 DEF C2sSettled
<1>4. CASE C2sEof
  <2>1. rd'["c2s"] \in {rd["c2s"], rd["c2s"] + 1} /\ pc["c2s"] = "read" /\ pc'["c2s"] = "done"
    BY <1>1, <1>4 DEF C2sEof, Goto, Take
  <2>2. QED
    BY <1>1, <2>1 DEF C2sSettled
<1>5. CASE C2sWake \/ C2sLock \/ C2sTap \/ C2sEvent \/ C2sCancel
  BY <1>1, <1>5 DEF C2sWake, C2sLock, C2sTap, C2sEvent, C2sCancel, Goto, C2sSettled
<1>6. CASE ~PumpC2s /\ ~C2sCancel
  BY <1>1, <1>6, C2sRests DEF C2sSettled
<1>7. QED
  BY <1>2, <1>3, <1>4, <1>5, <1>6 DEF PumpC2s

\* The same for pump_s2c, whose wire action is a write or two.
LEMMA S2cSettles ==
  ASSUME TypeInv, [Next]_vars, NEW i \in Nat \ {0}, S2cSettled(i)'
  PROVE  \/ i \in 1 .. Len(emitted) /\ S2cSettled(i)
         \/ S2cWrite /\ i = rd["s2c"] /\ pc'["s2c"] = "read"
         \/ (S2cNewline \/ S2cInject) /\ i = rd["s2c"] /\ pc'["s2c"] = "tap"
<1>1. /\ pc \in [Pumps -> C2sPcs \cup S2cPcs] /\ rd \in [Pumps -> Nat]
      /\ rd["s2c"] \in 0 .. Len(emitted) /\ rd["s2c"] \in Nat /\ Len(emitted) \in Nat
  BY DEF TypeInv, TypeOK, PumpsOK, CursorsOK, PartiesOK
<1>2. CASE S2cRead
  <2>1. rd'["s2c"] = rd["s2c"] + 1 /\ pc["s2c"] = "read"
    BY <1>1, <1>2 DEF S2cRead, Take, CanRead
  <2>2. pc'["s2c"] \notin {"read", "tap"}
    BY <1>1, <1>2, StdioWrapAssumption DEF S2cRead, Goto
  <2>3. QED
    BY <1>1, <2>1, <2>2 DEF S2cSettled
<1>3. CASE S2cWrite
  <2>1. rd' = rd /\ pc'["s2c"] # "tap"
    <3>1. Part \in {"body", "cut", "err", "raw", "end", "rem"}
      BY <1>3, PartType DEF S2cWrite
    <3>2. QED
      BY <1>1, <1>3, <3>1 DEF S2cWrite, Goto
  <2>2. QED
    BY <1>1, <1>3, <2>1 DEF S2cSettled
<1>4. CASE S2cNewline \/ S2cInject
  BY <1>1, <1>4 DEF S2cNewline, S2cInject, Goto, AfterWire, S2cSettled
<1>5. CASE S2cWake \/ S2cLock \/ S2cTap \/ S2cEof
  BY <1>1, <1>5 DEF S2cWake, S2cLock, S2cTap, S2cEof, Goto, S2cSettled
<1>6. CASE ~PumpS2c
  BY <1>1, <1>6, S2cRests DEF S2cSettled
<1>7. QED
  BY <1>2, <1>3, <1>4, <1>5, <1>6 DEF PumpS2c

\* The wire action of a chunk ends with the chunk forwarded, withheld for a reason,
\* or its fault on record, and with a refused request answered.
LEMMA NextSettledInv ==
  TypeInv /\ GateInv /\ PlaceInv /\ SettledInv /\ [Next]_vars => SettledInv'
<1> SUFFICES ASSUME TypeInv, GateInv, PlaceInv, SettledInv, [Next]_vars PROVE SettledInv'
  OBVIOUS
<1>1. /\ pc \in [Pumps -> C2sPcs \cup S2cPcs] /\ rd \in [Pumps -> Nat]
      /\ fault \in [Pumps -> Faults \cup {"none"}] /\ "none" \notin Faults
      /\ rd["c2s"] \in Nat /\ rd["s2c"] \in Nat
      /\ DOMAIN sent = 1 .. Len(sent) /\ DOMAIN emitted = 1 .. Len(emitted)
      /\ Len(sent) \in Nat /\ Len(emitted) \in Nat
      /\ rd["c2s"] <= Len(sent) /\ rd["s2c"] <= Len(emitted)
      /\ logged \in [Pumps -> BOOLEAN]
  BY StdioWrapAssumption DEF TypeInv, TypeOK, PumpsOK, PartiesOK, CursorsOK, StoreOK
\* What pump_c2s settles.
<1>2. ASSUME NEW n \in Nat, n = rd["c2s"] + 1, C2sDecide
      PROVE  /\ pc'["c2s"] \in {"read", "tap"} => C2sFate(n)'
             /\ pc'["c2s"] \in {"read", "tap", "inj"} => Answered(n)'
  <2>1. UNCHANGED sent
    BY <1>2 DEF C2sDecide, outerVars, clientVars
  <2>2. pc'["c2s"] \in {"read", "tap"} => Blocked(NextC2s) /\ ~NextC2s.id
    BY <1>1, <1>2, StdioWrapAssumption DEF C2sDecide, Goto
  <2>3. pc'["c2s"] \in {"read", "tap", "inj"} => ~(Blocked(NextC2s) /\ NextC2s.id)
    BY <1>1, <1>2, StdioWrapAssumption DEF C2sDecide, Goto
  <2>4. QED
    BY <1>2, <2>1, <2>2, <2>3 DEF C2sFate, MustNotForward, Blocked, NextC2s, Answered, Refused
<1>3. ASSUME NEW n \in Nat, n = rd["c2s"] + 1, C2sDropRaw \/ C2sForwardRaw
      PROVE  /\ pc'["c2s"] \in {"read", "tap"} => C2sFate(n)'
             /\ Answered(n)'
  <2>1. UNCHANGED sent /\ NextC2s.t \in {"raw", "end"}
    BY <1>3 DEF C2sDropRaw, C2sForwardRaw, outerVars, clientVars
  <2>2. C2sDropRaw => MustNotForward(sent[n])
    BY <1>3, <2>1 DEF C2sDropRaw, FailClosed, MustNotForward, NextC2s
  <2>3. C2sForwardRaw /\ pc'["c2s"] \in {"read", "tap"} => ForwardedWhole(n)'
    <3> SUFFICES ASSUME C2sForwardRaw, pc'["c2s"] \in {"read", "tap"}
                 PROVE  ForwardedWhole(n)'
      OBVIOUS
    <3>1. toServer' = Append(toServer, [i |-> n, whole |-> TRUE])
      BY <1>1, <1>3 DEF C2sForwardRaw, Goto
    <3>2. toServer \in Seq([i : Nat, whole : BOOLEAN])
      BY DEF TypeInv, TypeOK, WireOK
    <3>3. Len(toServer') \in DOMAIN toServer' /\ toServer'[Len(toServer')] = [i |-> n, whole |-> TRUE]
      BY <3>1, <3>2
    <3>4. QED
      BY <3>3 DEF ForwardedWhole
  <2>4. QED
    BY <1>3, <2>1, <2>2, <2>3 DEF C2sFate, MustNotForward, NextC2s, Answered, Refused
<1>4. ASSUME NEW n \in Nat, n = rd["c2s"], C2sForward
      PROVE  /\ pc'["c2s"] \in {"read", "tap"} => C2sFate(n)'
             /\ Answered(n)'
  <2>1. UNCHANGED sent /\ ~MustNotForward(sent[n])
    BY <1>4 DEF C2sForward, outerVars, clientVars, GateInv, Cleared, CurC2s
  <2>2. Answered(n)'
    BY <2>1 DEF Answered, Refused, Blocked, MustNotForward
  <2>3. ASSUME pc'["c2s"] \in {"read", "tap"} PROVE ForwardedWhole(n)'
    <3>1. toServer' = Append(toServer, [i |-> n, whole |-> TRUE])
      <4>1. stdinOpen /\ fault["c2s"] = "none" /\ toServer \in Seq([i : Nat, whole : BOOLEAN])
        BY <1>1, <1>4, <2>3 DEF C2sForward, Goto, AfterForward, AfterWire, TypeInv, TypeOK, WireOK
      <4>2. toServer' = toServer \o <<[i |-> n, whole |-> TRUE]>>
        BY <1>4, <4>1 DEF C2sForward, Delivery
      <4>3. QED
        BY <4>1, <4>2
    <3>2. toServer \in Seq([i : Nat, whole : BOOLEAN])
      BY DEF TypeInv, TypeOK, WireOK
    <3>3. Len(toServer') \in DOMAIN toServer' /\ toServer'[Len(toServer')] = [i |-> n, whole |-> TRUE]
      BY <3>1, <3>2
    <3>4. QED
      BY <3>3 DEF ForwardedWhole
  <2>4. QED
    BY <2>2, <2>3 DEF C2sFate
<1>5. ASSUME NEW n \in Nat, n = rd["c2s"], C2sRespond
      PROVE  /\ pc'["c2s"] \in {"read", "tap"} => C2sFate(n)'
             /\ Answered(n)'
  <2>1. UNCHANGED <<sent, clientReads>>
    BY <1>5 DEF C2sRespond, outerVars, clientVars
  <2>2. clientReads => Written("resp", n)'
    <3>1. /\ stdout \in Seq(StdoutParts) /\ [p |-> "resp", i |-> n] \in StdoutParts
          /\ clientReads => stdout' = Append(stdout, [p |-> "resp", i |-> n])
      BY <1>1, <1>5 DEF C2sRespond, TypeInv, TypeOK, WireOK, StdoutParts
    <3>2. clientReads => Len(stdout') \in DOMAIN stdout' /\ stdout'[Len(stdout')] = [p |-> "resp", i |-> n]
      BY <3>1
    <3>3. QED
      BY <3>2 DEF Written
  <2>3. pc'["c2s"] \in {"read", "tap"} => Blocked(CurC2s)
    BY <1>1, <1>5 DEF C2sRespond, Goto, AfterWire, PlaceInv
  <2>4. QED
    BY <1>5, <2>1, <2>2, <2>3 DEF C2sFate, MustNotForward, Blocked, CurC2s, Answered
\* An injected fault is on record before its frame counts as settled.
<1>6. ASSUME NEW p \in Pumps, NEW n \in Nat, n = rd[p],
             IF p = "c2s" THEN C2sInject ELSE S2cInject
      PROVE  Excused(p, n)'
  <2>1. fault[p] \in Faults
    BY <1>1, <1>6 DEF C2sInject, S2cInject, PlaceInv
  <2>2. Records(p, Msg("inj", p, n))
    <3>1. Msg("inj", p, n) \in Messages
      BY <1>1 DEF Messages, Msg
    <3>2. TrySend(p, Msg("inj", p, n)) /\ UNCHANGED drained
      BY <1>6 DEF C2sInject, S2cInject, outerVars, storeVars
    <3>3. QED
      BY <3>1, <3>2, SendRecords
  <2>3. CASE Reported' = Append(Reported, Msg("inj", p, n))
    <3>1. Reported \in Seq(Messages)
      BY RecordGrows
    <3>2. Len(Reported') \in DOMAIN Reported' /\ Reported'[Len(Reported')] = Msg("inj", p, n)
      BY <2>3, <3>1
    <3>3. QED
      BY <2>1, <3>2 DEF Excused, IsReported, Msg
  <2>4. CASE logged' = [logged EXCEPT ![p] = TRUE]
    BY <1>1, <2>1, <2>4 DEF Excused
  <2>5. QED
    BY <2>2, <2>3, <2>4 DEF Records
<1>7. ASSUME NEW i \in DOMAIN sent', C2sSettled(i)' PROVE C2sFate(i)' /\ Answered(i)'
  <2>1. i \in Nat \ {0}
    <3>1. sent' \in Seq(ClientChunks \cup {Rem})
      BY NextTypeInv DEF TypeInv, TypeOK, PartiesOK
    <3>2. QED
      BY <3>1
  <2>2. CASE i \in 1 .. Len(sent) /\ C2sSettled(i)
    BY <1>1, <2>2, FateLasts DEF SettledInv, NoTrafficLost, C2sFate, Answered, Refused
  <2>3. CASE /\ C2sDecide \/ C2sDropRaw \/ C2sForwardRaw
             /\ i = rd'["c2s"] /\ pc'["c2s"] \in {"read", "tap"}
    <3>1. i = rd["c2s"] + 1 /\ i \in Nat
      BY <1>1, <2>3 DEF C2sDecide, C2sDropRaw, C2sForwardRaw, Take
    <3>2. QED
      BY <1>2, <1>3, <2>3, <3>1
  <2>4. CASE (C2sForward \/ C2sRespond) /\ i = rd'["c2s"] /\ pc'["c2s"] \in {"read", "tap"}
    <3>1. i = rd["c2s"] /\ i \in Nat
      BY <1>1, <2>4 DEF C2sForward, C2sRespond
    <3>2. QED
      BY <1>4, <1>5, <2>4, <3>1
  <2>5. CASE C2sInject /\ i = rd'["c2s"]
    <3>1. i = rd["c2s"] /\ i \in 1 .. Len(sent) /\ pc["c2s"] = "inj"
      BY <1>1, <2>1, <2>5 DEF C2sInject
    <3>2. Answered(i)
      BY <3>1 DEF SettledInv, Answered
    <3>3. Excused("c2s", i)'
      <4>1. C2sInject /\ i \in Nat /\ i = rd["c2s"] /\ "c2s" \in Pumps
        BY <1>1, <2>5, <3>1
      <4>2. QED
        BY <1>6, <4>1
    <3>4. Answered(i)'
      BY <3>1, <3>2, FateLasts
    <3>5. QED
      BY <3>3, <3>4 DEF C2sFate
  <2>6. QED
    BY <1>7, <2>1, <2>2, <2>3, <2>4, <2>5, C2sSettles
\* What pump_s2c settles.
<1>8. ASSUME NEW i \in DOMAIN emitted', S2cSettled(i)' PROVE S2cFate(i)'
  <2>1. i \in Nat \ {0}
    <3>1. emitted' \in Seq(ServerChunks \cup {Rem})
      BY NextTypeInv DEF TypeInv, TypeOK, PartiesOK
    <3>2. QED
      BY <3>1
  <2>2. CASE i \in 1 .. Len(emitted) /\ S2cSettled(i)
    BY <1>1, <2>2, FateLasts DEF SettledInv, NoTrafficLost, S2cFate, Crossed
  <2>3. CASE S2cWrite /\ i = rd["s2c"] /\ pc'["s2c"] = "read"
    <3>1. Part \in {"raw", "end"} /\ clientReads
      <4>1. Part \in {"body", "cut", "err", "raw", "end", "rem"}
        BY <2>3, PartType DEF S2cWrite
      <4>2. QED
        BY <1>1, <2>3, <4>1 DEF S2cWrite, Goto
    <3>2. Part = CurS2c.t /\ CurS2c.t # "frame"
      <4>1. CurS2c.t \in {"frame", "raw", "end", "rem"}
        BY <1>1, <2>1, <2>3, ChunkShapes DEF CurS2c
      <4>2. pc["s2c"] = "write"
        BY <2>3 DEF S2cWrite
      <4>3. CASE CurS2c.t = "frame"
        BY <3>1, <4>3 DEF Part
      <4>4. CASE CurS2c.t # "frame"
        BY <4>2, <4>4 DEF Part, PlaceInv
      <4>5. QED
        BY <4>3, <4>4
    <3>3. (\E k \in DOMAIN stdout' : stdout'[k] = [p |-> Part, i |-> i])
      <4>1. /\ stdout \in Seq(StdoutParts) /\ [p |-> Part, i |-> i] \in StdoutParts
            /\ stdout' = Append(stdout, [p |-> Part, i |-> i])
        BY <1>1, <2>3, <3>1 DEF S2cWrite, TypeInv, TypeOK, WireOK, StdoutParts
      <4>2. Len(stdout') \in DOMAIN stdout' /\ stdout'[Len(stdout')] = [p |-> Part, i |-> i]
        BY <4>1
      <4>3. QED
        BY <4>2 DEF Written
    <3>4. UNCHANGED emitted
      BY <2>3 DEF S2cWrite, outerVars, serverVars
    <3>5. QED
      BY <2>3, <3>2, <3>3, <3>4 DEF S2cFate, Crossed, CurS2c, Written
  <2>4. CASE S2cNewline /\ i = rd["s2c"] /\ pc'["s2c"] = "tap"
    <3>1. Written("nl", i)'
      <4>1. /\ stdout \in Seq(StdoutParts) /\ [p |-> "nl", i |-> i] \in StdoutParts
            /\ stdout' = Append(stdout, [p |-> "nl", i |-> i])
        BY <1>1, <2>4 DEF S2cNewline, TypeInv, TypeOK, WireOK, StdoutParts, Goto
      <4>2. Len(stdout') \in DOMAIN stdout' /\ stdout'[Len(stdout')] = [p |-> "nl", i |-> i]
        BY <4>1
      <4>3. QED
        BY <4>2 DEF Written
    <3>2. UNCHANGED emitted /\ CurS2c.t = "frame"
      BY <2>4 DEF S2cNewline, outerVars, serverVars, PlaceInv
    <3>3. QED
      BY <2>4, <3>1, <3>2 DEF S2cFate, Crossed, CurS2c
  <2>5. CASE S2cInject /\ i = rd["s2c"]
    BY <1>1, <1>6, <2>5 DEF S2cFate
  <2>6. QED
    BY <1>8, <2>1, <2>2, <2>3, <2>4, <2>5, S2cSettles
<1>9. ASSUME NEW n \in Nat, n = rd'["c2s"], pc'["c2s"] = "inj" PROVE Answered(n)'
  <2>1. CASE C2sDecide
    <3>1. n = rd["c2s"] + 1
      BY <1>1, <1>9, <2>1 DEF C2sDecide, Take
    <3>2. QED
      BY <1>2, <1>9, <2>1, <3>1
  <2>2. CASE C2sForward \/ C2sRespond
    <3>1. n = rd["c2s"]
      BY <1>9, <2>2 DEF C2sForward, C2sRespond
    <3>2. QED
      BY <1>4, <1>5, <2>2, <3>1
  <2>3. CASE ~PumpC2s /\ ~C2sCancel
    <3>1. pc["c2s"] = "inj" /\ n = rd["c2s"] /\ rd["c2s"] \in 1 .. Len(sent)
      BY <1>1, <1>9, <2>3, C2sRests DEF TypeInv, BusyInv
    <3>2. Answered(n)
      BY <3>1 DEF SettledInv, Answered
    <3>3. QED
      BY <3>1, <3>2, FateLasts
  <2>4. ~C2sCancel /\ (PumpC2s => C2sDecide \/ C2sForward \/ C2sRespond)
    BY <1>1, <1>9 DEF C2sCancel, PumpC2s, C2sDropRaw, C2sForwardRaw, C2sWake, C2sLock, C2sInject,
       C2sTap, C2sEvent, C2sEof, Goto, CanRead
  <2>5. QED
    BY <2>1, <2>2, <2>3, <2>4
<1>10. QED
  <2>1. NoTrafficLost'
    BY <1>7, <1>8 DEF NoTrafficLost, C2sFate, S2cFate, Crossed, Answered, Refused
  <2>2. rd'["c2s"] \in Nat
    BY NextTypeInv DEF TypeInv, TypeOK, PumpsOK
  <2>3. QED
    BY <1>9, <2>1, <2>2 DEF SettledInv, Answered, Refused

-----------------------------------------------------------------------------
(* The record follows the wire.                                            *)

Resting == {"read", "ev", "done"}

\* A cursor advances by one chunk, from "read", and a pump that rests goes on
\* resting until it takes the next one.
LEMMA CursorMoves ==
  ASSUME TypeInv, [Next]_vars, NEW p \in Pumps
  PROVE  \/ rd'[p] = rd[p] /\ (pc[p] \in Resting => pc'[p] \in Resting)
         \/ rd'[p] = rd[p] + 1 /\ pc[p] = "read"
<1>1. /\ pc \in [Pumps -> C2sPcs \cup S2cPcs] /\ rd \in [Pumps -> Nat]
  BY DEF TypeInv, TypeOK, PumpsOK
<1>2. CASE p = "c2s"
  <2>1. CASE C2sDecide \/ C2sDropRaw \/ C2sForwardRaw
    BY <1>1, <1>2, <2>1 DEF C2sDecide, C2sDropRaw, C2sForwardRaw, Take, CanRead
  <2>2. CASE C2sEof
    BY <1>1, <1>2, <2>2 DEF C2sEof, Take, Goto, Resting
  <2>3. CASE C2sWake \/ C2sForward \/ C2sLock \/ C2sRespond \/ C2sInject \/ C2sTap
    BY <1>1, <1>2, <2>3 DEF C2sWake, C2sForward, C2sLock, C2sRespond, C2sInject, C2sTap, Resting
  <2>4. CASE C2sEvent \/ C2sCancel
    BY <1>1, <1>2, <2>4 DEF C2sEvent, C2sCancel, Goto, Resting
  <2>5. CASE ~PumpC2s /\ ~C2sCancel
    BY <1>2, <2>5, C2sRests
  <2>6. QED
    BY <2>1, <2>2, <2>3, <2>4, <2>5 DEF PumpC2s
<1>3. CASE p = "s2c"
  <2>1. CASE S2cRead
    BY <1>1, <1>3, <2>1 DEF S2cRead, Take, CanRead
  <2>2. CASE S2cEof
    BY <1>1, <1>3, <2>2 DEF S2cEof, Goto, Resting
  <2>3. CASE S2cWake \/ S2cLock \/ S2cWrite \/ S2cNewline \/ S2cInject \/ S2cTap
    BY <1>1, <1>3, <2>3 DEF S2cWake, S2cLock, S2cWrite, S2cNewline, S2cInject, S2cTap, Resting
  <2>4. CASE ~PumpS2c
    BY <1>3, <2>4, S2cRests
  <2>5. QED
    BY <2>1, <2>2, <2>3, <2>4 DEF PumpS2c
<1>4. QED
  BY <1>2, <1>3

\* A message that joins the record is about the chunk its pump has in hand, and
\* a tap or an event brings the pump to rest.
LEMMA NewMessage ==
  ASSUME TypeInv, PlaceInv, SettledInv, [Next]_vars, ~Silent
  PROVE  \E r \in Messages :
           /\ Records(r.d, r)
           /\ r.i = rd'[r.d] /\ r.i > 0
           /\ r.m \in {"tap", "sec"} => pc'[r.d] \in Resting /\ rd'[r.d] = rd[r.d]
           /\ r.m = "tap" => pc[r.d] \notin Resting
           /\ Told(r)
<1>1. /\ pc \in [Pumps -> C2sPcs \cup S2cPcs] /\ rd \in [Pumps -> Nat]
      /\ rd["c2s"] \in Nat /\ rd["s2c"] \in Nat /\ rd["c2s"] + 1 \in Nat
      /\ \A p \in Pumps : pc[p] \notin {"read", "done"} => rd[p] > 0
  BY DEF TypeInv, TypeOK, PumpsOK, BusyInv
<1>2. \A m \in {"tap", "sec", "inj", "over"}, p \in Pumps, i \in Nat :
        Msg(m, p, i) \in Messages /\ Msg(m, p, i).m = m /\ Msg(m, p, i).d = p /\ Msg(m, p, i).i = i
  BY DEF Msg, Messages
<1> USE DEF Told
<1>3. CASE C2sDropRaw /\ Records("c2s", Msg("over", "c2s", rd["c2s"] + 1))
  <2>1. rd'["c2s"] = rd["c2s"] + 1
    BY <1>1, <1>3 DEF C2sDropRaw, Take
  <2>2. Msg("over", "c2s", rd["c2s"] + 1) \in Messages
    BY <1>1, <1>2
  <2> WITNESS Msg("over", "c2s", rd["c2s"] + 1) \in Messages
  <2>3. QED
    BY <1>1, <1>2, <1>3, <2>1
<1>4. ASSUME NEW m \in {"tap", "sec", "inj"}, NEW p \in Pumps, Records(p, Msg(m, p, rd[p])),
             rd'[p] = rd[p], rd[p] > 0, m \in {"tap", "sec"} => pc'[p] \in Resting,
             m = "tap" => pc[p] \notin Resting,
             Told(Msg(m, p, rd[p]))
      PROVE  \E r \in Messages :
               /\ Records(r.d, r)
               /\ r.i = rd'[r.d] /\ r.i > 0
               /\ r.m \in {"tap", "sec"} => pc'[r.d] \in Resting /\ rd'[r.d] = rd[r.d]
               /\ r.m = "tap" => pc[r.d] \notin Resting
               /\ Told(r)
  <2>1. rd[p] \in Nat
    BY <1>1
  <2>2. Msg(m, p, rd[p]) \in Messages
    BY <1>2, <2>1
  <2> WITNESS Msg(m, p, rd[p]) \in Messages
  <2>3. QED
    BY <1>2, <1>4, <2>1
<1> HIDE DEF Told
\* A pump about to tap, or in the middle of its events, has settled its chunk.
<1>11. /\ pc["c2s"] \in {"tap", "ev"} => \A m \in {"tap", "sec"} : Told(Msg(m, "c2s", rd["c2s"]))
       /\ pc["s2c"] = "tap" => Told(Msg("tap", "s2c", rd["s2c"]))
       /\ \A p \in Pumps : Told(Msg("inj", p, rd[p]))
  <2>1. /\ rd["c2s"] \in 0 .. Len(sent) /\ rd["s2c"] \in 0 .. Len(emitted)
        /\ DOMAIN sent = 1 .. Len(sent) /\ DOMAIN emitted = 1 .. Len(emitted)
        /\ Len(sent) \in Nat /\ Len(emitted) \in Nat
    BY DEF TypeInv, TypeOK, PumpsOK, PartiesOK, CursorsOK
  <2>2. pc["c2s"] \in {"tap", "ev"} =>
          sent[rd["c2s"]].t = "frame" /\ C2sFate(rd["c2s"]) /\ Answered(rd["c2s"])
    <3> SUFFICES ASSUME pc["c2s"] \in {"tap", "ev"}
                 PROVE  sent[rd["c2s"]].t = "frame" /\ C2sFate(rd["c2s"]) /\ Answered(rd["c2s"])
      OBVIOUS
    <3>1. rd["c2s"] \in DOMAIN sent /\ C2sSettled(rd["c2s"]) /\ CurC2s.t = "frame"
      BY <1>1, <2>1 DEF C2sSettled, PlaceInv
    <3>2. QED
      BY <3>1 DEF CurC2s, SettledInv, NoTrafficLost, C2sFate, Answered, Refused
  <2>3. pc["s2c"] = "tap" => emitted[rd["s2c"]].t = "frame" /\ S2cFate(rd["s2c"])
    <3> SUFFICES ASSUME pc["s2c"] = "tap"
                 PROVE  emitted[rd["s2c"]].t = "frame" /\ S2cFate(rd["s2c"])
      OBVIOUS
    <3>1. rd["s2c"] \in DOMAIN emitted /\ S2cSettled(rd["s2c"]) /\ CurS2c.t = "frame"
      BY <1>1, <2>1 DEF S2cSettled, PlaceInv
    <3>2. QED
      BY <3>1 DEF CurS2c, SettledInv, NoTrafficLost, S2cFate, Crossed
  <2>4. QED
    BY <2>2, <2>3, <1>1, <1>2 DEF Told
<1>5. CASE C2sInject /\ Records("c2s", Msg("inj", "c2s", rd["c2s"]))
  BY <1>1, <1>4, <1>5, <1>11 DEF C2sInject
<1>6. CASE C2sTap /\ Records("c2s", Msg("tap", "c2s", rd["c2s"]))
  <2>1. pc'["c2s"] \in Resting /\ pc["c2s"] = "tap" /\ rd' = rd
    BY <1>1, <1>6 DEF C2sTap, Goto, Resting
  <2>2. QED
    BY <1>1, <1>4, <1>11, <1>6, <2>1 DEF Resting
<1>7. CASE C2sEvent /\ Records("c2s", Msg("sec", "c2s", rd["c2s"]))
  <2>1. pc'["c2s"] \in Resting /\ pc["c2s"] = "ev" /\ rd' = rd
    BY <1>1, <1>7 DEF C2sEvent, Goto, Resting
  <2>2. QED
    BY <1>1, <1>4, <1>11, <1>7, <2>1
<1>8. CASE S2cInject /\ Records("s2c", Msg("inj", "s2c", rd["s2c"]))
  BY <1>1, <1>4, <1>8, <1>11 DEF S2cInject
<1>9. CASE S2cTap /\ Records("s2c", Msg("tap", "s2c", rd["s2c"]))
  <2>1. pc'["s2c"] \in Resting /\ pc["s2c"] = "tap" /\ rd' = rd
    BY <1>1, <1>9 DEF S2cTap, Goto, Resting
  <2>2. QED
    BY <1>1, <1>4, <1>11, <1>9, <2>1 DEF Resting
<1>10. QED
  BY <1>3, <1>5, <1>6, <1>7, <1>8, <1>9, SilentOrRecords

\* What the record says of the wire stays true.
LEMMA ToldLasts ==
  ASSUME TypeInv, [Next]_vars, NEW r \in Messages, Told(r), r.i \in 1 .. rd[r.d]
  PROVE  Told(r)'
<1>1. /\ rd["c2s"] \in 0 .. Len(sent) /\ rd["s2c"] \in 0 .. Len(emitted)
      /\ r.d \in Pumps /\ r.i \in Nat
  BY DEF TypeInv, TypeOK, PumpsOK, CursorsOK, PartiesOK, Messages
<1>2. CASE r.d = "c2s"
  <2>1. r.i \in 1 .. Len(sent)
    BY <1>1, <1>2 DEF TypeInv, TypeOK, PartiesOK
  <2>2. QED
    BY <1>2, <2>1, TakenKept, FateLasts DEF Told
<1>3. CASE r.d = "s2c"
  <2>1. r.i \in 1 .. Len(emitted)
    BY <1>1, <1>3 DEF TypeInv, TypeOK, PartiesOK
  <2>2. QED
    BY <1>3, <2>1, TakenKept, FateLasts DEF Told
<1>4. QED
  BY <1>1, <1>2, <1>3

\* The record names chunks whose wire action is over, in the order of the cursor.
LEMMA NextRecordInv ==
  TypeInv /\ PlaceInv /\ SettledInv /\ RecordInv /\ [Next]_vars => RecordInv'
<1> SUFFICES ASSUME TypeInv, PlaceInv, SettledInv, RecordInv, [Next]_vars PROVE RecordInv'
  OBVIOUS
<1>1. /\ rd \in [Pumps -> Nat] /\ Reported \in Seq(Messages)
      /\ \A k \in DOMAIN Reported : Reported[k] \in Messages
      /\ \A r \in Messages : r.d \in Pumps /\ r.i \in Nat
      /\ rd["c2s"] \in 0 .. Len(sent) /\ rd["s2c"] \in 0 .. Len(emitted)
  <2>1. Reported \in Seq(Messages)
    BY RecordGrows
  <2>2. \A k \in DOMAIN Reported : Reported[k] \in Messages
    BY <2>1, ElementOfSeq
  <2>3. QED
    BY <2>1, <2>2 DEF TypeInv, TypeOK, PumpsOK, CursorsOK, PartiesOK, Messages
\* What was recorded before the step still names a chunk its pump has taken.
<1>2. ASSUME NEW r \in Messages, Placed(r) PROVE Placed(r)'
  <2>1. r.d \in Pumps /\ rd[r.d] \in Nat
    BY <1>1
  <2>2. \/ rd'[r.d] = rd[r.d] /\ (pc[r.d] \in Resting => pc'[r.d] \in Resting)
        \/ rd'[r.d] = rd[r.d] + 1
    BY <2>1, CursorMoves
  <2>3. Told(r)'
    BY <1>1, <1>2, <2>1, ToldLasts DEF Placed
  <2>4. QED
    BY <1>2, <2>1, <2>2, <2>3 DEF Placed, Resting
<1>3. CASE Reported' = Reported
  <2>1. TapsInOrder'
    BY <1>3 DEF RecordInv, TapsInOrder
  <2>2. ASSUME NEW k \in DOMAIN Reported', NEW r, r = Reported'[k] PROVE Placed(r)'
    BY <1>1, <1>2, <1>3, <2>2 DEF RecordInv
  <2>3. QED
    BY <2>1, <2>2 DEF RecordInv
<1>4. ASSUME NEW m \in Messages, Reported' = Append(Reported, m),
             m.i = rd'[m.d], m.i > 0,
             m.m \in {"tap", "sec"} => pc'[m.d] \in Resting /\ rd'[m.d] = rd[m.d],
             m.m = "tap" => pc[m.d] \notin Resting,
             Told(m)
      PROVE  RecordInv'
  <2>1. /\ Len(Reported) \in Nat /\ DOMAIN Reported = 1 .. Len(Reported)
        /\ DOMAIN Reported' = 1 .. Len(Reported) + 1
        /\ \A k \in 1 .. Len(Reported) : Reported'[k] = Reported[k]
        /\ Reported'[Len(Reported) + 1] = m
    BY <1>1, <1>4
  <2>2. ASSUME NEW k \in DOMAIN Reported', NEW r, r = Reported'[k] PROVE Placed(r)'
    <3>1. CASE k \in DOMAIN Reported
      BY <1>1, <1>2, <2>1, <2>2, <3>1 DEF RecordInv
    <3>2. CASE k = Len(Reported) + 1
      <4>1. Told(m)'
        <5>1. CASE m.m \notin {"tap", "sec"}
          BY <5>1 DEF Told
        <5>2. CASE m.m \in {"tap", "sec"}
          BY <1>1, <1>4, <5>2, ToldLasts
        <5>3. QED
          BY <5>1, <5>2
      <4>2. m.d \in Pumps /\ m.i \in Nat
        BY <1>1
      <4>3. r = m
        BY <2>1, <2>2, <3>2
      <4>4. m.i \in 1 .. rd'[m.d]
        BY <1>4, <4>2
      <4>5. QED
        BY <1>4, <4>1, <4>3, <4>4 DEF Placed, Resting
    <3>3. QED
      BY <2>1, <3>1, <3>2
  <2>3. TapsInOrder'
    <3> SUFFICES ASSUME NEW j \in DOMAIN Reported', NEW k \in DOMAIN Reported', j < k,
                        Reported'[j].m = "tap", Reported'[k].m = "tap",
                        Reported'[j].d = Reported'[k].d
                 PROVE  Reported'[j].i < Reported'[k].i
      BY DEF TapsInOrder
    <3>1. j \in DOMAIN Reported /\ Reported'[j] = Reported[j]
      BY <2>1
    <3>2. CASE k \in DOMAIN Reported
      BY <2>1, <3>1, <3>2 DEF RecordInv, TapsInOrder
    <3>3. CASE k = Len(Reported) + 1
      <4>1. /\ Reported[j] \in Messages /\ Reported[j].i \in 1 .. rd[m.d]
            /\ Reported[j].i = rd[m.d] => pc[m.d] \in Resting
        BY <1>1, <2>1, <3>1, <3>3 DEF RecordInv, Placed, Resting
      <4>2. m.d \in Pumps /\ rd[m.d] \in Nat /\ m.i = rd[m.d] /\ pc[m.d] \notin Resting
        BY <1>1, <1>4, <2>1, <3>3
      <4>3. QED
        BY <2>1, <3>1, <3>3, <4>1, <4>2
    <3>4. QED
      BY <2>1, <3>2, <3>3
  <2>4. QED
    BY <2>2, <2>3 DEF RecordInv
<1>5. QED
  BY <1>3, <1>4, NewMessage DEF Silent, Records

-----------------------------------------------------------------------------
(* Gaps in the record are announced.                                       *)

Count(msg) == Cardinality(Reports(msg))

\* One more message is one more report of it and of no other.
LEMMA CountsMove ==
  ASSUME TypeInv, NEW msg
  PROVE  /\ Count(msg) \in Nat
         /\ Reported' = Reported => Count(msg)' = Count(msg)
         /\ \A m \in Messages :
              Reported' = Append(Reported, m) =>
                Count(msg)' = Count(msg) + (IF m = msg THEN 1 ELSE 0)
         /\ (\A k \in DOMAIN Reported : Reported[k] # msg) => Count(msg) = 0
<1>1. /\ Reported \in Seq(Messages) /\ Len(Reported) \in Nat
      /\ DOMAIN Reported = 1 .. Len(Reported)
  BY DEF TypeInv, TypeOK, StoreOK, Reported
<1>2. IsFiniteSet(Reports(msg))
  <2>1. IsFiniteSet(1 .. Len(Reported))
    BY <1>1, FS_Interval
  <2>2. Reports(msg) \subseteq 1 .. Len(Reported)
    BY <1>1 DEF Reports
  <2>3. QED
    BY <2>1, <2>2, FS_Subset
<1>3. Count(msg) \in Nat
  BY <1>2, FS_CardinalityType DEF Count
<1>4. Reported' = Reported => Count(msg)' = Count(msg)
  BY DEF Count, Reports
<1>5. ASSUME NEW m \in Messages, Reported' = Append(Reported, m)
      PROVE  Count(msg)' = Count(msg) + (IF m = msg THEN 1 ELSE 0)
  <2> DEFINE n == Len(Reported) + 1
  <2>1. /\ DOMAIN Reported' = 1 .. Len(Reported) + 1 /\ n \notin DOMAIN Reported
        /\ \A k \in DOMAIN Reported : Reported'[k] = Reported[k]
        /\ Reported'[n] = m
    BY <1>1, <1>5
  <2>2. Reports(msg)' = IF m = msg THEN Reports(msg) \cup {n} ELSE Reports(msg)
    BY <1>1, <2>1 DEF Reports
  <2>3. n \notin Reports(msg)
    BY <2>1 DEF Reports
  <2>4. Cardinality(Reports(msg) \cup {n}) = Cardinality(Reports(msg)) + 1
    BY <1>2, <2>3, FS_AddElement
  <2>5. QED
    BY <1>3, <2>2, <2>4 DEF Count
<1>6. ASSUME \A k \in DOMAIN Reported : Reported[k] # msg PROVE Count(msg) = 0
  <2>1. Reports(msg) = {}
    BY <1>6 DEF Reports
  <2>2. QED
    BY <2>1, FS_EmptySet DEF Count
<1>7. QED
  BY <1>3, <1>4, <1>5, <1>6

\* A chunk pump_c2s is through with, or owes events of, was one before the step,
\* with the same events owed, unless this step tapped it or sent an event of it.
LEMMA C2sThrough ==
  ASSUME TypeInv, [Next]_vars, NEW i \in 1 .. rd'["c2s"], sent'[i].t = "frame",
         i = rd'["c2s"] => pc'["c2s"] \in {"read", "ev"},
         ~((C2sTap \/ C2sEvent) /\ i = rd["c2s"])
  PROVE  /\ i \in 1 .. rd["c2s"] /\ sent'[i] = sent[i]
         /\ i = rd["c2s"] => pc["c2s"] \in {"read", "ev"}
         /\ Owed(i)' = Owed(i)
<1>1. /\ pc \in [Pumps -> C2sPcs \cup S2cPcs] /\ rd \in [Pumps -> Nat] /\ rd["c2s"] \in Nat
      /\ rd["c2s"] <= Len(sent) /\ Len(sent) \in Nat
  BY DEF TypeInv, TypeOK, PumpsOK, CursorsOK, PartiesOK
<1>2. CASE C2sDecide \/ C2sDropRaw \/ C2sForwardRaw \/ C2sEof
  <2>1. /\ rd'["c2s"] \in {rd["c2s"], rd["c2s"] + 1} /\ pc["c2s"] = "read" /\ UNCHANGED sent
        /\ pc'["c2s"] # "ev"
    BY <1>1, <1>2, StdioWrapAssumption DEF C2sDecide, C2sDropRaw, C2sForwardRaw, C2sEof, Take,
       Goto, CanRead, outerVars, clientVars
  <2>2. i # rd["c2s"] + 1
    <3>1. CASE C2sDecide
      <4>1. pc'["c2s"] \notin {"read", "ev"} /\ rd'["c2s"] = rd["c2s"] + 1
        BY <1>1, <3>1, StdioWrapAssumption DEF C2sDecide, Goto, Take
      <4>2. QED
        BY <4>1
    <3>2. CASE C2sDropRaw \/ C2sForwardRaw
      BY <2>1, <3>2 DEF C2sDropRaw, C2sForwardRaw, NextC2s
    <3>3. CASE C2sEof
      BY <1>1, <2>1, <3>3 DEF C2sEof, Goto
    <3>4. QED
      BY <1>2, <3>1, <3>2, <3>3
  <2>3. i \in 1 .. rd["c2s"]
    BY <1>1, <2>1, <2>2
  <2>4. QED
    BY <1>1, <2>1, <2>3 DEF Owed
<1>3. CASE C2sWake \/ C2sForward \/ C2sLock \/ C2sRespond \/ C2sInject \/ C2sCancel
  <2>1. /\ rd' = rd /\ pc'["c2s"] \notin {"read", "ev"} /\ UNCHANGED sent
        /\ pc["c2s"] # "ev"
    BY <1>1, <1>3 DEF C2sWake, C2sForward, C2sLock, C2sRespond, C2sInject, C2sCancel, Goto,
       AfterForward, AfterWire, outerVars, clientVars
  <2>2. QED
    BY <1>1, <2>1 DEF Owed
<1>4. CASE C2sTap \/ C2sEvent
  <2>1. rd' = rd /\ UNCHANGED sent /\ i # rd["c2s"]
    BY <1>4, <1>1 DEF C2sTap, C2sEvent, outerVars, clientVars
  <2>2. QED
    BY <1>1, <2>1 DEF Owed
<1>5. CASE ~PumpC2s /\ ~C2sCancel
  <2>1. rd'["c2s"] = rd["c2s"] /\ pc'["c2s"] = pc["c2s"] /\ left' = left
    BY <1>5, C2sRests
  <2>2. i \in 1 .. Len(sent)
    BY <1>1, <2>1
  <2>3. QED
    BY <1>1, <2>1, <2>2, TakenKept DEF Owed
<1>6. QED
  BY <1>2, <1>3, <1>4, <1>5 DEF PumpC2s

\* The same for pump_s2c, which owes no events.
LEMMA S2cThrough ==
  ASSUME TypeInv, [Next]_vars, NEW i \in 1 .. rd'["s2c"], emitted'[i].t = "frame",
         i = rd'["s2c"] => pc'["s2c"] = "read",
         ~(S2cTap /\ i = rd["s2c"])
  PROVE  /\ i \in 1 .. rd["s2c"] /\ emitted'[i] = emitted[i]
         /\ i = rd["s2c"] => pc["s2c"] = "read"
<1>1. /\ pc \in [Pumps -> C2sPcs \cup S2cPcs] /\ rd \in [Pumps -> Nat] /\ rd["s2c"] \in Nat
      /\ rd["s2c"] <= Len(emitted) /\ Len(emitted) \in Nat
  BY DEF TypeInv, TypeOK, PumpsOK, CursorsOK, PartiesOK
<1>2. CASE S2cRead
  <2>1. /\ rd'["s2c"] = rd["s2c"] + 1 /\ pc["s2c"] = "read" /\ UNCHANGED emitted
        /\ pc'["s2c"] # "read"
    BY <1>1, <1>2, StdioWrapAssumption DEF S2cRead, Take, Goto, CanRead, outerVars, serverVars
  <2>2. QED
    BY <1>1, <2>1
<1>3. CASE S2cWrite
  <2>1. rd' = rd /\ UNCHANGED emitted
    BY <1>3 DEF S2cWrite, outerVars, serverVars
  <2>2. ASSUME pc'["s2c"] = "read" PROVE CurS2c.t # "frame"
    <3>1. Part \in {"body", "cut", "err", "raw", "end", "rem"}
      BY <1>3, PartType DEF S2cWrite
    <3>2. Part \in {"raw", "end"}
      BY <1>1, <1>3, <2>2, <3>1 DEF S2cWrite, Goto
    <3>3. QED
      BY <3>2 DEF Part
  <2>3. QED
    BY <1>1, <2>1, <2>2 DEF CurS2c
<1>4. CASE S2cWake \/ S2cLock \/ S2cNewline \/ S2cInject \/ S2cEof
  <2>1. rd' = rd /\ UNCHANGED emitted /\ pc'["s2c"] # "read"
    BY <1>1, <1>4 DEF S2cWake, S2cLock, S2cNewline, S2cInject, S2cEof, Goto, AfterWire,
       outerVars, serverVars
  <2>2. QED
    BY <1>1, <2>1
<1>5. CASE S2cTap
  BY <1>1, <1>5 DEF S2cTap, outerVars, serverVars
<1>6. CASE ~PumpS2c
  <2>1. rd'["s2c"] = rd["s2c"] /\ pc'["s2c"] = pc["s2c"] /\ i \in 1 .. Len(emitted)
    BY <1>1, <1>6, S2cRests
  <2>2. QED
    BY <2>1, TakenKept
<1>7. QED
  BY <1>2, <1>3, <1>4, <1>5, <1>6 DEF PumpS2c

\* What a tap or an event leaves in the record while the drop latch is down.
LEMMA WhileLatchIsDown ==
  ASSUME TypeInv
  PROVE  /\ C2sTap /\ ~logged'["c2s"] =>
              IF Recording THEN Reported' = Append(Reported, Msg("tap", "c2s", rd["c2s"]))
                           ELSE Reported' = Reported
         /\ C2sEvent /\ ~logged'["c2s"] => Reported' = Append(Reported, Msg("sec", "c2s", rd["c2s"]))
         /\ S2cTap /\ Recording /\ ~logged'["s2c"] =>
              Reported' = Append(Reported, Msg("tap", "s2c", rd["s2c"]))
<1>1. /\ logged \in [Pumps -> BOOLEAN]
      /\ \A m \in {"tap", "sec"}, p \in Pumps : Msg(m, p, rd[p]) \in Messages
  BY DEF TypeInv, TypeOK, StoreOK, PumpsOK, Msg, Messages
<1>2. ASSUME NEW p \in Pumps, NEW m \in Messages, TrySend(p, m), UNCHANGED drained, ~logged'[p]
      PROVE  Reported' = Append(Reported, m)
  <2>1. Records(p, m)
    BY <1>2, SendRecords
  <2>2. logged' # [logged EXCEPT ![p] = TRUE]
    BY <1>1, <1>2
  <2>3. QED
    BY <2>1, <2>2 DEF Records
<1>3. (C2sTap \/ C2sEvent \/ S2cTap) => UNCHANGED drained
  BY DEF C2sTap, C2sEvent, S2cTap, outerVars, storeVars
<1>4. C2sTap /\ ~Recording => Reported' = Reported
  BY <1>3 DEF C2sTap, tapVars, Reported
<1>5. QED
  BY <1>1, <1>2, <1>3, <1>4 DEF C2sTap, C2sEvent, EventMsg, S2cTap

\* While its drop latch is down a pump has recorded each frame it is through with
\* once, and each event of it but those it still owes.
LEMMA NextCountInv ==
  TypeInv /\ PlaceInv /\ RecordInv /\ CountInv /\ [Next]_vars => CountInv'
<1> SUFFICES ASSUME TypeInv, PlaceInv, RecordInv, CountInv, [Next]_vars PROVE CountInv'
  OBVIOUS
<1>1. /\ pc \in [Pumps -> C2sPcs \cup S2cPcs] /\ rd \in [Pumps -> Nat]
      /\ rd["c2s"] \in Nat /\ rd["s2c"] \in Nat
      /\ rd["c2s"] <= Len(sent) /\ Len(sent) \in Nat
      /\ rd["s2c"] <= Len(emitted) /\ Len(emitted) \in Nat
      /\ logged \in [Pumps -> BOOLEAN] /\ left \in Nat
      /\ \A p \in Pumps : pc[p] \notin {"read", "done"} => rd[p] > 0
      /\ pc["c2s"] = "ev" => left > 0
      /\ pc["s2c"] \in S2cPcs
  BY DEF TypeInv, TypeOK, PumpsOK, CursorsOK, PartiesOK, StoreOK, BusyInv
<1>2. \A k, l, p, q, i, j : Msg(k, p, i) = Msg(l, q, j) <=> k = l /\ p = q /\ i = j
  BY DEF Msg
<1>3. \A m \in {"tap", "sec", "inj", "over"}, p \in Pumps, i \in Nat : Msg(m, p, i) \in Messages
  BY DEF Msg, Messages
<1>4. pc'["c2s"] \notin {"read", "done", "ev"} => left' = CurC2s'.hits
  <2>1. CASE C2sDecide
    <3>1. CurC2s' = NextC2s /\ left' = NextC2s.hits
      BY <1>1, <2>1 DEF C2sDecide, CurC2s, NextC2s, Take, outerVars, clientVars
    <3>2. QED
      BY <3>1
  <2>2. CASE C2sDropRaw \/ C2sForwardRaw \/ C2sTap \/ C2sEvent \/ C2sEof \/ C2sCancel
    BY <1>1, <2>2 DEF C2sDropRaw, C2sForwardRaw, C2sTap, C2sEvent, C2sEof, C2sCancel, Goto, CanRead
  <2>3. CASE C2sWake \/ C2sForward \/ C2sLock \/ C2sRespond \/ C2sInject
    <3>1. /\ pc["c2s"] \in {"sleep", "forward", "lock", "resp", "inj"} /\ left' = left
          /\ CurC2s' = CurC2s
      BY <2>3 DEF C2sWake, C2sForward, C2sLock, C2sRespond, C2sInject, CurC2s, outerVars, clientVars
    <3>2. QED
      BY <3>1 DEF CountInv
  <2>4. CASE ~PumpC2s /\ ~C2sCancel /\ pc'["c2s"] \notin {"read", "done", "ev"}
    <3>1. /\ rd'["c2s"] = rd["c2s"] /\ pc'["c2s"] = pc["c2s"] /\ left' = left
          /\ rd["c2s"] \in 1 .. Len(sent)
      BY <1>1, <2>4, C2sRests
    <3>2. CurC2s' = CurC2s
      BY <3>1, TakenKept DEF CurC2s
    <3>3. QED
      BY <2>4, <3>1, <3>2 DEF CountInv
  <2>5. QED
    BY <2>1, <2>2, <2>3, <2>4 DEF PumpC2s
\* A chunk whose tap and events this step does not touch keeps its counts.
<1>5. ASSUME NEW p \in Pumps, NEW i \in Nat, NEW k \in {"tap", "sec"},
             ~((C2sTap \/ C2sEvent) /\ p = "c2s" /\ i = rd["c2s"]),
             ~(S2cTap /\ p = "s2c" /\ i = rd["s2c"])
      PROVE  Count(Msg(k, p, i))' = Count(Msg(k, p, i))
  <2>1. CASE Reported' = Reported
    BY <2>1, CountsMove
  <2>2. ASSUME NEW m \in Messages, Reported' = Append(Reported, m), m # Msg(k, p, i)
        PROVE  Count(Msg(k, p, i))' = Count(Msg(k, p, i))
    BY <2>2, CountsMove
  <2>3. \/ Reported' = Reported
        \/ \E m \in Messages : Reported' = Append(Reported, m) /\ m # Msg(k, p, i)
    BY <1>1, <1>2, <1>3, <1>5, SilentOrRecords DEF Silent, Records
  <2>4. QED
    BY <2>1, <2>2, <2>3
<1>6. ASSUME NEW i \in 1 .. rd'["c2s"], ~logged'["c2s"], sent'[i].t = "frame",
             i = rd'["c2s"] => pc'["c2s"] \in {"read", "ev"}
      PROVE  /\ Recording => Count(Msg("tap", "c2s", i))' = 1
             /\ Count(Msg("sec", "c2s", i))' + Owed(i)' = sent'[i].hits
  <2>1. ~logged["c2s"] /\ i \in Nat
    BY <1>6, RecordGrows
  <2>2. CASE ~((C2sTap \/ C2sEvent) /\ i = rd["c2s"])
    <3>1. /\ i \in 1 .. rd["c2s"] /\ sent'[i] = sent[i]
          /\ i = rd["c2s"] => pc["c2s"] \in {"read", "ev"}
          /\ Owed(i)' = Owed(i)
      BY <1>6, <2>2, C2sThrough
    <3>2. \A k \in {"tap", "sec"} : Count(Msg(k, "c2s", i))' = Count(Msg(k, "c2s", i))
      BY <1>5, <2>1, <2>2
    <3>3. QED
      BY <1>6, <2>1, <3>1, <3>2 DEF CountInv, Count
  <2>3. CASE C2sTap /\ i = rd["c2s"]
    <3>1. /\ pc["c2s"] = "tap" /\ UNCHANGED <<rd, left, sent>> /\ left = sent[i].hits
          /\ pc'["c2s"] = IF left > 0 THEN "ev" ELSE "read"
      BY <1>1, <2>3 DEF C2sTap, Goto, EventsOwed, outerVars, clientVars, CountInv, CurC2s
    <3>2. \A k \in {"tap", "sec"} : Count(Msg(k, "c2s", i)) = 0
      <4> SUFFICES ASSUME NEW k \in {"tap", "sec"}, NEW x \in DOMAIN Reported,
                          Reported[x] = Msg(k, "c2s", i)
                   PROVE  FALSE
        BY CountsMove
      <4>1. Msg(k, "c2s", i).m = k /\ Msg(k, "c2s", i).d = "c2s" /\ Msg(k, "c2s", i).i = i
        BY DEF Msg
      <4>2. QED
        BY <2>3, <3>1, <4>1 DEF RecordInv, Placed
    <3>3. \/ Recording /\ Reported' = Append(Reported, Msg("tap", "c2s", i))
          \/ ~Recording /\ Reported' = Reported
      BY <1>1, <1>6, <2>3, WhileLatchIsDown
    <3>4. /\ Recording => Count(Msg("tap", "c2s", i))' = 1
          /\ Count(Msg("sec", "c2s", i))' = 0
      BY <1>2, <1>3, <2>1, <3>2, <3>3, CountsMove
    <3>5. Owed(i)' = left
      BY <1>1, <2>3, <3>1 DEF Owed
    <3>6. QED
      BY <1>1, <3>1, <3>4, <3>5
  <2>4. CASE C2sEvent /\ i = rd["c2s"]
    <3>1. /\ pc["c2s"] = "ev" /\ UNCHANGED <<rd, sent>> /\ left' = left - 1
          /\ pc'["c2s"] = IF left = 1 THEN "read" ELSE "ev"
      BY <1>1, <2>4 DEF C2sEvent, Goto, LastEvent, outerVars, clientVars
    <3>2. Reported' = Append(Reported, Msg("sec", "c2s", i))
      BY <1>1, <1>6, <2>4, WhileLatchIsDown
    <3>3. /\ Count(Msg("tap", "c2s", i))' = Count(Msg("tap", "c2s", i))
          /\ Count(Msg("sec", "c2s", i))' = Count(Msg("sec", "c2s", i)) + 1
          /\ Count(Msg("sec", "c2s", i)) \in Nat
      BY <1>2, <1>3, <2>1, <3>2, CountsMove
    <3>4. /\ Recording => Count(Msg("tap", "c2s", i)) = 1
          /\ Count(Msg("sec", "c2s", i)) + left = sent[i].hits
      BY <1>6, <2>1, <2>4, <3>1 DEF CountInv, Count, Owed
    <3>5. Owed(i)' = left - 1
      BY <1>1, <2>4, <3>1 DEF Owed
    <3>6. QED
      BY <1>1, <3>1, <3>3, <3>4, <3>5
  <2>5. QED
    BY <2>2, <2>3, <2>4
<1>7. ASSUME NEW i \in 1 .. rd'["s2c"], ~logged'["s2c"], Recording, emitted'[i].t = "frame",
             i = rd'["s2c"] => pc'["s2c"] = "read"
      PROVE  Count(Msg("tap", "s2c", i))' = 1
  <2>1. ~logged["s2c"] /\ i \in Nat
    BY <1>7, RecordGrows
  <2>2. CASE S2cTap /\ i = rd["s2c"]
    <3>1. Count(Msg("tap", "s2c", i)) = 0
      <4> SUFFICES ASSUME NEW x \in DOMAIN Reported, Reported[x] = Msg("tap", "s2c", i)
                   PROVE  FALSE
        BY CountsMove
      <4>1. Msg("tap", "s2c", i).m = "tap" /\ Msg("tap", "s2c", i).d = "s2c" /\ Msg("tap", "s2c", i).i = i
        BY DEF Msg
      <4>2. QED
        BY <2>2, <4>1 DEF RecordInv, Placed, S2cTap
    <3>2. Reported' = Append(Reported, Msg("tap", "s2c", i))
      BY <1>1, <1>7, <2>2, WhileLatchIsDown
    <3>3. QED
      BY <1>3, <2>1, <3>1, <3>2, CountsMove
  <2>3. CASE ~(S2cTap /\ i = rd["s2c"])
    <3>1. /\ i \in 1 .. rd["s2c"] /\ emitted'[i] = emitted[i]
          /\ i = rd["s2c"] => pc["s2c"] = "read"
      BY <1>7, <2>3, S2cThrough
    <3>2. Count(Msg("tap", "s2c", i))' = Count(Msg("tap", "s2c", i))
      BY <1>5, <2>1, <2>3
    <3>3. QED
      BY <1>7, <2>1, <3>1, <3>2 DEF CountInv, Count
  <2>4. QED
    BY <2>2, <2>3
<1>8. QED
  BY <1>4, <1>6, <1>7 DEF CountInv, Count

-----------------------------------------------------------------------------
(* An oversized frame that is dropped is one event.                        *)

\* What the chunks a pump has taken begin does not change; the step that takes a
\* chunk adds it if it begins an oversized frame.
LEMMA SegmentsMove ==
  ASSUME TypeInv, [Next]_vars
  PROVE  /\ rd'["c2s"] = rd["c2s"] => FirstSegments' = FirstSegments
         /\ \A n \in Nat : rd'["c2s"] = n /\ n = rd["c2s"] + 1 /\ n <= Len(sent) =>
              FirstSegments' = IF sent[n].t = "raw" /\ (n = 1 \/ sent[n - 1].t # "raw")
                                 THEN FirstSegments \cup {n} ELSE FirstSegments
<1>1. rd["c2s"] \in Nat /\ rd["c2s"] <= Len(sent) /\ Len(sent) \in Nat
  BY DEF TypeInv, TypeOK, PumpsOK, CursorsOK, PartiesOK
<1>2. \A i \in 1 .. Len(sent) : sent'[i] = sent[i]
  BY TakenKept
<1>3. ASSUME rd'["c2s"] = rd["c2s"] PROVE FirstSegments' = FirstSegments
  BY <1>1, <1>2, <1>3 DEF FirstSegments
<1>4. ASSUME NEW n \in Nat, rd'["c2s"] = n, n = rd["c2s"] + 1, n <= Len(sent)
      PROVE  FirstSegments' = IF sent[n].t = "raw" /\ (n = 1 \/ sent[n - 1].t # "raw")
                                THEN FirstSegments \cup {n} ELSE FirstSegments
  <2>1. 1 .. n = (1 .. rd["c2s"]) \cup {n} /\ n \notin 1 .. rd["c2s"]
    BY <1>1, <1>4
  <2>2. \A i \in 1 .. n : sent'[i] = sent[i] /\ (i # 1 => sent'[i - 1] = sent[i - 1])
    BY <1>1, <1>2, <1>4
  <2>3. FirstSegments' = {i \in 1 .. n : sent[i].t = "raw" /\ (i = 1 \/ sent[i - 1].t # "raw")}
    BY <1>4, <2>2 DEF FirstSegments
  <2>4. QED
    BY <2>1, <2>3 DEF FirstSegments
<1>5. QED
  BY <1>3, <1>4

\* A step that reports no oversized frame keeps the promise if none began, or if
\* the drop latch is up.
LEMMA OversKept ==
  ASSUME TypeInv, [Next]_vars, OversizedReportedOnce,
         \/ Reported' = Reported
         \/ \E m \in Messages : Reported' = Append(Reported, m) /\ m.m # "over",
         Mode = "enforce" => FirstSegments \subseteq FirstSegments',
         Mode = "enforce" /\ ~logged'["c2s"] => FirstSegments' = FirstSegments
  PROVE  OversizedReportedOnce'
<1>1. /\ Reported \in Seq(Messages) /\ DOMAIN Reported = 1 .. Len(Reported) /\ Len(Reported) \in Nat
      /\ logged["c2s"] => logged'["c2s"]
      /\ Extended(Reported, Reported')
  BY RecordGrows
<1>2. \A k \in DOMAIN Reported' :
        Reported'[k].m = "over" => k \in DOMAIN Reported /\ Reported'[k] = Reported[k]
  BY <1>1
<1>3. \A k \in DOMAIN Reported : k \in DOMAIN Reported' /\ Reported'[k] = Reported[k]
  BY <1>1 DEF Extended
<1>4. ASSUME NEW k \in DOMAIN Reported', Reported'[k].m = "over"
      PROVE  Mode = "enforce" /\ Reported'[k].i \in FirstSegments'
  BY <1>2, <1>4 DEF OversizedReportedOnce
<1>5. ASSUME NEW j \in DOMAIN Reported', NEW k \in DOMAIN Reported',
             Reported'[j].m = "over", Reported'[k].m = "over", Reported'[j].i = Reported'[k].i
      PROVE  j = k
  BY <1>2, <1>5 DEF OversizedReportedOnce
<1>6. ASSUME Mode = "enforce", ~logged'["c2s"], NEW i \in FirstSegments'
      PROVE  \E k \in DOMAIN Reported' : Reported'[k].m = "over" /\ Reported'[k].i = i
  <2>1. i \in FirstSegments /\ ~logged["c2s"]
    BY <1>1, <1>6
  <2>2. PICK k \in DOMAIN Reported : Reported[k].m = "over" /\ Reported[k].i = i
    BY <1>6, <2>1 DEF OversizedReportedOnce
  <2>3. QED
    BY <1>3, <2>2
<1>7. QED
  BY <1>4, <1>5, <1>6 DEF OversizedReportedOnce

\* The latch says whether the last chunk taken left an oversized frame unfinished,
\* so that only its first segment raises an event.
LEMMA NextOverInv == TypeInv /\ StreamInv /\ OverInv /\ [Next]_vars => OverInv'
<1> SUFFICES ASSUME TypeInv, StreamInv, OverInv, [Next]_vars PROVE OverInv'
  OBVIOUS
<1>1. /\ rd \in [Pumps -> Nat] /\ rd["c2s"] \in Nat /\ rd["c2s"] <= Len(sent) /\ Len(sent) \in Nat
      /\ DOMAIN sent = 1 .. Len(sent)
      /\ Reported \in Seq(Messages) /\ DOMAIN Reported = 1 .. Len(Reported) /\ Len(Reported) \in Nat
      /\ dropping \in BOOLEAN /\ logged \in [Pumps -> BOOLEAN]
      /\ pc \in [Pumps -> C2sPcs \cup S2cPcs]
  BY RecordGrows DEF TypeInv, TypeOK, PumpsOK, CursorsOK, PartiesOK, StoreOK
<1>2. \A i \in 1 .. Len(sent) : sent'[i] = sent[i]
  BY TakenKept
<1>3. Mode = "enforce" => (dropping <=> rd["c2s"] > 0 /\ sent[rd["c2s"]].t = "raw")
  BY DEF OverInv
\* What the next chunk is says what the one before it was.
<1>4. ASSUME rd["c2s"] < Len(sent)
      PROVE  /\ NextC2s.t = "end" => rd["c2s"] > 0 /\ sent[rd["c2s"]].t = "raw"
             /\ NextC2s.t \in {"frame", "rem"} => rd["c2s"] = 0 \/ sent[rd["c2s"]].t # "raw"
  <2>1. rd["c2s"] + 1 \in DOMAIN sent /\ (rd["c2s"] + 1) - 1 = rd["c2s"]
    BY <1>1, <1>4
  <2>2. QED
    BY <1>1, <2>1 DEF StreamInv, Shaped, NextC2s
<1>5. CASE ~C2sDropRaw
  <2>1. \/ Reported' = Reported
        \/ \E m \in Messages : Reported' = Append(Reported, m) /\ m.m # "over"
    <3>1. \A m \in {"tap", "sec", "inj"}, p \in Pumps :
            Msg(m, p, rd[p]) \in Messages /\ Msg(m, p, rd[p]).m # "over"
      BY <1>1 DEF Msg, Messages
    <3>2. QED
      BY <1>5, <3>1, SilentOrRecords DEF Silent, Records
  <2>2. \/ rd'["c2s"] = rd["c2s"] /\ dropping' = dropping
        \/ /\ rd'["c2s"] = rd["c2s"] + 1 /\ rd["c2s"] < Len(sent) /\ dropping' = dropping
           /\ Mode = "enforce" => NextC2s.t \in {"frame", "rem"}
    <3>1. CASE C2sDecide
      BY <1>1, <3>1 DEF C2sDecide, Take, CanRead
    <3>2. CASE C2sForwardRaw
      BY <1>1, <3>2 DEF C2sForwardRaw, Take, CanRead, FailClosed
    <3>3. CASE C2sEof
      BY <1>1, <3>3 DEF C2sEof, Take
    <3>4. CASE C2sWake \/ C2sForward \/ C2sLock \/ C2sRespond \/ C2sInject \/ C2sTap \/ C2sEvent
      BY <3>4 DEF C2sWake, C2sForward, C2sLock, C2sRespond, C2sInject, C2sTap, C2sEvent
    <3>5. CASE C2sCancel
      BY <3>5 DEF C2sCancel
    <3>6. CASE ~PumpC2s /\ ~C2sCancel
      BY <3>6, C2sRests
    <3>7. QED
      BY <1>5, <3>1, <3>2, <3>3, <3>4, <3>5, <3>6 DEF PumpC2s
  <2>3. CASE rd'["c2s"] = rd["c2s"] /\ dropping' = dropping
    <3>1. FirstSegments' = FirstSegments
      BY <2>3, SegmentsMove
    <3>2. OversizedReportedOnce'
      BY <2>1, <3>1, OversKept DEF OverInv
    <3>3. rd["c2s"] > 0 => sent'[rd["c2s"]] = sent[rd["c2s"]]
      BY <1>1, <1>2
    <3>4. QED
      BY <1>3, <2>3, <3>2, <3>3 DEF OverInv
  <2>4. CASE /\ rd'["c2s"] = rd["c2s"] + 1 /\ rd["c2s"] < Len(sent) /\ dropping' = dropping
             /\ Mode = "enforce" => NextC2s.t \in {"frame", "rem"}
    <3>1. rd["c2s"] + 1 \in Nat /\ rd["c2s"] + 1 <= Len(sent) /\ rd["c2s"] + 1 \in 1 .. Len(sent)
      BY <1>1, <2>4
    <3>2. Mode = "enforce" => FirstSegments' = FirstSegments
      BY <2>4, <3>1, SegmentsMove DEF NextC2s
    <3>3. OversizedReportedOnce'
      BY <2>1, <3>2, OversKept DEF OverInv
    <3>4. Mode = "enforce" => ~dropping'
      BY <1>1, <1>3, <1>4, <2>4
    <3>5. Mode = "enforce" => sent'[rd'["c2s"]].t # "raw"
      BY <1>2, <2>4, <3>1 DEF NextC2s
    <3>6. QED
      BY <1>1, <3>3, <3>4, <3>5 DEF OverInv
  <2>5. QED
    BY <2>2, <2>3, <2>4
<1>6. CASE C2sDropRaw
  <2> DEFINE n == rd["c2s"] + 1
  <2>1. /\ Mode = "enforce" /\ n \in Nat /\ n \in 1 .. Len(sent) /\ rd["c2s"] < Len(sent)
        /\ rd'["c2s"] = n /\ UNCHANGED sent
        /\ sent[n].t \in {"raw", "end"} /\ (dropping' <=> sent[n].t # "end")
        /\ dropping => Reported' = Reported /\ UNCHANGED logged
    <3>1. n \in Nat /\ n \in 1 .. Len(sent) /\ rd["c2s"] < Len(sent) /\ rd'["c2s"] = n
      BY <1>1, <1>6 DEF C2sDropRaw, Take, CanRead
    <3>2. /\ Mode = "enforce" /\ UNCHANGED sent
          /\ sent[n].t \in {"raw", "end"} /\ (dropping' <=> sent[n].t # "end")
      BY <1>6 DEF C2sDropRaw, FailClosed, NextC2s, StillDropping, outerVars, clientVars
    <3>3. dropping => Reported' = Reported /\ UNCHANGED logged
      BY <1>6 DEF C2sDropRaw, outerVars, storeVars, tapVars, Reported
    <3>4. QED
      BY <3>1, <3>2, <3>3
  <2>2. dropping' <=> rd'["c2s"] > 0 /\ sent'[rd'["c2s"]].t = "raw"
    BY <1>1, <2>1
  <2>3. CASE dropping
    <3>1. FirstSegments' = FirstSegments
      <4>1. rd["c2s"] > 0 /\ sent[rd["c2s"]].t = "raw" /\ n - 1 = rd["c2s"] /\ n # 1
        BY <1>1, <1>3, <2>1, <2>3
      <4>2. QED
        BY <1>1, <2>1, <4>1, SegmentsMove
    <3>2. QED
      BY <2>1, <2>2, <2>3, <3>1, OversKept DEF OverInv
  <2>4. CASE ~dropping
    <3>1. sent[n].t = "raw" /\ (n = 1 \/ sent[n - 1].t # "raw")
      BY <1>1, <1>3, <1>4, <2>1, <2>4 DEF NextC2s
    <3>2. FirstSegments' = FirstSegments \cup {n} /\ n \notin FirstSegments
      BY <1>1, <2>1, <3>1, SegmentsMove DEF FirstSegments
    <3>3. Records("c2s", Msg("over", "c2s", n))
      <4>1. Msg("over", "c2s", n) \in Messages
        BY <2>1 DEF Msg, Messages
      <4>2. TrySend("c2s", Msg("over", "c2s", n)) /\ UNCHANGED drained
        BY <1>6, <2>4 DEF C2sDropRaw, outerVars, storeVars
      <4>3. QED
        BY <4>1, <4>2, SendRecords
    <3>4. CASE Reported' = Reported /\ logged' = [logged EXCEPT !["c2s"] = TRUE]
      BY <1>1, <2>1, <2>2, <3>2, <3>4, OversKept DEF OverInv
    <3>5. CASE Reported' = Append(Reported, Msg("over", "c2s", n)) /\ UNCHANGED logged
      <4>1. /\ DOMAIN Reported' = 1 .. Len(Reported) + 1
            /\ \A k \in 1 .. Len(Reported) : Reported'[k] = Reported[k]
            /\ Reported'[Len(Reported) + 1].m = "over" /\ Reported'[Len(Reported) + 1].i = n
        BY <1>1, <3>5 DEF Msg
      <4>2. ASSUME NEW k \in DOMAIN Reported', Reported'[k].m = "over"
            PROVE  Mode = "enforce" /\ Reported'[k].i \in FirstSegments'
        BY <1>1, <2>1, <3>2, <4>1, <4>2 DEF OverInv, OversizedReportedOnce
      <4>3. ASSUME NEW j \in DOMAIN Reported', NEW k \in DOMAIN Reported',
                   Reported'[j].m = "over", Reported'[k].m = "over", Reported'[j].i = Reported'[k].i
            PROVE  j = k
        <5>1. \A x \in 1 .. Len(Reported) : Reported'[x].m = "over" => Reported'[x].i # n
          BY <1>1, <3>2, <4>1 DEF OverInv, OversizedReportedOnce
        <5>2. QED
          BY <1>1, <4>1, <4>3, <5>1 DEF OverInv, OversizedReportedOnce
      <4>4. ASSUME ~logged'["c2s"], NEW i \in FirstSegments'
            PROVE  \E k \in DOMAIN Reported' : Reported'[k].m = "over" /\ Reported'[k].i = i
        <5>1. CASE i = n
          BY <1>1, <4>1, <5>1
        <5>2. CASE i \in FirstSegments
          <6>1. PICK k \in DOMAIN Reported : Reported[k].m = "over" /\ Reported[k].i = i
            BY <2>1, <3>5, <4>4, <5>2 DEF OverInv, OversizedReportedOnce
          <6>2. k \in DOMAIN Reported' /\ Reported'[k] = Reported[k]
            BY <1>1, <4>1
          <6>3. QED
            BY <6>1, <6>2
        <5>3. QED
          BY <3>2, <4>4, <5>1, <5>2
      <4>5. OversizedReportedOnce'
        BY <4>2, <4>3, <4>4 DEF OversizedReportedOnce
      <4>6. QED
        BY <2>2, <4>5 DEF OverInv
    <3>6. QED
      BY <3>3, <3>4, <3>5 DEF Records
  <2>5. QED
    BY <2>3, <2>4
<1>7. QED
  BY <1>5, <1>6

\* Everything holds when nothing has happened.
LEMMA InitRecording ==
  Init => GateInv /\ StreamInv /\ PlaceInv /\ SettledInv /\ RecordInv /\ CountInv /\ OverInv
<1> SUFFICES ASSUME Init
             PROVE  GateInv /\ StreamInv /\ PlaceInv /\ SettledInv /\ RecordInv /\ CountInv /\ OverInv
  OBVIOUS
<1> USE DEF Init
<1>1. GateInv /\ StreamInv /\ PlaceInv
  BY DEF GateInv, Cleared, StreamInv, Shaped, PlaceInv
<1>2. SettledInv
  BY DEF SettledInv, NoTrafficLost
<1>3. Reported = <<>>
  BY DEF Reported
<1>4. RecordInv
  BY <1>3 DEF RecordInv, TapsInOrder
<1>5. CountInv
  BY DEF CountInv
<1>6. OverInv
  BY <1>3 DEF OverInv, OversizedReportedOnce, FirstSegments
<1>7. QED
  BY <1>1, <1>2, <1>4, <1>5, <1>6

\* When the database holds a frame, or an event about it, the frame's wire action
\* is over; and it holds each direction's frames in wire order, each once.
THEOREM RecordFollowsWire == Spec => []TapsFollowWire
<1>1. TypeInv /\ RecordInv => TapsFollowWire
  <2> SUFFICES ASSUME TypeInv, RecordInv, NEW r, Told(r)
               PROVE  /\ r.d = "s2c" /\ r.m = "tap" /\ Faults = {} => Written("nl", r.i)
                      /\ r.d = "c2s" /\ r.m \in {"tap", "sec"} /\ Faults = {} /\ ~Blocked(sent[r.i])
                           => ForwardedWhole(r.i)
                      /\ r.d = "c2s" /\ r.m \in {"tap", "sec"} /\ Blocked(sent[r.i]) /\ sent[r.i].id
                           => Written("resp", r.i) \/ ~clientReads
    BY DEF TapsFollowWire, WireBeforeTap, RecordInv, Placed
  <2>1. QED
    BY DEF Told, C2sFate, S2cFate, Answered, Refused, Crossed, Excused, MustNotForward, Blocked
<1>2. QED
  BY <1>1, InitRecording, NextGateInv, NextPlaceInv, NextSettledInv, NextRecordInv, AlwaysTypeInv,
     PTL DEF Spec

\* Whatever the two sides send and however full the channel is: a chunk missing on
\* a side was refused or has its fault on record, a frame missing in the database
\* was announced, and an oversized frame that was dropped is exactly one event.
THEOREM NothingLostInSilence == Spec => []NothingSilentlyLost
<1>1. TypeInv /\ SettledInv /\ CountInv /\ OverInv => NothingSilentlyLost
  <2> SUFFICES ASSUME TypeInv, CountInv PROVE GapsAreLogged
    BY DEF NothingSilentlyLost, SettledInv, OverInv
  <2>1. /\ rd["c2s"] \in Nat /\ rd["s2c"] \in Nat
        /\ DOMAIN sent = 1 .. Len(sent) /\ DOMAIN emitted = 1 .. Len(emitted)
    BY DEF TypeInv, TypeOK, PumpsOK, PartiesOK
  <2>2. ASSUME NEW i \in DOMAIN sent, Finished("c2s", i), sent[i].t = "frame", ~logged["c2s"]
        PROVE  /\ Recording => Cardinality(Reports(Msg("tap", "c2s", i))) = 1
               /\ Cardinality(Reports(Msg("sec", "c2s", i))) = sent[i].hits
    <3>1. i \in 1 .. rd["c2s"] /\ Owed(i) = 0 /\ (i = rd["c2s"] => pc["c2s"] = "read")
      BY <2>1, <2>2 DEF Finished, Owed
    <3>2. /\ Recording => Cardinality(Reports(Msg("tap", "c2s", i))) = 1
          /\ Cardinality(Reports(Msg("sec", "c2s", i))) + Owed(i) = sent[i].hits
      BY <2>2, <3>1 DEF CountInv
    <3>3. Cardinality(Reports(Msg("sec", "c2s", i))) \in Nat
      BY CountsMove DEF Count
    <3>4. QED
      BY <3>1, <3>2, <3>3
  <2>3. ASSUME NEW i \in DOMAIN emitted, Finished("s2c", i), emitted[i].t = "frame",
               ~logged["s2c"], Recording
        PROVE  Cardinality(Reports(Msg("tap", "s2c", i))) = 1
    <3>1. i \in 1 .. rd["s2c"] /\ (i = rd["s2c"] => pc["s2c"] = "read")
      BY <2>1, <2>3 DEF Finished
    <3>2. QED
      BY <2>3, <3>1 DEF CountInv
  <2>4. QED
    BY <2>2, <2>3 DEF GapsAreLogged
<1>2. QED
  BY <1>1, InitRecording, NextGateInv, NextStreamInv, NextPlaceInv, NextSettledInv, NextRecordInv,
     NextCountInv, NextOverInv, AlwaysTypeInv, PTL DEF Spec

-----------------------------------------------------------------------------
(* The teardown.                                                           *)

\* A pump that has ended takes no further step.
LEMMA DoneStays ==
  ASSUME TypeInv, [Next]_vars
  PROVE  /\ pc["c2s"] = "done" => ~PumpC2s /\ ~C2sCancel /\ pc'["c2s"] = "done"
         /\ pc["s2c"] = "done" => ~PumpS2c /\ pc'["s2c"] = "done"
<1>1. pc["c2s"] = "done" => ~PumpC2s /\ ~C2sCancel
  BY DEF PumpC2s, C2sDecide, C2sDropRaw, C2sForwardRaw, C2sWake, C2sForward, C2sLock, C2sRespond,
     C2sInject, C2sTap, C2sEvent, C2sEof, C2sCancel, CanRead
<1>2. pc["s2c"] = "done" => ~PumpS2c
  BY DEF PumpS2c, S2cRead, S2cWake, S2cLock, S2cWrite, S2cNewline, S2cInject, S2cTap, S2cEof,
     CanRead
<1>3. QED
  BY <1>1, <1>2, C2sRests, S2cRests

\* run_wrap waits for each pump and for the storage thread before it goes on, and
\* pump_s2c ends only with the server's output written or nobody to read it.
LEMMA NextExitInv ==
  TypeInv /\ StreamInv /\ PlaceInv /\ SettledInv /\ ExitInv /\ [Next]_vars => ExitInv'
<1> SUFFICES ASSUME TypeInv, StreamInv, PlaceInv, SettledInv, ExitInv, [Next]_vars PROVE ExitInv'
  OBVIOUS
<1>1. /\ pc \in [Pumps -> C2sPcs \cup S2cPcs] /\ rd \in [Pumps -> Nat]
      /\ rd["s2c"] \in Nat /\ rd["s2c"] <= Len(emitted) /\ Len(emitted) \in Nat
      /\ DOMAIN emitted = 1 .. Len(emitted)
      /\ child \in {"up", "exited"} /\ child' \in {"up", "exited"}
      /\ clientReads \in BOOLEAN
  BY NextTypeInv DEF TypeInv, TypeOK, PumpsOK, CursorsOK, PartiesOK
\* The order of run_wrap's steps.
<1>2. /\ main' \in {"join", "flush", "exit"} => pc'["s2c"] = "done"
      /\ main' \in {"flush", "exit"} => pc'["c2s"] = "done"
      /\ main' = "exit" => storage' = "ended"
  <2>1. CASE Main
    BY <2>1, DoneStays DEF ExitInv, Main, MainReap, MainAbort, C2sCancel, MainJoin, MainExit,
       MainStep,
       storeVars, outerVars, pumpVars
  <2>2. CASE Storage
    BY <2>2, DoneStays DEF ExitInv, Storage, StorageRecv, StorageEnd
  <2>3. CASE UNCHANGED <<main, storage>>
    BY <2>3, DoneStays DEF ExitInv
  <2>4. ~Main /\ ~Storage => UNCHANGED <<main, storage>>
    BY PumpFrame DEF Next, Environment, ClientSend, ClientClose, ClientStopsReading, ServerSend,
       ServerClosesStdin, ServerExit, outerVars, storeVars, vars
  <2>5. QED
    BY <2>1, <2>2, <2>3, <2>4
<1>3. storage' = "ended" => chan' = <<>> /\ \A p \in Pumps : pc'[p] = "done"
  <2>1. CASE StorageEnd
    BY <2>1, DoneStays DEF StorageEnd, tapVars
  <2>2. ASSUME ~StorageEnd, storage' = "ended" PROVE chan' = <<>> /\ \A p \in Pumps : pc'[p] = "done"
    <3>1. storage = "ended"
      BY <2>2, PumpFrame DEF Next, Environment, ClientSend, ClientClose, ClientStopsReading,
         ServerSend,
         ServerClosesStdin, ServerExit, outerVars, storeVars, vars, Main, MainReap, MainAbort, C2sCancel,
         MainJoin, MainExit, Storage, StorageRecv
    <3>2. chan = <<>> /\ \A p \in Pumps : pc[p] = "done"
      BY <3>1 DEF ExitInv
    <3>3. ~PumpC2s /\ ~C2sCancel /\ ~PumpS2c /\ \A p \in Pumps : pc'[p] = "done"
      BY <3>2, DoneStays
    <3>4. chan' = chan
      BY <2>2, <3>2, <3>3 DEF Next, Environment, ClientSend, ClientClose, ClientStopsReading,
         ServerSend,
         ServerClosesStdin, ServerExit, tapVars, vars, Main, MainReap, MainAbort,
         MainJoin, MainExit, Storage, StorageRecv
    <3>5. QED
      BY <3>2, <3>3, <3>4
  <2>3. QED
    BY <2>1, <2>2
\* When pump_s2c ends with the client still there, the server has exited and its
\* last chunk has been written.
<1>4. ASSUME pc'["s2c"] = "done", clientReads', Faults = {}
      PROVE  child' = "exited" /\ \A i \in DOMAIN emitted' : Crossed(i)'
  <2>1. clientReads
    BY <1>4, Lasting
  <2>2. ASSUME NEW i \in DOMAIN emitted, S2cSettled(i) PROVE Crossed(i)
    BY <1>4, <2>2 DEF SettledInv, NoTrafficLost, Excused, Crossed
  <2>3. CASE pc["s2c"] = "done"
    <3>1. child = "exited" /\ \A i \in DOMAIN emitted : Crossed(i)
      BY <1>4, <2>1, <2>3 DEF ExitInv
    <3>2. UNCHANGED emitted /\ child' = "exited"
      BY <1>1, <3>1, StreamsStep DEF EmittedStep
    <3>3. QED
      BY <3>1, <3>2, Lasting DEF Crossed
  <2>4. CASE S2cEof
    <3>1. /\ child' = "exited" /\ UNCHANGED <<emitted, stdout>>
          /\ pc["s2c"] = "read" /\ rd["s2c"] = Len(emitted)
      BY <2>4 DEF S2cEof, S2cAtEnd, outerVars, serverVars, wireVars
    <3>2. \A i \in DOMAIN emitted : S2cSettled(i)
      BY <1>1, <3>1 DEF S2cSettled
    <3>3. QED
      BY <2>2, <3>1, <3>2 DEF Crossed, Written
  <2>5. CASE S2cWrite
    <3>1. UNCHANGED <<emitted, child>> /\ clientReads /\ Part = "rem" /\ pc["s2c"] = "write"
      <4>1. Part \in {"body", "cut", "err", "raw", "end", "rem"}
        BY <2>5, PartType DEF S2cWrite
      <4>2. QED
        BY <1>1, <1>4, <2>1, <2>5, <4>1 DEF S2cWrite, Goto, outerVars, serverVars
    <3>2. rd["s2c"] \in DOMAIN emitted
      BY <1>1, <3>1 DEF TypeInv, BusyInv
    <3>3. emitted[rd["s2c"]].t = "rem"
      <4>1. CurS2c.t \in {"frame", "raw", "end", "rem"}
        BY <3>2, ChunkShapes DEF CurS2c
      <4>2. CASE CurS2c.t = "frame"
        BY <3>1, <4>2 DEF Part
      <4>3. CASE CurS2c.t # "frame"
        BY <3>1, <4>3 DEF Part, CurS2c, PlaceInv
      <4>4. QED
        BY <4>2, <4>3
    <3>4. child' = "exited" /\ rd["s2c"] = Len(emitted)
      BY <1>1, <3>1, <3>2, <3>3 DEF StreamInv, Shaped
    <3>5. ASSUME NEW i \in DOMAIN emitted PROVE Crossed(i)'
      <4>1. CASE i < rd["s2c"]
        <5>1. Crossed(i)
          BY <2>2, <4>1 DEF S2cSettled
        <5>2. QED
          BY <3>1, <5>1, Lasting DEF Crossed
      <4>2. CASE i = rd["s2c"]
        <5>1. /\ stdout \in Seq(StdoutParts) /\ [p |-> "rem", i |-> i] \in StdoutParts
              /\ stdout' = Append(stdout, [p |-> "rem", i |-> i])
          BY <1>1, <2>5, <3>1, <4>2 DEF S2cWrite, TypeInv, TypeOK, WireOK, StdoutParts
        <5>2. Len(stdout') \in DOMAIN stdout' /\ stdout'[Len(stdout')] = [p |-> "rem", i |-> i]
          BY <5>1
        <5>3. QED
          BY <3>1, <3>3, <4>2, <5>2 DEF Crossed, Written
      <4>3. QED
        BY <1>1, <3>4, <4>1, <4>2
    <3>6. QED
      BY <3>1, <3>4, <3>5
  <2>6. PumpS2c /\ pc["s2c"] # "done" => S2cEof \/ S2cWrite
    BY <1>1, <1>4, <2>1, StdioWrapAssumption DEF PumpS2c, S2cRead, S2cWake, S2cLock, S2cNewline,
       S2cInject,
       S2cTap, Goto, AfterWire
  <2>7. QED
    BY <1>4, <2>3, <2>4, <2>5, <2>6, S2cRests
<1>5. QED
  BY <1>2, <1>3, <1>4 DEF ExitInv

\* run_wrap returns with the channel drained, stdout unlocked and, unless the
\* client went away, the server's whole output written.
THEOREM ExitAlwaysClean == Spec => []ExitIsClean
<1>1. Init => AtomicInv /\ ExitInv
  BY DEF Init, AtomicInv, FramesAtomic, LockInv, LastIsBody, ExitInv
<1>2. TypeInv /\ AtomicInv /\ ExitInv => ExitIsClean
  <2> SUFFICES ASSUME TypeInv, LockInv, ExitInv, main = "exit" PROVE ExitIsClean
    BY DEF AtomicInv, ExitIsClean
  <2>1. chan = <<>> /\ pc["c2s"] = "done" /\ pc["s2c"] = "done"
    BY DEF ExitInv
  <2>2. lock = "free"
    BY <2>1 DEF LockInv, TypeInv, TypeOK, WireOK
  <2>3. QED
    BY <2>1, <2>2 DEF ExitInv, ExitIsClean, Crossed
<1>3. QED
  BY <1>1, <1>2, InitRecording, NextAtomicInv, NextGateInv, NextStreamInv, NextPlaceInv,
     NextSettledInv,
     NextExitInv, AlwaysTypeInv, PTL DEF Spec

-----------------------------------------------------------------------------
(***************************************************************************)
(* The refinement that WrapRefinement states, step by step: without fault  *)
(* injection and with server lines that fit under the frame cap, every     *)
(* step of the pumps is a step of the abstract wire or leaves it alone.    *)
(***************************************************************************)

\* The abstract wire's variables, as functions of the pumps' state.
Got   == [k \in DOMAIN toServer |-> toServer[k].i]
Shown == [n \in 1 .. Cardinality(LineEnds) |-> LineAt(LineEnd(n))]
Open  == {p \in Pumps : pc[p] # "done"}

WireStep == Wire!Next \/ UNCHANGED Wire!vars

\* A request waits for the lock, or holds it, only to be answered.
AddressedInv == pc["c2s"] \in {"lock", "resp"} => CurC2s.id

-----------------------------------------------------------------------------
(* What the client has been shown.                                         *)

LEMMA EndsAreFinite ==
  ASSUME TypeInv
  PROVE  /\ LineEnds \subseteq 1 .. Len(stdout) /\ IsFiniteSet(LineEnds)
         /\ Cardinality(LineEnds) \in Nat
<1>1. LineEnds \subseteq 1 .. Len(stdout) /\ Len(stdout) \in Nat
  BY DEF LineEnds, TypeInv, TypeOK, WireOK
<1>2. IsFiniteSet(1 .. Len(stdout))
  BY <1>1, FS_Interval
<1>3. QED
  BY <1>1, <1>2, FS_Subset, FS_CardinalityType

\* Each line the client was shown has an end on stdout.
RankInv == \A n \in 1 .. Cardinality(LineEnds) : \E k \in LineEnds : EndsUpTo(k) = n

LEMMA RanksKept ==
  ASSUME TypeInv, RankInv
  PROVE  \A n \in 1 .. Cardinality(LineEnds) : LineEnd(n) \in LineEnds
BY DEF RankInv, LineEnd

LEMMA ShownKept == UNCHANGED stdout => Shown' = Shown /\ (RankInv => RankInv')
<1>1. UNCHANGED stdout => Shown' = Shown
  BY DEF Shown, LineEnds, LineEnd, EndsUpTo, LineAt
<1>2. UNCHANGED stdout => (RankInv => RankInv')
  <2> SUFFICES ASSUME UNCHANGED stdout, RankInv PROVE RankInv'
    OBVIOUS
  <2>1. LineEnds' = LineEnds
    BY DEF LineEnds
  <2>2. QED
    BY <2>1 DEF RankInv, EndsUpTo
<1>3. QED
  BY <1>1, <1>2

\* What one more write does to the ends of lines.
LEMMA EndsGrow ==
  ASSUME TypeInv, NEW e \in StdoutParts, stdout' = Append(stdout, e),
         NEW m, m = Len(stdout) + 1
  PROVE  /\ LineEnds' = IF e.p \in {"nl", "resp", "rem"} THEN LineEnds \cup {m} ELSE LineEnds
         /\ m \in Nat /\ m \notin LineEnds /\ stdout'[m] = e
         /\ \A k \in 1 .. Len(stdout) : stdout'[k] = stdout[k] /\ k < m
         /\ \A k \in LineEnds : LineAt(k)' = LineAt(k) /\ EndsUpTo(k)' = EndsUpTo(k)
<1>1. stdout \in Seq(StdoutParts) /\ Len(stdout) \in Nat
  BY DEF TypeInv, TypeOK, WireOK, StdoutParts
<1>2. /\ Len(stdout') = m
      /\ \A k \in 1 .. Len(stdout) : stdout'[k] = stdout[k] /\ k < m
      /\ stdout'[m] = e
  BY <1>1
<1>3. DOMAIN stdout = 1 .. Len(stdout) /\ DOMAIN stdout' = 1 .. m
  BY <1>1, <1>2
<1>4. LineEnds' = IF e.p \in {"nl", "resp", "rem"} THEN LineEnds \cup {m} ELSE LineEnds
  BY <1>1, <1>2, <1>3 DEF LineEnds
<1>5. \A k \in LineEnds : LineAt(k)' = LineAt(k)
  <2> SUFFICES ASSUME NEW k \in LineEnds PROVE LineAt(k)' = LineAt(k)
    OBVIOUS
  <2>1. k \in 1 .. Len(stdout) /\ (k > 1 => k - 1 \in 1 .. Len(stdout))
    BY <1>1, <1>3 DEF LineEnds
  <2>2. stdout'[k] = stdout[k] /\ (k > 1 => stdout'[k - 1] = stdout[k - 1])
    BY <1>2, <2>1
  <2>3. QED
    BY <2>2 DEF LineAt
<1>6. \A k \in LineEnds : EndsUpTo(k)' = EndsUpTo(k)
  <2> SUFFICES ASSUME NEW k \in LineEnds PROVE EndsUpTo(k)' = EndsUpTo(k)
    OBVIOUS
  <2>1. k < m /\ k \in Nat /\ m \in Nat
    BY <1>1, <1>3 DEF LineEnds
  <2>2. {j \in LineEnds' : j <= k} = {j \in LineEnds : j <= k}
    BY <1>4, <2>1
  <2>3. QED
    BY <2>2 DEF EndsUpTo
<1>7. m \in Nat /\ m \notin LineEnds
  BY <1>1, <1>3 DEF LineEnds
<1>8. QED
  BY <1>2, <1>4, <1>5, <1>6, <1>7

\* A write that does not end a line shows nothing.
LEMMA ShownUnfinished ==
  ASSUME TypeInv, RankInv, NEW e \in StdoutParts, stdout' = Append(stdout, e),
         e.p \notin {"nl", "resp", "rem"}
  PROVE  Shown' = Shown /\ RankInv'
<1>1. /\ LineEnds' = LineEnds
      /\ \A k \in LineEnds : LineAt(k)' = LineAt(k) /\ EndsUpTo(k)' = EndsUpTo(k)
  BY EndsGrow
<1>2. \A n : LineEnd(n)' = LineEnd(n)
  BY <1>1 DEF LineEnd
<1>3. \A n \in 1 .. Cardinality(LineEnds) : LineAt(LineEnd(n))' = LineAt(LineEnd(n))
  <2> TAKE n \in 1 .. Cardinality(LineEnds)
  <2>1. PICK k : k = LineEnd(n)
    OBVIOUS
  <2>2. k \in LineEnds /\ LineAt(k)' = LineAt(k)
    BY <1>1, <2>1, RanksKept
  <2>3. QED
    BY <1>2, <2>1, <2>2
<1>4. QED
  BY <1>1, <1>3 DEF Shown, RankInv

\* A write that ends a line shows that line, after all the others.
LEMMA ShownFinished ==
  ASSUME TypeInv, RankInv, NEW e \in StdoutParts, stdout' = Append(stdout, e),
         e.p \in {"nl", "resp", "rem"}, NEW m, m = Len(stdout) + 1
  PROVE  Shown' = Append(Shown, LineAt(m)') /\ RankInv'
<1>0. PICK N : N = Cardinality(LineEnds)
  OBVIOUS
<1>1. /\ LineEnds' = LineEnds \cup {m}
      /\ m \in Nat /\ m \notin LineEnds
      /\ \A k \in 1 .. Len(stdout) : k < m
      /\ \A k \in LineEnds : LineAt(k)' = LineAt(k) /\ EndsUpTo(k)' = EndsUpTo(k)
  BY EndsGrow
<1>2. /\ LineEnds \subseteq 1 .. Len(stdout) /\ IsFiniteSet(LineEnds) /\ N \in Nat
      /\ Len(stdout) \in Nat
  BY <1>0, EndsAreFinite DEF TypeInv, TypeOK, WireOK
<1>3. IsFiniteSet(LineEnds') /\ Cardinality(LineEnds') = N + 1
  BY <1>0, <1>1, <1>2, FS_AddElement
<1>4. EndsUpTo(m)' = N + 1
  <2>1. \A j \in LineEnds' : j <= m
    BY <1>1, <1>2
  <2>2. {j \in LineEnds' : j <= m} = LineEnds'
    BY <2>1
  <2>3. QED
    BY <1>3, <2>2 DEF EndsUpTo
<1>5. \A k \in LineEnds : EndsUpTo(k) \in Nat /\ EndsUpTo(k) <= N
  <2> TAKE k \in LineEnds
  <2>1. {j \in LineEnds : j <= k} \subseteq LineEnds
    OBVIOUS
  <2>2. QED
    BY <1>2, <2>1, FS_Subset, <1>0, FS_CardinalityType DEF EndsUpTo
<1>6. \A n \in 1 .. N : LineEnd(n)' = LineEnd(n) /\ LineEnd(n) \in LineEnds
  <2> TAKE n \in 1 .. N
  <2>1. n # N + 1
    BY <1>2
  <2>2. \A k : (k \in LineEnds' /\ EndsUpTo(k)' = n) <=> (k \in LineEnds /\ EndsUpTo(k) = n)
    BY <1>1, <1>4, <2>1
  <2>3. LineEnd(n)' = LineEnd(n)
    BY <2>2 DEF LineEnd
  <2>4. QED
    BY <2>3, <1>0, RanksKept
<1>7. LineEnd(N + 1)' = m
  <2> \A k \in LineEnds : EndsUpTo(k)' # N + 1
    BY <1>1, <1>2, <1>5
  <2>1. \A k : (k \in LineEnds' /\ EndsUpTo(k)' = N + 1) <=> k = m
    BY <1>1, <1>4
  <2>2. QED
    BY <2>1 DEF LineEnd
<1>8. \A n \in 1 .. N : LineAt(LineEnd(n))' = LineAt(LineEnd(n))
  <2> TAKE n \in 1 .. N
  <2>1. PICK k : k = LineEnd(n)
    OBVIOUS
  <2>2. k \in LineEnds /\ LineAt(k)' = LineAt(k)
    BY <1>1, <1>6, <2>1
  <2>3. QED
    BY <1>6, <2>1, <2>2
<1>9. LineAt(LineEnd(N + 1))' = LineAt(m)'
  BY <1>7
<1>10. Shown' = Append(Shown, LineAt(m)')
  <2> DEFINE F == [n \in 1 .. (N + 1) |-> LineAt(LineEnd(n))']
  <2>1. Shown' = F
    BY <1>3 DEF Shown
  <2>2. Shown = [n \in 1 .. N |-> LineAt(LineEnd(n))]
    BY <1>0 DEF Shown
  <2>3. F = Append(Shown, LineAt(m)')
    BY <1>2, <1>8, <1>9, <2>2
  <2>4. QED
    BY <2>1, <2>3
<1>11. RankInv'
  <2> SUFFICES ASSUME NEW n \in 1 .. (N + 1)
               PROVE  \E k \in LineEnds' : EndsUpTo(k)' = n
    BY <1>3 DEF RankInv
  <2>1. CASE n = N + 1
    BY <1>1, <1>4, <2>1
  <2>2. CASE n # N + 1
    <3>1. n \in 1 .. N
      BY <1>2, <2>2
    <3>2. PICK k \in LineEnds : EndsUpTo(k) = n
      BY <1>0, <3>1 DEF RankInv
    <3>3. QED
      BY <1>1, <3>2
  <2>3. QED
    BY <2>1, <2>2
<1>12. QED
  BY <1>10, <1>11

-----------------------------------------------------------------------------
(* Requests that are answered can be.                                      *)

LEMMA NextAddressed == TypeInv /\ AddressedInv /\ [Next]_vars => AddressedInv'
<1> SUFFICES ASSUME TypeInv, AddressedInv, [Next]_vars PROVE AddressedInv'
  OBVIOUS
<1>1. /\ rd \in [Pumps -> Nat] /\ pc \in [Pumps -> C2sPcs \cup S2cPcs]
      /\ pc["c2s"] \notin {"read", "done"} => rd["c2s"] \in 1 .. Len(sent)
      /\ SentGrows
  BY StreamGrows DEF TypeInv, TypeOK, PumpsOK, PartiesOK, CursorsOK, BusyInv
<1>2. CASE C2sDecide
  <2>1. sent' = sent /\ rd'["c2s"] = rd["c2s"] + 1
    BY <1>1, <1>2 DEF C2sDecide, Take, outerVars, clientVars
  <2>2. pc'["c2s"] \in {"lock", "resp"} => NextC2s.id
    BY <1>1, <1>2, StdioWrapAssumption DEF C2sDecide, Goto
  <2>3. QED
    BY <2>1, <2>2 DEF AddressedInv, CurC2s, NextC2s
<1>3. CASE ~C2sDecide
  <2>1. /\ pc'["c2s"] \in {"lock", "resp"} => pc["c2s"] \in {"lock", "resp"} /\ rd'["c2s"] = rd["c2s"]
    <3>1. CASE Environment
      BY <1>1, <3>1 DEF Environment, ClientSend, ClientClose, ClientStopsReading, ServerSend,
         ServerClosesStdin, ServerExit, pumpVars
    <3>2. CASE PumpC2s
      BY <1>1, <1>3, <3>2 DEF PumpC2s, C2sDropRaw, C2sForwardRaw, C2sWake, C2sForward, C2sLock,
         C2sRespond, C2sInject, C2sTap, C2sEvent, C2sEof, AfterForward, AfterWire, Goto, CanRead
    <3>3. CASE PumpS2c
      BY <1>1, <3>3 DEF PumpS2c, S2cRead, S2cWake, S2cLock, S2cWrite, S2cNewline, S2cInject,
         S2cTap, S2cEof, Goto, Take
    <3>4. CASE Main
      BY <1>1, <3>4 DEF Main, MainReap, MainAbort, C2sCancel, MainJoin, MainExit, Goto, pumpVars
    <3>5. CASE Storage
      BY <3>5 DEF Storage, StorageRecv, StorageEnd, pumpVars
    <3>6. CASE UNCHANGED vars
      BY <3>6 DEF vars, pumpVars
    <3>7. QED
      BY <3>1, <3>2, <3>3, <3>4, <3>5, <3>6 DEF Next
  <2>2. QED
    BY <1>1, <2>1 DEF AddressedInv, CurC2s, SentGrows
<1>4. QED
  BY <1>2, <1>3

-----------------------------------------------------------------------------
(* The steps.                                                              *)

\* Where the cursors of the abstract wire stand.
LEMMA DealtType ==
  ASSUME TypeInv
  PROVE  /\ \A p \in Pumps : Dealt(p) \in Nat /\ (Busy(p) => Dealt(p) = rd[p] - 1)
         /\ Dealt("c2s") <= Len(sent) /\ Dealt("s2c") <= Len(emitted)
         /\ \A p \in Pumps : Busy(p) => pc[p] # "done"
         /\ Busy("c2s") => rd["c2s"] \in 1 .. Len(sent)
         /\ Busy("s2c") => rd["s2c"] \in 1 .. Len(emitted)
BY DEF TypeInv, TypeOK, PumpsOK, PartiesOK, CursorsOK, BusyInv, Dealt, Busy

\* A step that moves nothing the wire shows.
LEMMA Mute ==
  ASSUME RankInv, UNCHANGED <<sent, emitted, toServer, stdout>>,
         \A p \in Pumps : Dealt(p)' = Dealt(p) /\ (pc'[p] = "done" <=> pc[p] = "done")
  PROVE  WireStep /\ RankInv'
<1>1. Shown' = Shown /\ RankInv'
  BY ShownKept
<1>2. Got' = Got /\ Open' = Open
  BY DEF Got, Open
<1>3. QED
  BY <1>1, <1>2 DEF WireStep, Wire!vars, Got, Shown, Open

LEMMA EnvironmentRefines == TypeInv /\ RankInv /\ Environment => WireStep /\ RankInv'
<1> SUFFICES ASSUME TypeInv, RankInv, Environment PROVE WireStep /\ RankInv'
  OBVIOUS
<1>1. UNCHANGED <<toServer, stdout, pc, rd>>
  BY DEF Environment, ClientSend, ClientClose, ClientStopsReading, ServerSend,
     ServerClosesStdin, ServerExit, wireVars, pumpVars
<1>2. /\ UNCHANGED emitted
      /\ sent' = sent \/ \E c \in ClientChunks \cup {Rem} : sent' = Append(sent, c)
      \/ /\ UNCHANGED sent
         /\ emitted' = emitted \/ \E c \in ServerChunks \cup {Rem} : emitted' = Append(emitted, c)
  BY DEF Environment, ClientSend, ClientClose, ClientStopsReading, ServerSend,
     ServerClosesStdin, ServerExit, clientVars, serverVars
<1>3. /\ Got' = Got /\ Open' = Open /\ Shown' = Shown /\ RankInv'
      /\ \A p \in Pumps : Dealt(p)' = Dealt(p)
  BY <1>1, ShownKept DEF Got, Open, Dealt, Busy
<1>4. QED
  BY <1>2, <1>3 DEF WireStep, Wire!vars, Wire!Next, Wire!ClientWrites, Wire!ServerWrites, Got,
     Shown, Open

\* What keeps the server's side of the picture still, and the client's.
LEMMA OtherSide ==
  ASSUME TypeInv
  PROVE  /\ PumpC2s => /\ UNCHANGED <<sent, emitted>> /\ Dealt("s2c")' = Dealt("s2c")
                       /\ pc'["s2c"] = pc["s2c"]
         /\ PumpS2c => /\ UNCHANGED <<sent, emitted, toServer>> /\ Dealt("c2s")' = Dealt("c2s")
                       /\ pc'["c2s"] = pc["c2s"]
<1>1. rd \in [Pumps -> Nat] /\ pc \in [Pumps -> C2sPcs \cup S2cPcs]
  BY DEF TypeInv, TypeOK, PumpsOK
<1>2. PumpC2s => pc'["s2c"] = pc["s2c"] /\ rd'["s2c"] = rd["s2c"]
  BY <1>1 DEF PumpC2s, C2sDecide, C2sDropRaw, C2sForwardRaw, C2sWake, C2sForward, C2sLock,
     C2sRespond, C2sInject, C2sTap, C2sEvent, C2sEof, Goto, Take
<1>3. PumpS2c => pc'["c2s"] = pc["c2s"] /\ rd'["c2s"] = rd["c2s"] /\ UNCHANGED toServer
  BY <1>1 DEF PumpS2c, S2cRead, S2cWake, S2cLock, S2cWrite, S2cNewline, S2cInject, S2cTap,
     S2cEof, Goto, Take, wireVars
<1>4. PumpC2s \/ PumpS2c => UNCHANGED <<sent, emitted>>
  BY PumpFrame DEF outerVars, clientVars, serverVars
<1>5. QED
  BY <1>2, <1>3, <1>4 DEF Dealt, Busy

\* The abstract wire's view of one more write to the server.
LEMMA GotGrows ==
  ASSUME TypeInv, NEW i \in Nat, toServer' = Append(toServer, [i |-> i, whole |-> TRUE])
  PROVE  Got' = Append(Got, i)
<1>1. toServer \in Seq([i : Nat, whole : BOOLEAN])
  BY DEF TypeInv, TypeOK, WireOK
<1> DEFINE e == [i |-> i, whole |-> TRUE]
<1>2. e \in [i : Nat, whole : BOOLEAN] /\ e.i = i
  OBVIOUS
<1>3. /\ Len(toServer) \in Nat /\ Len(toServer') = Len(toServer) + 1
      /\ DOMAIN toServer' = 1 .. (Len(toServer) + 1)
      /\ \A k \in 1 .. Len(toServer) : toServer'[k] = toServer[k]
      /\ toServer'[Len(toServer) + 1].i = i
  BY <1>1, <1>2
<1>4. DOMAIN toServer = 1 .. Len(toServer)
  BY <1>1
<1>5. QED
  BY <1>3, <1>4 DEF Got

\* Without faults every frame the gate clears is written whole.
LEMMA C2sRefines ==
  ASSUME TypeInv, GateInv, PlaceInv, AddressedInv, RankInv, Faults = {}, PumpC2s
  PROVE  WireStep /\ RankInv'
<1>1. /\ rd \in [Pumps -> Nat] /\ pc \in [Pumps -> C2sPcs \cup S2cPcs] /\ pc["c2s"] \in C2sPcs
      /\ fault = [p \in Pumps |-> "none"]
      /\ sent \in Seq(ClientChunks \cup {Rem})
  BY DEF TypeInv, TypeOK, PumpsOK, PartiesOK
<1>2. /\ UNCHANGED <<sent, emitted>> /\ Dealt("s2c")' = Dealt("s2c") /\ pc'["s2c"] = pc["s2c"]
  BY OtherSide
<1> USE DEF WireStep, Wire!vars, Wire!Next
<1>3. CASE UNCHANGED <<toServer, stdout>> /\ Dealt("c2s")' = Dealt("c2s")
           /\ (pc'["c2s"] = "done" <=> pc["c2s"] = "done")
  BY <1>2, <1>3, Mute
<1>4. ASSUME UNCHANGED <<toServer, stdout>>, pc["c2s"] # "done", pc'["c2s"] # "done",
             Dealt("c2s") < Len(sent), Dealt("c2s")' = Dealt("c2s") + 1,
             RefusedLine(sent[Dealt("c2s") + 1])
      PROVE  WireStep /\ RankInv'
  <2>1. Got' = Got /\ Open' = Open /\ Shown' = Shown /\ RankInv' /\ "c2s" \in Open
    BY <1>2, <1>4, ShownKept DEF Got, Open
  <2>2. Wire!Refuse
    BY <1>2, <1>4, <2>1 DEF Wire!Refuse, Wire!Judge, Got, Open, Shown
  <2>3. QED
    BY <2>1, <2>2
<1>5. ASSUME NEW i \in Nat, i = Dealt("c2s") + 1, UNCHANGED stdout,
             toServer' = Append(toServer, [i |-> i, whole |-> TRUE]),
             pc["c2s"] # "done", i <= Len(sent), Dealt("c2s")' = i, ~RefusedLine(sent[i])
      PROVE  WireStep /\ RankInv'
  <2>1. Got' = Append(Got, i) /\ Shown' = Shown /\ RankInv' /\ "c2s" \in Open
    BY <1>5, GotGrows, ShownKept DEF Open
  <2>2. Dealt("c2s") < Len(sent)
    BY <1>1, <1>5, DealtType
  <2>3. CASE pc'["c2s"] # "done"
    <3>1. Open' = Open
      BY <1>2, <1>5, <2>3 DEF Open
    <3>2. Wire!Forward
      BY <1>2, <1>5, <2>1, <2>2, <3>1 DEF Wire!Forward, Wire!Judge, Got, Open, Shown
    <3>3. QED
      BY <2>1, <3>2
  <2>4. CASE pc'["c2s"] = "done"
    <3>1. Open' = Open \ {"c2s"}
      BY <1>2, <1>5, <2>4 DEF Open
    <3>2. Wire!EndC2s
      BY <1>2, <1>5, <2>1, <2>2, <3>1 DEF Wire!EndC2s, Got, Open, Shown
    <3>3. QED
      BY <2>1, <3>2
  <2>5. QED
    BY <2>3, <2>4
<1>6. ASSUME UNCHANGED <<toServer, stdout>>, pc["c2s"] # "done", pc'["c2s"] = "done",
             \/ Dealt("c2s")' = Dealt("c2s")
             \/ Dealt("c2s") < Len(sent) /\ Dealt("c2s")' = Dealt("c2s") + 1
      PROVE  WireStep /\ RankInv'
  <2>1. Got' = Got /\ Open' = Open \ {"c2s"} /\ Shown' = Shown /\ RankInv' /\ "c2s" \in Open
    BY <1>2, <1>6, ShownKept DEF Got, Open
  <2>2. Wire!EndC2s
    BY <1>2, <1>6, <2>1 DEF Wire!EndC2s, Got, Open, Shown
  <2>3. QED
    BY <2>1, <2>2
<1>7. CASE C2sDecide
  <2>1. /\ pc["c2s"] = "read" /\ rd["c2s"] < Len(sent) /\ rd'["c2s"] = rd["c2s"] + 1
        /\ UNCHANGED <<toServer, stdout>> /\ NextC2s.t = "frame"
    BY <1>1, <1>7 DEF C2sDecide, CanRead, Take, wireVars
  <2>2. IF Blocked(NextC2s)
          THEN pc'["c2s"] = IF NextC2s.id THEN "lock" ELSE "tap"
          ELSE pc'["c2s"] = "forward"
    BY <1>1, <1>7 DEF C2sDecide, Goto
  <2>3. Dealt("c2s") = rd["c2s"]
    BY <2>1 DEF Dealt, Busy
  <2>4. CASE pc'["c2s"] \in {"lock", "forward"}
    <3>1. Dealt("c2s")' = Dealt("c2s")
      BY <1>1, <2>1, <2>3, <2>4 DEF Dealt, Busy
    <3>2. QED
      BY <1>3, <2>1, <2>4, <3>1
  <2>5. CASE pc'["c2s"] = "tap"
    <3>1. Dealt("c2s")' = Dealt("c2s") + 1
      BY <2>1, <2>3, <2>5 DEF Dealt, Busy
    <3>2. RefusedLine(sent[Dealt("c2s") + 1])
      BY <2>2, <2>3, <2>5 DEF RefusedLine, NextC2s
    <3>3. QED
      BY <1>4, <2>1, <2>3, <2>5, <3>1, <3>2
  <2>6. QED
    BY <2>2, <2>4, <2>5
<1>8. CASE C2sDropRaw
  <2>1. /\ pc["c2s"] = "read" /\ rd["c2s"] < Len(sent) /\ rd'["c2s"] = rd["c2s"] + 1
        /\ UNCHANGED <<toServer, stdout, pc>> /\ NextC2s.t \in {"raw", "end"} /\ FailClosed
    BY <1>1, <1>8 DEF C2sDropRaw, CanRead, Take, wireVars
  <2>2. Dealt("c2s") = rd["c2s"] /\ Dealt("c2s")' = Dealt("c2s") + 1
    BY <2>1 DEF Dealt, Busy
  <2>3. QED
    BY <1>4, <2>1, <2>2 DEF RefusedLine, NextC2s
<1>9. CASE C2sForwardRaw
  <2>1. /\ pc["c2s"] = "read" /\ rd["c2s"] < Len(sent) /\ rd'["c2s"] = rd["c2s"] + 1
        /\ UNCHANGED stdout /\ NextC2s.t \in {"raw", "end"} /\ ~FailClosed
    BY <1>1, <1>9 DEF C2sForwardRaw, CanRead, Take
  <2>2. IF stdinOpen
          THEN pc' = pc /\ toServer' = Append(toServer, [i |-> rd["c2s"] + 1, whole |-> TRUE])
          ELSE pc'["c2s"] = "done" /\ UNCHANGED toServer
    BY <1>1, <1>9 DEF C2sForwardRaw, Goto
  <2>3. Dealt("c2s") = rd["c2s"] /\ Dealt("c2s")' = rd["c2s"] + 1
    BY <2>1, <2>2 DEF Dealt, Busy
  <2>4. ~RefusedLine(sent[rd["c2s"] + 1])
    BY <2>1 DEF RefusedLine, NextC2s, FailClosed, Blocked
  <2>5. CASE stdinOpen
    BY <1>1, <1>5, <2>1, <2>2, <2>3, <2>4, <2>5
  <2>6. CASE ~stdinOpen
    BY <1>6, <2>1, <2>2, <2>3, <2>6
  <2>7. QED
    BY <2>5, <2>6
<1>10. CASE C2sForward
  <2>1. /\ pc["c2s"] = "forward" /\ UNCHANGED stdout /\ rd' = rd /\ rd["c2s"] \in 1 .. Len(sent)
        /\ Dealt("c2s") = rd["c2s"] - 1
    BY <1>1, <1>10, DealtType DEF C2sForward, Busy
  <2>2. IF stdinOpen
          THEN /\ pc'["c2s"] = "tap"
               /\ toServer' = Append(toServer, [i |-> rd["c2s"], whole |-> TRUE])
          ELSE pc'["c2s"] = "done" /\ UNCHANGED toServer
    <3>1. toServer \in Seq([i : Nat, whole : BOOLEAN])
      BY DEF TypeInv, TypeOK, WireOK
    <3>2. Delivery = <<[i |-> rd["c2s"], whole |-> TRUE]>> /\ AfterWire("c2s") = "tap"
      BY <1>1 DEF Delivery, AfterWire
    <3>3. [i |-> rd["c2s"], whole |-> TRUE] \in [i : Nat, whole : BOOLEAN]
      BY <1>1
    <3>4. toServer \o Delivery = Append(toServer, [i |-> rd["c2s"], whole |-> TRUE])
      BY <3>1, <3>2, <3>3
    <3>5. QED
      BY <1>1, <1>10, <3>2, <3>4 DEF C2sForward, AfterForward, Goto
  <2>3. Dealt("c2s")' = rd["c2s"] /\ rd["c2s"] = Dealt("c2s") + 1 /\ rd["c2s"] \in Nat
    BY <1>1, <2>1, <2>2 DEF Dealt, Busy
  <2>4. ~RefusedLine(sent[rd["c2s"]])
    BY <2>1 DEF GateInv, PlaceInv, Cleared, MustNotForward, RefusedLine, Blocked, FailClosed, CurC2s
  <2>5. CASE stdinOpen
    BY <1>1, <1>5, <2>1, <2>2, <2>3, <2>4, <2>5
  <2>6. CASE ~stdinOpen
    BY <1>6, <2>1, <2>2, <2>3, <2>6
  <2>7. QED
    BY <2>5, <2>6
<1>11. CASE C2sRespond
  <2>1. /\ pc["c2s"] = "resp" /\ UNCHANGED toServer /\ rd' = rd /\ rd["c2s"] \in 1 .. Len(sent)
        /\ Dealt("c2s") = rd["c2s"] - 1 /\ pc'["c2s"] = "tap"
    BY <1>1, <1>11, DealtType DEF C2sRespond, Busy, AfterWire, Goto
  <2>2. /\ Dealt("c2s")' = rd["c2s"] /\ rd["c2s"] = Dealt("c2s") + 1
        /\ Dealt("c2s") < Len(sent)
    BY <1>1, <2>1 DEF Dealt, Busy
  <2>3. RefusedLine(sent[rd["c2s"]]) /\ AnswerableLine(sent[rd["c2s"]])
    BY <1>1, <2>1 DEF PlaceInv, AddressedInv, RefusedLine, AnswerableLine, CurC2s
  <2>4. CASE ~clientReads
    <3>1. UNCHANGED stdout
      BY <1>11, <2>4 DEF C2sRespond
    <3>2. QED
      BY <1>1, <1>4, <2>1, <2>2, <2>3, <3>1
  <2>5. CASE clientReads
    <3> DEFINE e == [p |-> "resp", i |-> rd["c2s"]]
    <3>1. stdout' = Append(stdout, e) /\ e \in StdoutParts
      BY <1>1, <1>11, <2>5 DEF C2sRespond, StdoutParts
    <3>2. PICK m : m = Len(stdout) + 1
      OBVIOUS
    <3>3. Shown' = Append(Shown, LineAt(m)') /\ RankInv'
      BY <3>1, <3>2, ShownFinished
    <3>4. LineAt(m)' = <<"refusal", rd["c2s"]>>
      <4>1. stdout'[m] = e
        BY <3>1, <3>2, EndsGrow
      <4>2. QED
        BY <4>1 DEF LineAt
    <3>5. Got' = Got /\ Open' = Open /\ "c2s" \in Open
      BY <1>2, <2>1 DEF Got, Open
    <3>6. Wire!Refuse
      BY <1>1, <1>2, <2>1, <2>2, <2>3, <3>3, <3>4, <3>5
         DEF Wire!Refuse, Wire!Judge, Got, Open, Shown
    <3>7. QED
      BY <3>3, <3>6
  <2>6. QED
    BY <2>4, <2>5
<1>12. CASE C2sWake \/ C2sLock \/ C2sInject \/ C2sTap \/ C2sEvent
  <2>1. /\ UNCHANGED <<toServer, stdout, rd>> /\ pc["c2s"] # "done" /\ pc'["c2s"] # "done"
        /\ pc["c2s"] \in {"sleep", "lock"} <=> pc'["c2s"] \in {"forward", "resp"}
        /\ pc["c2s"] \in {"sleep", "lock", "inj", "tap", "ev"}
        /\ pc'["c2s"] \in {"forward", "resp", "tap", "ev", "read"}
    BY <1>1, <1>12 DEF C2sWake, C2sLock, C2sInject, C2sTap, C2sEvent, Goto, wireVars
  <2>2. Dealt("c2s")' = Dealt("c2s")
    BY <2>1 DEF Dealt, Busy
  <2>3. QED
    BY <1>3, <2>1, <2>2
<1>13. CASE C2sEof
  <2>1. pc["c2s"] = "read" /\ pc'["c2s"] = "done" /\ UNCHANGED stdout
    BY <1>1, <1>13 DEF C2sEof, Goto
  <2>2. Dealt("c2s") = rd["c2s"] /\ Dealt("c2s")' = rd'["c2s"]
    BY <2>1 DEF Dealt, Busy
  <2>3. CASE UNCHANGED <<toServer, rd>>
    BY <1>6, <2>1, <2>2, <2>3
  <2>4. CASE rd["c2s"] < Len(sent) /\ NextC2s.t = "rem" /\ Take("c2s") /\ UNCHANGED toServer
    BY <1>1, <1>6, <2>1, <2>2, <2>4 DEF Take
  <2>5. CASE /\ rd["c2s"] < Len(sent) /\ NextC2s.t = "rem" /\ Take("c2s")
             /\ toServer' = Append(toServer, [i |-> rd["c2s"] + 1, whole |-> TRUE])
    <3>1. ~RefusedLine(sent[rd["c2s"] + 1])
      <4>1. rd["c2s"] + 1 \in 1 .. Len(sent)
        BY <1>1, <2>5
      <4>2. sent[rd["c2s"] + 1] \in ClientChunks \cup {Rem}
        BY <1>1, <4>1, ElementOfSeq
      <4>3. NextC2s = Rem
        BY <2>5, <4>2, StdioWrapAssumption DEF NextC2s
      <4>4. QED
        BY <4>3 DEF RefusedLine, Blocked, NextC2s, Rem
    <3>2. QED
      BY <1>1, <1>5, <2>1, <2>2, <2>5, <3>1 DEF Take
  <2>6. QED
    BY <1>13, <2>3, <2>4, <2>5 DEF C2sEof
<1> QED
  BY <1>7, <1>8, <1>9, <1>10, <1>11, <1>12, <1>13 DEF PumpC2s

\* A server's line reaches the client in two writes under one lock, the bytes of an
\* unterminated one in a single write that ends the direction.
LEMMA S2cRefines ==
  ASSUME TypeInv, AtomicInv, PlaceInv, RankInv, Faults = {},
         \A c \in ServerChunks : c.t = "frame", PumpS2c
  PROVE  WireStep /\ RankInv'
<1>1. /\ rd \in [Pumps -> Nat] /\ pc \in [Pumps -> C2sPcs \cup S2cPcs] /\ pc["s2c"] \in S2cPcs
      /\ fault = [p \in Pumps |-> "none"]
      /\ emitted \in Seq(ServerChunks \cup {Rem})
  BY DEF TypeInv, TypeOK, PumpsOK, PartiesOK
<1>2. /\ UNCHANGED <<sent, emitted, toServer>> /\ Dealt("c2s")' = Dealt("c2s")
      /\ pc'["c2s"] = pc["c2s"]
  BY OtherSide
<1>3. Got' = Got
  BY <1>2 DEF Got
<1> USE DEF WireStep, Wire!vars, Wire!Next
<1>4. CASE UNCHANGED stdout /\ Dealt("s2c")' = Dealt("s2c")
           /\ (pc'["s2c"] = "done" <=> pc["s2c"] = "done")
  BY <1>2, <1>4, Mute
<1>5. ASSUME UNCHANGED stdout, pc["s2c"] # "done", pc'["s2c"] = "done",
             \/ Dealt("s2c")' = Dealt("s2c")
             \/ Dealt("s2c") < Len(emitted) /\ Dealt("s2c")' = Dealt("s2c") + 1
      PROVE  WireStep /\ RankInv'
  <2>1. Open' = Open \ {"s2c"} /\ Shown' = Shown /\ RankInv' /\ "s2c" \in Open
    BY <1>2, <1>5, ShownKept DEF Open
  <2>2. Wire!EndS2c
    BY <1>2, <1>3, <1>5, <2>1 DEF Wire!EndS2c, Got, Open, Shown
  <2>3. QED
    BY <2>1, <2>2
<1>6. ASSUME NEW e \in StdoutParts, stdout' = Append(stdout, e), e.p \in {"nl", "rem"},
             NEW m, m = Len(stdout) + 1, LineAt(m)' = <<"line", Dealt("s2c") + 1>>,
             pc["s2c"] # "done", Dealt("s2c") < Len(emitted), Dealt("s2c")' = Dealt("s2c") + 1
      PROVE  WireStep /\ RankInv'
  <2>1. Shown' = Append(Shown, <<"line", Dealt("s2c") + 1>>) /\ RankInv' /\ "s2c" \in Open
    BY <1>6, ShownFinished DEF Open
  <2>2. CASE pc'["s2c"] # "done"
    <3>1. Open' = Open
      BY <1>2, <1>6, <2>2 DEF Open
    <3>2. Wire!Relay
      BY <1>2, <1>3, <1>6, <2>1, <3>1 DEF Wire!Relay, Got, Open, Shown
    <3>3. QED
      BY <2>1, <3>2
  <2>3. CASE pc'["s2c"] = "done"
    <3>1. Open' = Open \ {"s2c"}
      BY <1>2, <1>6, <2>3 DEF Open
    <3>2. Wire!EndS2c
      BY <1>2, <1>3, <1>6, <2>1, <3>1 DEF Wire!EndS2c, Got, Open, Shown
    <3>3. QED
      BY <2>1, <3>2
  <2>4. QED
    BY <2>2, <2>3
<1>7. CASE S2cRead
  <2>1. /\ pc["s2c"] = "read" /\ UNCHANGED stdout /\ rd'["s2c"] = rd["s2c"] + 1
        /\ pc'["s2c"] = "lock"
    BY <1>1, <1>7 DEF S2cRead, CanRead, Take, Goto, wireVars
  <2>2. Dealt("s2c")' = Dealt("s2c")
    BY <1>1, <2>1 DEF Dealt, Busy
  <2>3. QED
    BY <1>4, <2>1, <2>2
<1>8. CASE S2cWake \/ S2cLock \/ S2cInject \/ S2cTap
  <2>1. /\ UNCHANGED <<stdout, rd>>
        /\ \/ pc["s2c"] = "sleep" /\ pc'["s2c"] = "lock"
           \/ pc["s2c"] = "lock" /\ pc'["s2c"] = "write"
           \/ pc["s2c"] = "inj" /\ pc'["s2c"] = "tap"
           \/ pc["s2c"] = "tap" /\ pc'["s2c"] = "read"
    BY <1>1, <1>8 DEF S2cWake, S2cLock, S2cInject, S2cTap, Goto, wireVars
  <2>2. Dealt("s2c")' = Dealt("s2c")
    BY <2>1 DEF Dealt, Busy
  <2>3. QED
    BY <1>4, <2>1, <2>2
<1>9. CASE S2cWrite
  <2>1. /\ pc["s2c"] = "write" /\ rd' = rd /\ rd["s2c"] \in 1 .. Len(emitted)
        /\ Dealt("s2c") = rd["s2c"] - 1
    BY <1>9, DealtType DEF S2cWrite, Busy
  <2>2. rd["s2c"] = Dealt("s2c") + 1 /\ Dealt("s2c") < Len(emitted)
    BY <1>1, <2>1
  <2>3. CurS2c.t \in {"frame", "rem"} /\ Part = IF CurS2c.t = "frame" THEN "body" ELSE "rem"
    <3>1. CurS2c \in ServerChunks \cup {Rem}
      BY <1>1, <2>1, ElementOfSeq DEF CurS2c
    <3>2. CurS2c.t \in {"frame", "rem"}
      BY <3>1 DEF Rem
    <3>3. QED
      BY <1>1, <3>2 DEF Part
  <2>4. CASE ~clientReads
    <3>1. UNCHANGED stdout /\ pc'["s2c"] = "done"
      BY <1>1, <1>9, <2>4 DEF S2cWrite, Goto
    <3>2. Dealt("s2c")' = rd["s2c"]
      BY <2>1, <3>1 DEF Dealt, Busy
    <3>3. QED
      BY <1>5, <2>1, <2>2, <3>1, <3>2
  <2> DEFINE e == [p |-> Part, i |-> rd["s2c"]]
  <2>5. e \in StdoutParts
    BY <1>1, <2>3 DEF StdoutParts
  <2>6. CASE clientReads /\ Part = "body"
    <3>1. stdout' = Append(stdout, e) /\ pc'["s2c"] = "nl"
      BY <1>1, <1>9, <2>6 DEF S2cWrite, Goto
    <3>2. Shown' = Shown /\ RankInv'
      BY <2>5, <2>6, <3>1, ShownUnfinished
    <3>3. Dealt("s2c")' = Dealt("s2c") /\ Open' = Open
      BY <1>2, <2>1, <3>1 DEF Dealt, Busy, Open
    <3>4. QED
      BY <1>2, <1>3, <3>2, <3>3 DEF Got, Shown, Open
  <2>7. CASE clientReads /\ Part = "rem"
    <3>1. stdout' = Append(stdout, e) /\ pc'["s2c"] = "done"
      BY <1>1, <1>9, <2>7 DEF S2cWrite, Goto
    <3>2. PICK m : m = Len(stdout) + 1
      OBVIOUS
    <3>3. stdout'[m] = e
      BY <2>5, <3>1, <3>2, EndsGrow
    <3>4. LineAt(m)' = <<"line", rd["s2c"]>>
      BY <2>7, <3>3 DEF LineAt
    <3>5. Dealt("s2c")' = rd["s2c"]
      BY <2>1, <3>1 DEF Dealt, Busy
    <3>6. QED
      BY <1>6, <2>1, <2>2, <2>5, <2>7, <3>1, <3>2, <3>4, <3>5
  <2>8. QED
    BY <2>3, <2>4, <2>6, <2>7
<1>10. CASE S2cNewline
  <2>1. /\ pc["s2c"] = "nl" /\ rd' = rd /\ rd["s2c"] \in 1 .. Len(emitted)
        /\ Dealt("s2c") = rd["s2c"] - 1
    BY <1>10, DealtType DEF S2cNewline, Busy
  <2>2. rd["s2c"] = Dealt("s2c") + 1 /\ Dealt("s2c") < Len(emitted)
    BY <1>1, <2>1
  <2>3. pc'["s2c"] = IF clientReads THEN "tap" ELSE "done"
    BY <1>1, <1>10 DEF S2cNewline, AfterWire, Goto
  <2>4. Dealt("s2c")' = rd["s2c"]
    BY <2>1, <2>3 DEF Dealt, Busy
  <2>5. CASE ~clientReads
    <3>1. UNCHANGED stdout
      BY <1>10, <2>5 DEF S2cNewline
    <3>2. QED
      BY <1>5, <2>1, <2>2, <2>3, <2>4, <2>5, <3>1
  <2>6. CASE clientReads
    <3> DEFINE e == [p |-> "nl", i |-> rd["s2c"]]
    <3>1. stdout' = Append(stdout, e) /\ e \in StdoutParts
      BY <1>1, <1>10, <2>6 DEF S2cNewline, StdoutParts
    <3>2. PICK m : m = Len(stdout) + 1
      OBVIOUS
    <3>3. stdout'[m] = e /\ \A k \in 1 .. Len(stdout) : stdout'[k] = stdout[k]
      BY <3>1, <3>2, EndsGrow
    <3>4. /\ m > 1 /\ m - 1 \in 1 .. Len(stdout)
          /\ stdout[m - 1] = [p |-> "body", i |-> rd["s2c"]]
      <4>1. stdout \in Seq(StdoutParts)
        BY DEF TypeInv, TypeOK, WireOK, StdoutParts
      <4>2. stdout # <<>> /\ stdout[Len(stdout)].p = "body" /\ stdout[Len(stdout)].i = rd["s2c"]
        BY <2>1 DEF AtomicInv, LockInv, LastIsBody
      <4>3. Len(stdout) \in 1 .. Len(stdout) /\ m - 1 = Len(stdout) /\ m > 1
        BY <3>2, <4>1, <4>2
      <4>4. stdout[Len(stdout)] \in StdoutParts
        BY <4>1, <4>3, ElementOfSeq
      <4>5. QED
        BY <4>2, <4>3, <4>4 DEF StdoutParts
    <3>5. LineAt(m)' = <<"line", rd["s2c"]>>
      <4>1. stdout'[m - 1] = [p |-> "body", i |-> rd["s2c"]]
        BY <3>3, <3>4
      <4>2. QED
        BY <3>3, <3>4, <4>1 DEF LineAt
    <3>6. QED
      BY <1>6, <2>1, <2>2, <2>3, <2>4, <3>1, <3>2, <3>5
  <2>7. QED
    BY <2>5, <2>6
<1>11. CASE S2cEof
  <2>1. pc["s2c"] = "read" /\ pc'["s2c"] = "done" /\ UNCHANGED <<stdout, rd>>
    BY <1>1, <1>11 DEF S2cEof, Goto, wireVars
  <2>2. Dealt("s2c")' = Dealt("s2c")
    BY <2>1 DEF Dealt, Busy
  <2>3. QED
    BY <1>5, <2>1, <2>2
<1> QED
  BY <1>7, <1>8, <1>9, <1>10, <1>11 DEF PumpS2c

\* Taking the program down ends a direction at most; storing moves nothing.
LEMMA RestRefines == TypeInv /\ RankInv /\ (Main \/ Storage) => WireStep /\ RankInv'
<1> SUFFICES ASSUME TypeInv, RankInv, Main \/ Storage PROVE WireStep /\ RankInv'
  OBVIOUS
<1>1. UNCHANGED <<sent, emitted, toServer, stdout, rd>>
  BY DEF Main, MainReap, MainAbort, C2sCancel, MainJoin, MainExit, Storage, StorageRecv,
     StorageEnd, outerVars, clientVars, serverVars, wireVars, pumpVars
<1>2. CASE UNCHANGED pc
  BY <1>1, <1>2, Mute DEF Dealt, Busy
<1>3. CASE C2sCancel
  <2>1. /\ pc["c2s"] # "done" /\ pc'["c2s"] = "done" /\ pc'["s2c"] = pc["s2c"]
        /\ rd["c2s"] \in Nat /\ Busy("c2s") => rd["c2s"] \in 1 .. Len(sent)
    BY <1>3, DealtType DEF C2sCancel, Goto, TypeInv, TypeOK, PumpsOK
  <2>2. /\ Dealt("s2c")' = Dealt("s2c")
        /\ \/ Dealt("c2s")' = Dealt("c2s")
           \/ Dealt("c2s") < Len(sent) /\ Dealt("c2s")' = Dealt("c2s") + 1
    BY <1>1, <2>1, DealtType DEF Dealt, Busy
  <2>3. /\ Got' = Got /\ Open' = Open \ {"c2s"} /\ Shown' = Shown /\ RankInv'
        /\ "c2s" \in Open
    BY <1>1, <2>1, ShownKept DEF Got, Open
  <2>4. Wire!EndC2s
    BY <1>1, <2>2, <2>3 DEF Wire!EndC2s, Got, Open, Shown
  <2>5. QED
    BY <2>3, <2>4 DEF WireStep, Wire!Next
<1>4. QED
  BY <1>2, <1>3 DEF Main, MainReap, MainAbort, MainJoin, MainExit, Storage, StorageRecv,
     StorageEnd, pumpVars

-----------------------------------------------------------------------------

LEMMA InitRefines == Init => Wire!Init /\ RankInv
<1> SUFFICES ASSUME Init PROVE Wire!Init /\ RankInv
  OBVIOUS
<1>1. LineEnds = {} /\ Cardinality(LineEnds) = 0
  BY FS_EmptySet DEF Init, LineEnds
<1>2. Shown = <<>> /\ Got = <<>> /\ Open = {"c2s", "s2c"} /\ RankInv
  BY <1>1 DEF Shown, Got, Open, Init, RankInv
<1>3. Dealt("c2s") = 0 /\ Dealt("s2c") = 0
  BY DEF Init, Dealt, Busy
<1>4. QED
  BY <1>2, <1>3 DEF Wire!Init, Init, Shown, Got, Open

\* Without fault injection, and for servers whose lines fit under the frame cap,
\* the pumps, with their locks, their two-step writes and run_wrap's teardown,
\* implement the abstract two-way gated wire.
THEOREM PumpsImplementWire ==
  ASSUME Faults = {}, \A c \in ServerChunks : c.t = "frame"
  PROVE  Spec => ImplementsGatedWire
<1>1. /\ TypeInv /\ GateInv /\ AtomicInv /\ PlaceInv /\ AddressedInv /\ RankInv /\ [Next]_vars
      => WireStep /\ RankInv'
  <2> SUFFICES ASSUME TypeInv, GateInv, AtomicInv, PlaceInv, AddressedInv, RankInv, [Next]_vars
               PROVE  WireStep /\ RankInv'
    OBVIOUS
  <2>1. CASE UNCHANGED vars
    BY <2>1, Mute DEF vars, clientVars, serverVars, wireVars, pumpVars, Dealt, Busy
  <2>2. QED
    BY <2>1, EnvironmentRefines, C2sRefines, S2cRefines, RestRefines DEF Next
<1>2. Init => Wire!Init /\ RankInv /\ AddressedInv /\ AtomicInv
  BY InitRefines DEF Init, AddressedInv, AtomicInv, FramesAtomic, LockInv, LastIsBody
<1>3. QED
  BY <1>1, <1>2, InitRecording, NextGateInv, NextPlaceInv, NextAtomicInv, NextAddressed,
     AlwaysTypeInv, PTL DEF Spec, ImplementsGatedWire, Wire!Spec, WireStep
====
