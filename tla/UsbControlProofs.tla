-------------------------- MODULE UsbControlProofs --------------------------
(***************************************************************************)
(* Proofs about the control endpoint, for every sequence of requests that  *)
(* a host may make and any number of resets and of transfers given up:     *)
(* first that types are kept and no answer exceeds the bank, then that     *)
(* host and device agree, and that the host takes no answer but its own.   *)
(***************************************************************************)
EXTENDS UsbControl, TLAPS

(***************************************************************************)
(* A host that waits for something of a transfer, or is about to start     *)
(* one, has a request to make.                                             *)
(***************************************************************************)
InScript == hst \in Stages \cup {"ready"} => hpos <= Len(Script)

Types == TypeOK /\ InScript

LEMMA RequestNumbers ==
    ASSUME NEW q \in Requests
    PROVE  q.wValue \in Nat /\ q.wLength \in Nat
  BY UsbControlAssumption DEF Requests, NoRq, Rq

LEMMA ScriptRequest ==
    ASSUME NEW k \in 1..Len(Script)
    PROVE  Script[k].rq \in Requests
  BY UsbControlAssumption DEF Requests

(***************************************************************************)
(* No answer is longer than the endpoint's bank, nor shorter than nothing, *)
(* whatever length the host asks for.                                      *)
(***************************************************************************)
LEMMA AnswerFits ==
    ASSUME NEW q \in Requests
    PROVE  AnswerLength(q) \in 0..getEndpointSize0
<1>1. q.wLength \in Nat /\ q.wValue \in Nat
  BY RequestNumbers
<1>2. getEndpointSize0 = 64
  BY DEF getEndpointSize0, EpSize
<1>3. StringLength(q.wValue, q.wLength) \in 0..64
  <2>1. CASE q.wValue = 0
    BY <1>1, <2>1 DEF StringLength, Least, strings
  <2>2. CASE q.wValue \in DOMAIN strings
    <3>1. q.wValue = 1 \/ q.wValue = 2 \/ q.wValue = 3
      BY <2>2 DEF strings
    <3>2. strings[q.wValue] \in 0..11
      BY <3>1 DEF strings
    <3>3. (q.wLength - 2) % 65536 \in Nat
      BY <1>1
    <3>4. StringLength(q.wValue, q.wLength)
              = Least(2, q.wLength) + Least(2 * strings[q.wValue], (q.wLength - 2) % 65536)
      BY <2>2, <3>1 DEF StringLength
    <3> QED
      BY <1>1, <3>2, <3>3, <3>4, SMT DEF Least
  <2>3. CASE q.wValue # 0 /\ q.wValue \notin DOMAIN strings
    BY <2>3 DEF StringLength
  <2> QED
    BY <2>1, <2>2, <2>3
<1> QED
  BY <1>1, <1>2, <1>3 DEF AnswerLength, Least, sizeof

PacketOK(packet) ==
    packet.of \in Requests /\ packet.value \in Nat /\ packet.len \in 0..getEndpointSize0

LEMMA NoPacketOK == PacketOK(NoPacket) /\ NoRq \in Requests
<1>1. NoRq \in Requests
  BY DEF Requests
<1>2. getEndpointSize0 = 64
  BY DEF getEndpointSize0, EpSize
<1> QED
  BY <1>1, <1>2 DEF NoPacket, PacketOK

(***************************************************************************)
(* The types by the variables that change together.                        *)
(***************************************************************************)
IsrOK ==
    /\ pc \in {"idle", "setup", "address", "long", "status", "out", "written"}
    /\ rq \in Requests /\ todo \in -1..configdesc_ttllen /\ iOut \in BOOLEAN
ProgOK == g_device_state \in {"DEFAULT", "ADDRESS", "CONFIGURED"} /\ g_current_config \in Nat
WriteOK ==
    /\ control_write_rq \in Requests
    /\ control_write_len \in 0..(CONTROL_WRITE_BUFSIZE - 1)
    /\ control_write_in_progress \in BOOLEAN
BusOK == /\ udaddr \in Nat /\ adden \in BOOLEAN /\ eorsti \in BOOLEAN
         /\ eps \subseteq 1..Len(epconfigs)
RxOK == rxstp \in BOOLEAN /\ setup \in Requests /\ rxout \in BOOLEAN /\ outlen \in Nat
TxOK == txini \in BOOLEAN /\ PacketOK(bank)
HostOK ==
    /\ hst \in Stages \cup {"restart", "ready", "done"}
    /\ hpos \in 1..(Len(Script) + 1) /\ hgot \in Nat /\ haddr \in Nat /\ hown \in BOOLEAN
    /\ resets \in 0..MaxResets /\ abandons \in 0..MaxAbandons
    /\ InScript

LEMMA NothingWritten == 0 \in 0..(CONTROL_WRITE_BUFSIZE - 1)
  BY DEF CONTROL_WRITE_BUFSIZE

LEMMA Groups == Types <=> /\ IsrOK /\ ProgOK /\ WriteOK /\ BusOK
                          /\ RxOK /\ TxOK /\ stall \in BOOLEAN /\ HostOK
  BY DEF Types, TypeOK, IsrOK, ProgOK, WriteOK, BusOK, RxOK, TxOK, PacketOK, HostOK

LEMMA GroupsNext == Types' <=> /\ IsrOK' /\ ProgOK' /\ WriteOK' /\ BusOK'
                               /\ RxOK' /\ TxOK' /\ stall' \in BOOLEAN /\ HostOK'
  BY DEF Types, TypeOK, IsrOK, ProgOK, WriteOK, BusOK, RxOK, TxOK, PacketOK, HostOK

LEMMA Quiet ==
    ASSUME Types
    PROVE  /\ UNCHANGED isrVars => IsrOK'
           /\ UNCHANGED progVars => ProgOK'
           /\ UNCHANGED writeVars => WriteOK'
           /\ UNCHANGED busVars => BusOK'
           /\ UNCHANGED <<rxstp, setup, rxout, outlen>> => RxOK'
           /\ UNCHANGED <<txini, bank>> => TxOK'
           /\ UNCHANGED stall => stall' \in BOOLEAN
           /\ UNCHANGED hostVars => HostOK'
<1> USE Groups
<1>1. UNCHANGED isrVars => IsrOK'
  BY DEF isrVars, IsrOK
<1>2. UNCHANGED progVars => ProgOK'
  BY DEF progVars, ProgOK
<1>3. UNCHANGED writeVars => WriteOK'
  BY DEF writeVars, WriteOK
<1>4. UNCHANGED busVars => BusOK'
  BY DEF busVars, BusOK
<1>5. UNCHANGED <<rxstp, setup, rxout, outlen>> => RxOK'
  BY DEF RxOK
<1>6. UNCHANGED <<txini, bank>> => TxOK'
  BY DEF TxOK, PacketOK
<1>7. UNCHANGED stall => stall' \in BOOLEAN
  OBVIOUS
<1>8. UNCHANGED hostVars => HostOK'
  BY DEF hostVars, HostOK, InScript
<1> QED
  BY <1>1, <1>2, <1>3, <1>4, <1>5, <1>6, <1>7, <1>8

LEMMA Labels ==
    ASSUME Types
    PROVE  /\ Return => IsrOK'
           /\ \A l \in {"idle", "setup", "address", "long", "status", "out", "written"} :
                  GoTo(l) => IsrOK'
<1>1. IsrOK
  BY Groups
<1>2. ASSUME Return PROVE IsrOK'
  BY <1>1, <1>2 DEF Return, IsrOK
<1>3. ASSUME NEW l \in {"idle", "setup", "address", "long", "status", "out", "written"}, GoTo(l)
      PROVE  IsrOK'
  BY <1>1, <1>3 DEF GoTo, IsrOK
<1> QED
  BY <1>2, <1>3

LEMMA Sends ==
    ASSUME Types
    PROVE  /\ SendEmpty => TxOK'
           /\ \A p : PacketOK(p) /\ Send(p) => TxOK'
<1>1. TxOK
  BY Groups
<1>2. ASSUME SendEmpty PROVE TxOK'
  BY <1>1, <1>2 DEF SendEmpty, TxOK, PacketOK
<1>3. ASSUME NEW p, PacketOK(p), Send(p) PROVE TxOK'
  BY <1>3 DEF Send, TxOK, PacketOK
<1> QED
  BY <1>2, <1>3, Zenon

(***************************************************************************)
(* A packet of a long descriptor.                                          *)
(***************************************************************************)
LEMMA LongPacketStep ==
    ASSUME Types, NEW n \in 0..configdesc_ttllen, LongPacket(n)
    PROVE  Types'
<1>1. getEndpointSize0 = 64
  BY DEF getEndpointSize0, EpSize
<1>2. configdesc_ttllen \in Nat
  BY DEF configdesc_ttllen, sizeof
<1>3. PacketOK([of |-> rq, len |-> Least(n, getEndpointSize0), value |-> 0])
  BY <1>1, Groups DEF PacketOK, Least, IsrOK
<1>4. TxOK'
  BY <1>3, Sends DEF LongPacket
<1>5. IsrOK'
  BY <1>1, <1>2, Groups DEF LongPacket, IsrOK
<1>6. /\ ProgOK' /\ WriteOK' /\ BusOK' /\ RxOK'
      /\ stall' \in BOOLEAN /\ HostOK'
  BY Quiet DEF LongPacket
<1> QED
  BY <1>4, <1>5, <1>6, GroupsNext

(***************************************************************************)
(* The handlers.                                                           *)
(***************************************************************************)
LEMMA HandlerStep == Types /\ Isr => Types'
<1> SUFFICES ASSUME Types, Isr PROVE Types'
  OBVIOUS
<1> USE Groups, GroupsNext, Quiet
<1>a. PacketOK(NoPacket) /\ NoRq \in Requests /\ AllocTxini \subseteq BOOLEAN
  BY NoPacketOK, UsbControlAssumption
<1>b. rq \in Requests /\ rq.wValue \in Nat /\ rq.wLength \in Nat
  BY RequestNumbers DEF IsrOK
<1>1. CASE EndOfReset
  <2>1. BusOK'
    BY <1>1, <1>a, <1>b DEF EndOfReset, BusOK
  <2>2. RxOK'
    BY <1>1, <1>a, <1>b DEF EndOfReset, RxOK
  <2>3. TxOK'
    BY <1>1, <1>a, <1>b DEF EndOfReset, TxOK, PacketOK
  <2> QED
    BY <1>1, <2>1, <2>2, <2>3 DEF EndOfReset
<1>2. CASE SetupPacket
  <2>1. IsrOK'
    BY <1>2, <1>a, <1>b DEF SetupPacket, IsrOK, RxOK
  <2>2. RxOK'
    BY <1>2, <1>a, <1>b DEF SetupPacket, RxOK
  <2> QED
    BY <1>2, <2>1, <2>2 DEF SetupPacket
<1>3. CASE SetAddress
  <2>1. BusOK'
    BY <1>3, <1>a, <1>b DEF SetAddress, BusOK
  <2>2. TxOK'
    BY <1>3, Sends DEF SetAddress
  <2>3. IsrOK'
    BY <1>3, Labels DEF SetAddress
  <2> QED
    BY <1>3, <2>1, <2>2, <2>3 DEF SetAddress
<1>4. CASE Addressed
  <2>1. BusOK'
    BY <1>4, <1>a, <1>b DEF Addressed, BusOK
  <2>2. ProgOK'
    BY <1>4, <1>a, <1>b DEF Addressed, ProgOK
  <2>3. IsrOK'
    BY <1>4, Labels DEF Addressed
  <2> QED
    BY <1>4, <2>1, <2>2, <2>3 DEF Addressed, ep0Vars
<1>5. CASE SetConfiguration
  <2>1. ProgOK'
    BY <1>5, <1>a, <1>b DEF SetConfiguration, ProgOK
  <2>2. TxOK'
    BY <1>5, Sends DEF SetConfiguration
  <2>3. IsrOK'
    BY <1>5, Labels DEF SetConfiguration
  <2> QED
    BY <1>5, <2>1, <2>2, <2>3 DEF SetConfiguration
<1>6. CASE Acknowledge
  <2>1. TxOK'
    BY <1>6, Sends DEF Acknowledge
  <2>2. IsrOK'
    BY <1>6, Labels DEF Acknowledge
  <2> QED
    BY <1>6, <2>1, <2>2 DEF Acknowledge
<1>7. CASE initControlWrite
  <2>1. WriteOK'
    BY <1>7, <1>a, <1>b DEF initControlWrite, WriteOK, CONTROL_WRITE_BUFSIZE
  <2>2. TxOK'
    BY <1>7, Sends DEF initControlWrite
  <2>3. IsrOK'
    BY <1>7, Labels DEF initControlWrite
  <2> QED
    BY <1>7, <2>1, <2>2, <2>3 DEF initControlWrite
<1>8. CASE Drop
  <2>1. IsrOK'
    BY <1>8, Labels DEF Drop
  <2> QED
    BY <1>8, <2>1 DEF Drop, ep0Vars
<1>9. CASE Answer
  <2>1. ASSUME NEW v \in Nat
        PROVE  PacketOK([of |-> rq, len |-> AnswerLength(rq), value |-> v])
    BY <1>b, AnswerFits DEF PacketOK
  <2>2. (IF rq.bRequest = "GET_CONFIGURATION" THEN Configuration ELSE 0) \in Nat
    BY DEF Configuration, ProgOK
  <2>3. TxOK'
    BY <1>9, <2>1, <2>2, Sends DEF Answer
  <2>4. IsrOK'
    BY <1>9, Labels DEF Answer
  <2> QED
    BY <1>9, <2>3, <2>4 DEF Answer
<1>10. CASE longDescriptorHelper
  <2>1. Least(rq.wLength, configdesc_ttllen) \in 0..configdesc_ttllen
    BY <1>b DEF Least, configdesc_ttllen, sizeof
  <2> QED
    BY <1>10, <2>1, LongPacketStep DEF longDescriptorHelper
<1>11. CASE LongNext
  <2>1. todo \in 0..configdesc_ttllen
    BY <1>11 DEF LongNext, IsrOK, configdesc_ttllen, sizeof
  <2> QED
    BY <1>11, <2>1, LongPacketStep DEF LongNext
<1>12. CASE LongEnd
  <2>1. TxOK'
    BY <1>12, Sends, <1>a DEF LongEnd
  <2>2. IsrOK'
    BY <1>12, Labels, <1>a DEF LongEnd
  <2> QED
    BY <1>12, <2>1, <2>2 DEF LongEnd
<1>13. CASE Rearm
  <2>1. TxOK'
    BY <1>13, Sends, <1>a DEF Rearm
  <2> QED
    BY <1>13, <2>1 DEF Rearm
<1>14. CASE StatusReceived
  <2>1. RxOK'
    BY <1>14, <1>a, <1>b DEF StatusReceived, RxOK
  <2>2. IsrOK'
    BY <1>14, Labels DEF StatusReceived
  <2> QED
    BY <1>14, <2>1, <2>2 DEF StatusReceived
<1>15. CASE Stall
  <2>1. IsrOK'
    BY <1>15, Labels DEF Stall
  <2> QED
    BY <1>15, <2>1 DEF Stall
<1>16. CASE OutPacket
  <2> DEFINE n == IF rxout THEN outlen ELSE 0
  <2>1. n \in Nat
    BY DEF RxOK
  <2>2. WriteOK'
    <3>1. /\ control_write_len' = IF WriteFits(n) THEN control_write_len + n
                                                   ELSE control_write_len
          /\ UNCHANGED <<control_write_rq, control_write_in_progress>>
      BY <1>16 DEF OutPacket
    <3> HIDE DEF n
    <3> QED
      BY <2>1, <3>1 DEF WriteOK, WriteFits, CONTROL_WRITE_BUFSIZE
  <2>3. RxOK'
    BY <1>16 DEF OutPacket, RxOK
  <2>4. TxOK' /\ IsrOK'
    <3>1. IF WriteEnds(n) THEN SendEmpty /\ GoTo("written") ELSE KeepBank /\ GoTo("idle")
      BY <1>16 DEF OutPacket
    <3> HIDE DEF n
    <3>2. CASE WriteEnds(n)
      <4>1. SendEmpty /\ GoTo("written")
        BY <3>1, <3>2
      <4> QED
        BY <4>1, Sends, Labels
    <3>3. CASE ~WriteEnds(n)
      <4>1. KeepBank /\ GoTo("idle")
        BY <3>1, <3>3
      <4> QED
        BY <4>1, Labels DEF KeepBank
    <3> QED
      BY <3>2, <3>3
  <2> QED
    BY <1>16, <2>2, <2>3, <2>4 DEF OutPacket
<1>17. CASE handleDataPacket
  <2>1. IsrOK'
    BY <1>17, Labels DEF handleDataPacket
  <2> QED
    BY <1>17, <2>1 DEF handleDataPacket, ep0Vars
<1> HIDE Groups, GroupsNext, Quiet
<1> QED
  BY <1>1, <1>2, <1>3, <1>4, <1>5, <1>6, <1>7, <1>8, <1>9, <1>10, <1>11, <1>12,
     <1>13, <1>14, <1>15, <1>16, <1>17, Zenon DEF Isr

(***************************************************************************)
(* The host and the hardware.                                              *)
(***************************************************************************)
LEMMA Stays ==
    ASSUME Types, NEW s \in Stages \cup {"restart"}, hst \in Stages \cup {"ready"},
           \/ Stage(s) \/ Failed \/ Complete, hgot' \in Nat, hown' \in BOOLEAN
    PROVE  HostOK'
<1>1. hpos \in 1..Len(Script) /\ Len(Script) \in Nat \ {0}
  BY Groups, UsbControlAssumption DEF HostOK, InScript
<1>2. CASE Stage(s)
  BY <1>1, <1>2, Groups DEF Stage, HostOK, InScript, Stages
<1>3. CASE Failed
  BY <1>1, <1>3, Groups DEF Failed, HostOK, InScript, Stages
<1>4. CASE Complete
  <2>1. Request.wValue \in Nat
    BY <1>1, ScriptRequest, RequestNumbers DEF Request
  <2>2. haddr' \in Nat
    BY <1>4, <2>1, Groups DEF Complete, Onward, HostOK
  <2>3. hpos' \in 1..(Len(Script) + 1) /\ InScript'
    BY <1>1, <1>4 DEF Complete, Onward, InScript, Stages
  <2> QED
    BY <1>4, <2>2, <2>3, Groups DEF Complete, Onward, HostOK
<1> QED
  BY <1>2, <1>3, <1>4

LEMMA ResetBus ==
    ASSUME Types, BusReset, resets' \in 0..MaxResets
    PROVE  Types'
<1> USE Groups
<1>1. BusOK'
  BY DEF BusReset, BusOK
<1>2. RxOK'
  BY DEF BusReset, RxOK
<1>3. TxOK'
  BY NoPacketOK DEF BusReset, TxOK, PacketOK
<1>4. HostOK'
  BY UsbControlAssumption DEF BusReset, HostOK, InScript, Stages
<1> QED
  BY <1>1, <1>2, <1>3, <1>4, Quiet, GroupsNext DEF BusReset

LEMMA HostStep == Types /\ Host => Types'
<1> SUFFICES ASSUME Types, Host PROVE Types'
  OBVIOUS
<1> USE Groups, GroupsNext, Quiet
<1>a. PacketOK(NoPacket)
  BY NoPacketOK
<1>b. hst \in Stages \cup {"ready"} => Request \in Requests /\ Request.wLength \in Nat
  BY ScriptRequest, RequestNumbers DEF Request, HostOK, InScript
<1>1. CASE HostSetup
  <2>1. RxOK'
    BY <1>1, <1>b DEF HostSetup, RxOK
  <2>2. TxOK'
    BY <1>1, <1>a DEF HostSetup, TxOK, PacketOK
  <2>3. HostOK'
    <3>1. \E s \in Stages : Stage(s)
      BY <1>1 DEF HostSetup, Stages
    <3> QED
      BY <1>1, <3>1, Stays DEF HostSetup
  <2> QED
    BY <1>1, <2>1, <2>2, <2>3 DEF HostSetup
<1>2. CASE HostIn
  <2>1. TxOK'
    BY <1>2, <1>a DEF HostIn, TxOK, PacketOK
  <2>2. hgot' \in Nat
    BY <1>2, NoPacketOK DEF HostIn, TxOK, PacketOK, HostOK, getEndpointSize0, EpSize
  <2>3. hown' \in BOOLEAN
    BY <1>2, Zenon DEF HostIn
  <2>4. HostOK'
    <3>1. \E s \in Stages : Stage(s)
      BY <1>2 DEF HostIn, Stages
    <3> QED
      BY <1>2, <2>2, <2>3, <3>1, Stays DEF HostIn, At, Stages
  <2> QED
    BY <1>2, <2>1, <2>4 DEF HostIn
<1>3. CASE HostStatusOut
  <2>1. RxOK'
    BY <1>3 DEF HostStatusOut, RxOK
  <2>2. HostOK'
    BY <1>3, Stays DEF HostStatusOut, At, Stages, HostOK
  <2> QED
    BY <1>3, <2>1, <2>2 DEF HostStatusOut
<1>4. CASE HostOut
  <2>1. RxOK'
    BY <1>4, <1>b DEF HostOut, RxOK, At, Stages
  <2>2. HostOK'
    BY <1>4, Stays DEF HostOut, At, Stages, HostOK
  <2> QED
    BY <1>4, <2>1, <2>2 DEF HostOut
<1>5. CASE HostStatusIn
  <2>1. TxOK'
    BY <1>5, <1>a DEF HostStatusIn, TxOK, PacketOK
  <2>2. HostOK'
    BY <1>5, Stays DEF HostStatusIn, At, Stages, HostOK
  <2> QED
    BY <1>5, <2>1, <2>2 DEF HostStatusIn
<1>6. CASE HostStalled
  <2>1. HostOK'
    BY <1>6, Stays DEF HostStalled, Stages, HostOK
  <2> QED
    BY <1>6, <2>1 DEF HostStalled, ep0Vars
<1>7. CASE HostTimeout
  <2>1. HostOK'
    BY <1>7, Stays DEF HostTimeout, Stages, HostOK
  <2> QED
    BY <1>7, <2>1 DEF HostTimeout, ep0Vars
<1>8. CASE HostRestart
  BY <1>8, ResetBus DEF HostRestart, HostOK
<1> QED
  BY <1>1, <1>2, <1>3, <1>4, <1>5, <1>6, <1>7, <1>8 DEF Host

LEMMA FaultStep == Types /\ (SuddenReset \/ Abandon \/ resetFirmware) => Types'
<1> SUFFICES ASSUME Types, SuddenReset \/ Abandon \/ resetFirmware PROVE Types'
  OBVIOUS
<1> USE Groups, GroupsNext, Quiet, UsbControlAssumption
<1>1. CASE SuddenReset
  BY <1>1, ResetBus DEF SuddenReset, HostOK
<1>2. CASE Abandon
  <2>1. HostOK'
    BY <1>2 DEF Abandon, Onward, HostOK, InScript, Stages
  <2> QED
    BY <1>2, <2>1 DEF Abandon, Onward, ep0Vars
<1>3. CASE resetFirmware
  <2>a. PacketOK(NoPacket) /\ NoRq \in Requests
    BY NoPacketOK
  <2>b. ProgOK'
    BY <1>3 DEF resetFirmware, ProgOK
  <2>1. WriteOK'
    <3>1. control_write_rq' = NoRq /\ control_write_len' = 0 /\ control_write_in_progress' = FALSE
      BY <1>3 DEF resetFirmware
    <3> QED
      BY <2>a, <3>1, NothingWritten DEF WriteOK
  <2>2. BusOK'
    BY <1>3 DEF resetFirmware, BusOK
  <2>3. RxOK'
    BY <1>3 DEF resetFirmware, RxOK
  <2>4. TxOK' /\ stall' \in BOOLEAN
    BY <1>3, <2>a DEF resetFirmware, TxOK, PacketOK
  <2>5. HostOK'
    BY <1>3 DEF resetFirmware, HostOK, InScript, Stages
  <2> QED
    BY <1>3, <2>b, <2>1, <2>2, <2>3, <2>4, <2>5 DEF resetFirmware
<1> QED
  BY <1>1, <1>2, <1>3

LEMMA InitTypes == Init => Types
<1> SUFFICES ASSUME Init PROVE Types
  OBVIOUS
<1> USE UsbControlAssumption, NoPacketOK
<1>a. -1 \in -1..configdesc_ttllen
  BY DEF configdesc_ttllen, sizeof
<1>1. IsrOK
  BY <1>a DEF Init, IsrOK
<1>b. ProgOK
  BY DEF Init, ProgOK
<1>2. WriteOK
  <2>1. control_write_rq = NoRq /\ control_write_len = 0 /\ control_write_in_progress = FALSE
    BY DEF Init
  <2> QED
    BY <2>1, NothingWritten DEF WriteOK
<1>c. BusOK
  BY DEF Init, BusOK
<1>3. RxOK
  BY DEF Init, RxOK
<1>d. TxOK /\ stall \in BOOLEAN
  BY DEF Init, TxOK, PacketOK
<1>4. HostOK
  BY DEF Init, HostOK, InScript, Stages
<1> QED
  BY <1>1, <1>b, <1>2, <1>c, <1>3, <1>d, <1>4, Groups

(***************************************************************************)
(* Every variable keeps its range, for every script: control_write_buf and *)
(* the endpoint's bank never overflow, and the host never runs out of      *)
(* requests in the middle of a transfer.                                   *)
(***************************************************************************)
THEOREM TypeCorrect == Spec => []TypeOK
<1>1. Types /\ [Next]_vars => Types'
  <2>1. Types /\ UNCHANGED vars => Types'
    BY Groups, GroupsNext, Quiet DEF vars, ep0Vars
  <2> QED
    BY <2>1, HandlerStep, HostStep, FaultStep DEF Next
<1>2. Types => TypeOK
  BY DEF Types
<1> QED
  BY <1>1, <1>2, InitTypes, PTL DEF Spec

(***************************************************************************)
(* HostAgrees and AnswersOwn.  The handler may still be busy with what a   *)
(* reset or the host cut off when the next request comes: the invariant    *)
(* says what it may then send, and what the host has received when the     *)
(* handler takes the request.  It has two parts: what the handlers keep    *)
(* whatever the host does, and the session, which is what holds from a     *)
(* reset of the bus until the host gives up and wants the next.            *)
(***************************************************************************)
Busy == pc \in {"setup", "address", "long", "status"}
Unfinished == hpos <= Len(Script)
AddressGiven == Done("SET_ADDRESS")
ConfigurationGiven == Done("SET_CONFIGURATION")

\* What a long descriptor has left for its second packet, at most.
Second == configdesc_ttllen - getEndpointSize0

(***************************************************************************)
(* The handlers: where one waits, it has a request that makes it wait      *)
(* there (Waits); the bank is empty when it is free (Empty); of a long     *)
(* descriptor only a second packet can be left (Remains).                  *)
(***************************************************************************)
Waits ==
    /\ pc = "address" => rq.bRequest = "SET_ADDRESS"
    /\ pc = "long" => LongDescriptor(rq)
    /\ pc = "status" => Answered(rq) \/ LongDescriptor(rq)
Empty == txini => bank.len = 0
Remains ==
    pc = "long" /\ todo >= 0 =>
        /\ todo \in 1..Second /\ rq.wLength >= getEndpointSize0 + todo
        /\ ~txini => bank.len = getEndpointSize0

(***************************************************************************)
(* No SETUP arrives while one is being read (Taken); one that asks for no  *)
(* answer finds the bank free, and keeps it so until it is handled (Free); *)
(* a packet from the host meets a SETUP only when it is its data (Data);   *)
(* the endpoints are enabled, or a reset is still to be handled (Enabled). *)
(***************************************************************************)
Taken == pc \in {"setup", "out"} => ~rxstp
Free ==
    /\ rxstp /\ ~setup.in => txini /\ pc \in {"idle", "written", "address"}
    /\ pc = "setup" /\ ~rq.in => txini
Data ==
    /\ rxstp /\ rxout /\ pc \in {"idle", "written", "address"} => ~setup.in /\ setup.wLength > 0
    /\ pc = "setup" /\ iOut => ~rq.in /\ rq.wLength > 0
    /\ pc \in {"address", "long", "status"} => ~iOut
Enabled == eorsti \/ eps = 1..Len(epconfigs)

Handlers == Waits /\ Empty /\ Remains /\ Taken /\ Free /\ Data /\ Enabled

(***************************************************************************)
(* The session: after its first request the handler is busy only with the  *)
(* host's request, or through with the one before it (InHand); a SETUP     *)
(* that waits is the host's request, or a class request it does without    *)
(* (Pending).                                                              *)
(***************************************************************************)
Finishing ==
    \/ pc = "status" /\ rxout
    \/ pc = "long" /\ todo < 0 /\ txini /\ rxout
    \/ pc = "setup" /\ rq.class
    \/ pc = "address" /\ txini /\ hpos > 1 /\ rq = Script[hpos - 1].rq

InHand ==
    Busy => \/ hpos = 1
            \/ Unfinished /\ rq = Request
            \/ hst \in {"ready", "done"} /\ Finishing
Pending ==
    rxstp => \/ Unfinished /\ setup = Request
             \/ setup.class /\ hst \in {"ready", "done"}

(***************************************************************************)
(* Host and device agree: a reset has been handled when the first request  *)
(* has ended (Settled), and so for the address and the configuration.      *)
(***************************************************************************)
Settled == eorsti => hpos = 1
SameAddress ==
    /\ ~AddressGiven => haddr = 0
    /\ AddressGiven => udaddr = haddr /\ (adden \/ (pc = "address" /\ txini))
    /\ ~AddressGiven => \/ ~adden \/ udaddr = 0 \/ hpos = 1
                        \/ Unfinished /\ Request.bRequest = "SET_ADDRESS"
SameConfiguration ==
    /\ ConfigurationGiven => g_device_state = "CONFIGURED" /\ g_current_config = 1
    /\ (/\ AddressGiven /\ ~ConfigurationGiven /\ pc # "address"
        /\ Unfinished /\ Request.bRequest # "SET_CONFIGURATION") => g_device_state = "ADDRESS"

(***************************************************************************)
(* The stages of a transfer: by the request (StageFits); packets of the    *)
(* host wait only where they are read next (Unread); a stall is the answer *)
(* to the host's request (Refused); the status packet of SET_ADDRESS or    *)
(* SET_CONFIGURATION comes when the device has done it (Earned).           *)
(***************************************************************************)
StageFits ==
    /\ hst \in {"in", "statusout"} => Request.in
    /\ hst = "out" => ~Request.in /\ Request.wLength > 0
    /\ hst = "statusin" => ~Request.in
Unread ==
    /\ rxout => hst \in {"ready", "done"} \/ (hst = "statusin" /\ Request.wLength > 0)
    /\ pc = "long" /\ rxout => todo < 0 /\ txini
    /\ pc = "address" => ~rxout
    /\ pc = "setup" /\ rxout => ~rq.in /\ rq.wLength > 0
    /\ pc = "written" /\ ~txini => ~rxout /\ hst \notin {"in", "out", "statusout"}
    /\ pc = "out" \/ (pc = "setup" /\ iOut) => hst \in {"ready", "done", "statusin"}
Refused == stall /\ hst \in Stages => pc \in {"idle", "out", "written"} /\ ~rxstp
Earned ==
    hst = "statusin" /\ ~rxstp /\ ~(pc = "setup" /\ rq = Request) =>
        /\ Request.bRequest = "SET_CONFIGURATION" =>
               g_device_state = "CONFIGURED" /\ g_current_config = 1
        /\ Request.bRequest = "SET_ADDRESS" =>
               udaddr = Request.wValue /\ (adden \/ pc = "address")

(***************************************************************************)
(* What the host receives (Reading, and at its end Read): before its SETUP *)
(* is taken nothing, or the second packet of a long descriptor; then, if a *)
(* reset was still to be handled, nothing; else its own answer.            *)
(***************************************************************************)
Own == ~rxstp /\ ~eorsti /\ rq = Request
Left == IF pc = "long" /\ todo >= 0 THEN todo ELSE 0
LeftOver == hpos = 1 \/ (LongDescriptor(Request) /\ Request.wLength > getEndpointSize0)

ReadingOld ==
    /\ hgot = 0 /\ pc \notin {"setup", "out"}
    /\ pc \in {"idle", "written", "address"} => txini
    /\ bank.len > 0 => pc = "long" /\ todo < 0 /\ bank.len <= Second /\ LeftOver
ReadingNothing == pc = "idle" /\ hgot = 0 /\ bank.len = 0
ReadingOwn ==
    /\ pc \in {"setup", "long", "status"} /\ Own
    /\ pc = "setup" => hgot = 0 /\ txini
    /\ bank.len > 0 => /\ bank.of = Request
                       /\ Request.bRequest = "GET_CONFIGURATION" => bank.value = HostConfiguration
    /\ hgot + bank.len + Left <= Request.wLength
Reading ==
    hst = "in" => /\ hown
                  /\ rxstp => ReadingOld
                  /\ ~rxstp => ReadingNothing \/ ReadingOwn

ReadOld == rxstp /\ hgot \in 1..Second /\ LeftOver
ReadOwn ==
    /\ Own /\ hown /\ hgot <= Request.wLength
    /\ pc = "status" \/ (pc = "long" /\ txini /\ todo < 0)
Read ==
    hst = "statusout" =>
        /\ pc \in {"idle", "long", "status"} /\ (pc = "idle" => ~rxstp)
        /\ hgot = 0 \/ ReadOld \/ ReadOwn

Position == InHand /\ Pending /\ Settled
Agreement == SameAddress /\ SameConfiguration /\ Earned
Staging == StageFits /\ Unread /\ Refused
Transfer == Reading /\ Read
Session == Position /\ Agreement /\ Staging /\ Transfer

IInv == Types /\ Handlers /\ (hst # "restart" => Session)

(***************************************************************************)
(* The kinds of requests, for those of the script.                         *)
(***************************************************************************)
LEMMA Numbers == Second = 3 /\ getEndpointSize0 = 64 /\ configdesc_ttllen = 67
  BY DEF Second, getEndpointSize0, EpSize, configdesc_ttllen, sizeof

LEMMA Kinds ==
    ASSUME NEW q \in Requests
    PROVE  /\ q.bRequest \in {"SET_ADDRESS", "SET_CONFIGURATION"}
                 => ~q.in /\ ~q.class /\ q.wLength = 0
           /\ q.bRequest = "SET_ADDRESS" => q.wValue # 0
           /\ q.bRequest = "SET_CONFIGURATION" => q.wValue = 1
           /\ q.class => ~Answered(q) /\ ~LongDescriptor(q)
           /\ Answered(q) => q.in /\ AnswerLength(q) <= q.wLength
           /\ LongDescriptor(q) => q.in /\ q.bRequest = "GET_CONFIGURATION_DESCRIPTOR"
           /\ \A name \in {"SET_ADDRESS", "SET_CONFIGURATION"} :
                 ToDevice(q, {name}) <=> q.bRequest = name
<1>1. q.wLength \in Nat /\ q.wValue \in Nat
  BY RequestNumbers
<1>2. q = NoRq \/ \E k \in DOMAIN Script : q = Script[k].rq
  BY DEF Requests
<1>3. /\ q.class => q.recipient = "interface"
      /\ q.bRequest = "GET_STRING_DESCRIPTOR" => q.wLength >= 2
      /\ q.bRequest \in {"SET_ADDRESS", "SET_CONFIGURATION"} =>
             ToDevice(q, {q.bRequest}) /\ ~q.class /\ q.wLength = 0
      /\ q.bRequest = "SET_ADDRESS" => q.wValue # 0
      /\ q.bRequest = "SET_CONFIGURATION" => q.wValue = 1
  <2>1. CASE q = NoRq
    BY <2>1 DEF NoRq, Rq
  <2>2. CASE q # NoRq
    BY <1>2, <2>2, HostAssumption
  <2> QED
    BY <2>1, <2>2
<1>4. ASSUME Answered(q)
      PROVE  AnswerLength(q) <= q.wLength
  <2>1. q.bRequest \in {"GET_STATUS", "GET_CONFIGURATION", "GET_DEVICE_DESCRIPTOR",
                        "GET_STRING_DESCRIPTOR"}
    BY <1>4 DEF Answered
  <2>2. ASSUME q.bRequest = "GET_STRING_DESCRIPTOR"
        PROVE  StringLength(q.wValue, q.wLength) <= q.wLength
    <3>1. CASE q.wValue = 0
      BY <1>1, <3>1 DEF StringLength, Least, strings
    <3>2. CASE q.wValue \in DOMAIN strings
      <4>1. q.wValue = 1 \/ q.wValue = 2 \/ q.wValue = 3
        BY <3>2 DEF strings
      <4>2. strings[q.wValue] \in 0..11
        BY <4>1 DEF strings
      <4>3. q.wLength >= 2 /\ (q.wLength - 2) % 65536 <= q.wLength - 2
            /\ (q.wLength - 2) % 65536 \in Nat
        BY <1>1, <1>3, <2>2
      <4>4. StringLength(q.wValue, q.wLength)
                = Least(2, q.wLength) + Least(2 * strings[q.wValue], (q.wLength - 2) % 65536)
        BY <3>2, <4>1 DEF StringLength
      <4> QED
        BY <1>1, <4>2, <4>3, <4>4, SMT DEF Least
    <3>3. CASE q.wValue # 0 /\ q.wValue \notin DOMAIN strings
      BY <1>1, <3>3 DEF StringLength
    <3> QED
      BY <3>1, <3>2, <3>3
  <2> QED
    <3>1. Least(2, q.wLength) <= q.wLength /\ Least(1, q.wLength) <= q.wLength
          /\ Least(sizeof.device, q.wLength) <= q.wLength /\ Least(4, q.wLength) <= q.wLength
      BY <1>1 DEF Least, sizeof
    <3>2. CASE q.bRequest # "GET_STRING_DESCRIPTOR"
      <4>1. CASE q.bRequest = "GET_STATUS"
        <5>1. AnswerLength(q) = Least(2, q.wLength)
          BY <4>1 DEF AnswerLength
        <5> QED
          BY <3>1, <5>1
      <4>2. CASE q.bRequest = "GET_CONFIGURATION"
        <5>1. AnswerLength(q) = Least(1, q.wLength)
          BY <4>2 DEF AnswerLength
        <5> QED
          BY <3>1, <5>1
      <4>3. CASE q.bRequest = "GET_DEVICE_DESCRIPTOR"
        <5>1. AnswerLength(q) = Least(sizeof.device, q.wLength)
          BY <4>3 DEF AnswerLength
        <5> QED
          BY <3>1, <5>1
      <4> QED
        BY <2>1, <3>2, <4>1, <4>2, <4>3
    <3>3. CASE q.bRequest = "GET_STRING_DESCRIPTOR"
      <4>1. AnswerLength(q) = StringLength(q.wValue, q.wLength)
        BY <3>3 DEF AnswerLength
      <4> QED
        BY <2>2, <3>3, <4>1
    <3> QED
      BY <3>2, <3>3
<1>5. /\ q.class => ~Answered(q) /\ ~LongDescriptor(q)
      /\ Answered(q) => q.in
      /\ LongDescriptor(q) => q.in /\ q.bRequest = "GET_CONFIGURATION_DESCRIPTOR"
  BY <1>3 DEF Answered, LongDescriptor
<1>6. \A name \in {"SET_ADDRESS", "SET_CONFIGURATION"} :
          ToDevice(q, {name}) <=> q.bRequest = name
  BY <1>3 DEF ToDevice
<1>7. q.bRequest \in {"SET_ADDRESS", "SET_CONFIGURATION"} => ~q.in
  BY <1>3 DEF ToDevice
<1> QED
  BY <1>3, <1>4, <1>5, <1>6, <1>7

LEMMA FromHost ==
    ASSUME NEW q \in Requests
    PROVE  /\ Acknowledged(q) \/ Received(q) => q.class
           /\ Acknowledged(q) \/ Received(q) \/ Dropped(q) => ~q.in
           /\ Unhandled(q) \/ Dropped(q) => /\ ~Answered(q) /\ ~LongDescriptor(q)
                                            /\ ~Acknowledged(q) /\ ~Received(q)
           /\ Unhandled(q) \/ Dropped(q) \/ Acknowledged(q) \/ Received(q)
                 => q.bRequest \notin {"SET_ADDRESS", "SET_CONFIGURATION"}
<1>1. /\ Acknowledged(q) \/ Received(q) => q.class
      /\ Acknowledged(q) \/ Received(q) \/ Dropped(q) => ~q.in
      /\ Unhandled(q) \/ Dropped(q) => /\ ~Answered(q) /\ ~LongDescriptor(q)
                                       /\ ~Acknowledged(q) /\ ~Received(q)
  BY DEF Acknowledged, Received, Dropped, Unhandled, ToInterface, Answered, LongDescriptor
<1>2. Unhandled(q) \/ Dropped(q) \/ Acknowledged(q) \/ Received(q)
         => ~ToDevice(q, {"SET_ADDRESS"}) /\ ~ToDevice(q, {"SET_CONFIGURATION"})
  BY DEF Acknowledged, Received, Dropped, Unhandled, ToInterface, ToDevice
<1> QED
  BY <1>1, <1>2, Kinds

LEMMA First ==
    /\ 1 \in DOMAIN Script /\ Script[1].rq.in /\ ~Script[1].rq.class
    /\ Script[1].rq.wLength >= Second /\ Script[1].expect > Second
<1>1. 1 \in DOMAIN Script
  BY UsbControlAssumption
<1>2. Script[1].rq.in /\ ~Script[1].rq.class
  BY HostAssumption
<1>3. Script[1].rq.wLength >= Second /\ Script[1].expect > Second
  BY HostAssumption, Zenon DEF Second
<1> QED
  BY <1>1, <1>2, <1>3

LEMMA Expected ==
    ASSUME NEW k \in 1..Len(Script)
    PROVE  /\ Script[k].expect \in Int
           /\ Script[k].rq.in => Script[k].expect # 0
           /\ Script[k].expect < 0 => /\ ~Answered(Script[k].rq) /\ ~LongDescriptor(Script[k].rq)
                                      /\ Script[k].rq.bRequest \notin {"SET_ADDRESS", "SET_CONFIGURATION"}
                                      /\ ~Acknowledged(Script[k].rq) /\ ~Received(Script[k].rq)
           /\ LongDescriptor(Script[k].rq) /\ Script[k].rq.wLength > getEndpointSize0
                 => Script[k].expect > Second
<1>1. k \in DOMAIN Script
  BY UsbControlAssumption
<1>2. Script[k].rq \in Requests
  BY ScriptRequest
<1>3. /\ Script[k].expect \in Int
      /\ Script[k].rq.in => Script[k].expect # 0
      /\ Script[k].expect < 0 => Unhandled(Script[k].rq) \/ Dropped(Script[k].rq)
      /\ LongDescriptor(Script[k].rq) /\ Script[k].rq.wLength > getEndpointSize0
                 => Script[k].expect > Second
  BY <1>1, HostAssumption DEF Second
<1> QED
  BY <1>2, <1>3, FromHost

(***************************************************************************)
(* What the host has done, as it goes on.                                  *)
(***************************************************************************)
LEMMA GivenSteps ==
    ASSUME hpos \in Nat \ {0}
    PROVE  /\ hpos' = hpos => /\ AddressGiven' <=> AddressGiven
                              /\ ConfigurationGiven' <=> ConfigurationGiven
                              /\ HostConfiguration' = HostConfiguration
           /\ hpos' = 1 => ~AddressGiven' /\ ~ConfigurationGiven'
           /\ hpos' = hpos + 1 =>
                 /\ AddressGiven' <=> AddressGiven \/ Request.bRequest = "SET_ADDRESS"
                 /\ ConfigurationGiven' <=>
                        ConfigurationGiven \/ Request.bRequest = "SET_CONFIGURATION"
<1> DEFINE D(name, p) == \E i \in 1..(p - 1) : Script[i].rq.bRequest = name
<1>1. /\ AddressGiven <=> D("SET_ADDRESS", hpos)
      /\ ConfigurationGiven <=> D("SET_CONFIGURATION", hpos)
      /\ HostConfiguration = IF D("SET_CONFIGURATION", hpos) THEN 1 ELSE 0
  BY DEF AddressGiven, ConfigurationGiven, HostConfiguration, Done
<1>2. /\ AddressGiven' <=> D("SET_ADDRESS", hpos')
      /\ ConfigurationGiven' <=> D("SET_CONFIGURATION", hpos')
      /\ HostConfiguration' = IF D("SET_CONFIGURATION", hpos') THEN 1 ELSE 0
  BY DEF AddressGiven, ConfigurationGiven, HostConfiguration, Done
<1>3. \A name : D(name, hpos + 1) <=> D(name, hpos) \/ Script[hpos].rq.bRequest = name
  <2>1. 1..((hpos + 1) - 1) = 1..(hpos - 1) \cup {hpos}
    OBVIOUS
  <2> QED
    BY <2>1
<1>4. ASSUME hpos' = hpos
      PROVE  /\ AddressGiven' <=> AddressGiven
             /\ ConfigurationGiven' <=> ConfigurationGiven
             /\ HostConfiguration' = HostConfiguration
  BY <1>4 DEF AddressGiven, ConfigurationGiven, HostConfiguration, Done
<1>5. ASSUME hpos' = 1
      PROVE  ~AddressGiven' /\ ~ConfigurationGiven'
  BY <1>5 DEF AddressGiven, ConfigurationGiven, Done
<1> HIDE DEF D
<1>6. ASSUME hpos' = hpos + 1
      PROVE  /\ AddressGiven' <=> AddressGiven \/ Request.bRequest = "SET_ADDRESS"
             /\ ConfigurationGiven' <=>
                    ConfigurationGiven \/ Request.bRequest = "SET_CONFIGURATION"
  BY <1>1, <1>2, <1>3, <1>6 DEF Request
<1> QED
  BY <1>4, <1>5, <1>6

LEMMA Before ==
    ASSUME hpos \in 1..(Len(Script) + 1)
    PROVE  /\ hpos = 1 => ~AddressGiven /\ ~ConfigurationGiven
           /\ Unfinished /\ Request.bRequest = "SET_ADDRESS" =>
                  ~AddressGiven /\ ~ConfigurationGiven
           /\ hpos > 1 /\ Script[hpos - 1].rq.bRequest = "SET_ADDRESS" =>
                  AddressGiven /\ ~ConfigurationGiven
           /\ Unfinished /\ Request.bRequest \in {"SET_CONFIGURATION", "GET_CONFIGURATION"}
                 => AddressGiven
           /\ HostConfiguration = IF ConfigurationGiven THEN 1 ELSE 0
<1>1. \A j, k \in 1..Len(Script) :
          Script[j].rq.bRequest = "SET_ADDRESS" /\ Script[k].rq.bRequest = "SET_ADDRESS" => j = k
  BY UsbControlAssumption, HostAssumption
<1>2. \A k \in 1..Len(Script) :
          Script[k].rq.bRequest \in {"SET_CONFIGURATION", "GET_CONFIGURATION"} =>
              \E j \in 1..(k - 1) : Script[j].rq.bRequest = "SET_ADDRESS"
  BY UsbControlAssumption, HostAssumption
<1>3. Len(Script) \in Nat
  BY UsbControlAssumption
<1>4. HostConfiguration = IF ConfigurationGiven THEN 1 ELSE 0
  BY DEF HostConfiguration, ConfigurationGiven
<1> QED
  BY <1>1, <1>2, <1>3, <1>4 DEF Unfinished, AddressGiven, ConfigurationGiven, Done, Request

LEMMA Basics ==
    ASSUME Types
    PROVE  /\ rq \in Requests /\ setup \in Requests
           /\ todo \in -1..configdesc_ttllen /\ bank.len \in Nat /\ hgot \in Nat
           /\ udaddr \in Nat /\ haddr \in Nat
           /\ hpos \in 1..(Len(Script) + 1) /\ Len(Script) \in Nat
           /\ hst \in Stages \cup {"ready"} => hpos <= Len(Script)
           /\ hpos <= Len(Script) => /\ Request \in Requests /\ Request.wLength \in Nat
                                     /\ Request.wValue \in Nat
<1>1. /\ hpos \in 1..(Len(Script) + 1) /\ hgot \in Nat /\ haddr \in Nat
      /\ hst \in Stages \cup {"ready"} => hpos <= Len(Script)
  BY Groups DEF HostOK, InScript
<1>2. Len(Script) \in Nat
  BY UsbControlAssumption
<1>3. ASSUME hpos <= Len(Script)
      PROVE  Request \in Requests /\ Request.wLength \in Nat /\ Request.wValue \in Nat
  BY <1>1, <1>2, <1>3, ScriptRequest, RequestNumbers DEF Request
<1>4. getEndpointSize0 = 64
  BY DEF getEndpointSize0, EpSize
<1>5. rq \in Requests /\ todo \in -1..configdesc_ttllen
  BY Groups DEF IsrOK
<1>6. setup \in Requests
  BY Groups DEF RxOK
<1>7. bank.len \in Nat
  BY <1>4, Groups DEF TxOK, PacketOK
<1>8. udaddr \in Nat
  BY Groups DEF BusOK
<1> QED
  BY <1>1, <1>2, <1>3, <1>5, <1>6, <1>7, <1>8

(***************************************************************************)
(* What every step starts from.                                            *)
(***************************************************************************)
LEMMA Facts ==
    ASSUME IInv
    PROVE  /\ Handlers /\ (hst # "restart" => Position /\ Agreement /\ Staging /\ Transfer)
           /\ Second = 3 /\ getEndpointSize0 = 64
           /\ todo \in -1..67 /\ bank.len \in Nat /\ hgot \in Nat /\ udaddr \in Nat
           /\ hpos \in Nat \ {0} /\ Len(Script) \in Nat /\ hpos <= Len(Script) + 1
           /\ hst \in Stages \cup {"ready"} => Unfinished
<1>1. Types
  BY DEF IInv
<1>2. Handlers /\ (hst # "restart" => Position /\ Agreement /\ Staging /\ Transfer)
  BY DEF IInv, Session
<1> QED
  BY <1>1, <1>2, Basics, Numbers DEF Unfinished

LEMMA InHandFacts ==
    ASSUME IInv
    PROVE  /\ rq.wLength \in Nat
           /\ rq.bRequest = "SET_ADDRESS" => ~rq.in /\ ~rq.class /\ rq.wLength = 0 /\ rq.wValue # 0
           /\ rq.bRequest = "SET_CONFIGURATION" =>
                 ~rq.in /\ ~rq.class /\ rq.wLength = 0 /\ rq.wValue = 1
           /\ rq.class => ~Answered(rq) /\ ~LongDescriptor(rq)
           /\ Answered(rq) => rq.in
           /\ LongDescriptor(rq) => rq.in /\ rq.bRequest = "GET_CONFIGURATION_DESCRIPTOR"
           /\ ToDevice(rq, {"SET_ADDRESS", "SET_CONFIGURATION"}) => ~rq.in
           /\ ToDevice(rq, {"SET_ADDRESS"}) <=> rq.bRequest = "SET_ADDRESS"
           /\ ToDevice(rq, {"SET_CONFIGURATION"}) <=> rq.bRequest = "SET_CONFIGURATION"
           /\ Acknowledged(rq) \/ Received(rq) \/ Dropped(rq) => ~rq.in
           /\ Unhandled(rq) \/ Dropped(rq) \/ Acknowledged(rq) \/ Received(rq)
                 => rq.bRequest \notin {"SET_ADDRESS", "SET_CONFIGURATION"}
<1>1. rq \in Requests
  BY Basics DEF IInv
<1>2. ToDevice(rq, {"SET_ADDRESS", "SET_CONFIGURATION"}) => ~rq.in
  BY DEF ToDevice
<1> QED
  BY <1>1, <1>2, Kinds, FromHost, RequestNumbers

LEMMA RequestFacts ==
    ASSUME IInv
    PROVE  /\ hpos = 1 => /\ ~AddressGiven /\ ~ConfigurationGiven
                          /\ Request.in /\ ~Request.class /\ Request.wLength >= 3
                          /\ Request.bRequest \notin {"SET_ADDRESS", "SET_CONFIGURATION"}
           /\ Unfinished /\ Request.bRequest = "SET_ADDRESS" => ~AddressGiven /\ ~ConfigurationGiven
           /\ hpos > 1 /\ Script[hpos - 1].rq.bRequest = "SET_ADDRESS" =>
                  AddressGiven /\ ~ConfigurationGiven
           /\ Unfinished /\ Request.bRequest \in {"SET_CONFIGURATION", "GET_CONFIGURATION"}
                 => AddressGiven
           /\ HostConfiguration = IF ConfigurationGiven THEN 1 ELSE 0
           /\ Unfinished => Request.wLength \in Nat
<1>1. Types
  BY DEF IInv
<1>2. hpos = 1 => /\ Request.in /\ ~Request.class /\ Request.wLength >= 3
                  /\ Request.bRequest \notin {"SET_ADDRESS", "SET_CONFIGURATION"}
  BY <1>1, Basics, First, Numbers, Kinds DEF Request
<1> QED
  BY <1>1, <1>2, Basics, Before DEF Unfinished

LEMMA SameHost ==
    ASSUME IInv, UNCHANGED hostVars
    PROVE  /\ AddressGiven' <=> AddressGiven
           /\ ConfigurationGiven' <=> ConfigurationGiven
           /\ HostConfiguration' = HostConfiguration
  BY Facts, GivenSteps DEF hostVars

LEMMA HostFacts ==
    ASSUME IInv
    PROVE  /\ Unfinished =>
                 /\ Script[hpos].expect \in Int /\ (Request.in => Script[hpos].expect # 0)
                 /\ Script[hpos].expect < 0 =>
                       /\ ~Answered(Request) /\ ~LongDescriptor(Request)
                       /\ ~Acknowledged(Request) /\ ~Received(Request)
                       /\ Request.bRequest \notin {"SET_ADDRESS", "SET_CONFIGURATION"}
                 /\ LongDescriptor(Request) /\ Request.wLength > 64 => Script[hpos].expect > 3
                 /\ Request.bRequest \in {"SET_ADDRESS", "SET_CONFIGURATION"} =>
                       ~Request.in /\ ~Request.class /\ Request.wLength = 0
                 /\ Request.bRequest = "SET_ADDRESS" => Request.wValue # 0
                 /\ LongDescriptor(Request) => Request.in
                 /\ Answered(Request) => Request.in
           /\ hpos = 1 => Script[hpos].expect > 3
<1>1. Types /\ Second = 3 /\ getEndpointSize0 = 64
  BY Numbers DEF IInv
<1>2. Unfinished => hpos \in 1..Len(Script) /\ Request \in Requests
  BY <1>1, Basics DEF Unfinished
<1>3. hpos = 1 => Script[hpos].expect > 3
  BY <1>1, First
<1> QED
  BY <1>1, <1>2, <1>3, Expected, Kinds DEF Request

LEMMA LongEffect ==
    ASSUME Types, NEW n \in 0..67, LongPacket(n)
    PROVE  /\ bank'.of = rq /\ bank'.len = Least(n, 64) /\ txini' = FALSE
           /\ todo' = IF n > 64 THEN n - 64 ELSE -1
           /\ pc' = "long" /\ UNCHANGED <<rq, iOut>>
           /\ UNCHANGED <<progVars, writeVars, busVars, rxstp, setup, rxout, outlen, stall, hostVars>>
  BY Numbers DEF LongPacket, Send

(***************************************************************************)
(* One lemma for each action, one step for each part of the invariant.     *)
(***************************************************************************)
LEMMA EndOfResetKeeps ==
    ASSUME IInv, EndOfReset
    PROVE  Handlers' /\ (hst' # "restart" => Session')
<1>1. Handlers'
  BY DEF EndOfReset, isrVars, NoPacket, Handlers, Waits, Empty, Remains, Taken, Free,
         Data, Enabled
<1>2. ASSUME hst' # "restart"
      PROVE  Session'
  <2>1. Position'
    BY DEF EndOfReset, isrVars, Position, InHand, Pending, Settled, Busy
  <2>2. Agreement'
    BY <1>2, Facts, RequestFacts, SameHost
       DEF EndOfReset, hostVars, Position, Settled, Staging, StageFits, Agreement,
           SameAddress, SameConfiguration, Earned
  <2>3. Staging'
    BY Facts DEF EndOfReset, isrVars, hostVars, Request, Staging, StageFits, Unread, Refused
  <2>4. Reading'
    BY Facts
       DEF EndOfReset, isrVars, hostVars, NoPacket, Transfer, Reading, ReadingOld,
           ReadingNothing, ReadingOwn
  <2>5. Read'
    BY Facts DEF EndOfReset, isrVars, hostVars, Transfer, Read, ReadOld, ReadOwn
  <2> QED
    BY <2>1, <2>2, <2>3, <2>4, <2>5 DEF Session, Transfer
<1> QED
  BY <1>1, <1>2

LEMMA SetupPacketKeeps ==
    ASSUME IInv, SetupPacket
    PROVE  Handlers' /\ (hst' # "restart" => Session')
<1>1. Handlers'
  BY Facts
     DEF SetupPacket, busVars, Handlers, Waits, Empty, Remains, Taken, Free, Data, Enabled
<1>2. ASSUME hst' # "restart"
      PROVE  Session'
  <2>1. Position'
    BY <1>2, Facts
       DEF SetupPacket, busVars, hostVars, Position, InHand, Pending, Settled, Finishing,
           Unfinished, Request
  <2>2. Agreement'
    BY <1>2, Facts, SameHost
       DEF SetupPacket, progVars, busVars, hostVars, Position, Pending, Unfinished,
           Request, Agreement, SameAddress, SameConfiguration, Earned
  <2>3. Staging'
    BY <1>2, Facts
       DEF SetupPacket, hostVars, Request, Handlers, Data, Staging, StageFits, Unread,
           Refused
  <2>4. Reading'
    <3>1. SUFFICES ASSUME hst = "in" PROVE hown' /\ ~rxstp' /\ ReadingOwn'
      BY DEF Reading, hostVars, SetupPacket
    <3>2. hown /\ pc = "idle" /\ rxstp /\ txini /\ ~eorsti /\ hgot = 0 /\ bank.len = 0
      BY <3>1, Facts DEF SetupPacket, Transfer, Reading, ReadingOld, Handlers, Empty
    <3>3. setup = Request /\ Request.wLength \in Nat
      BY <3>1, <3>2, Facts, RequestFacts DEF Position, Pending, Stages
    <3>4. /\ pc' = "setup" /\ rq' = setup /\ ~rxstp' /\ Request' = Request
          /\ UNCHANGED <<hown, eorsti, hgot, hpos, txini, bank>>
      BY DEF SetupPacket, hostVars, busVars, Request
    <3>5. Own' /\ Left' = 0
      BY <3>2, <3>3, <3>4 DEF Own, Left
    <3> QED
      BY <3>2, <3>3, <3>4, <3>5 DEF ReadingOwn
  <2>5. Read'
    BY Facts DEF SetupPacket, hostVars, Transfer, Read
  <2> QED
    BY <2>1, <2>2, <2>3, <2>4, <2>5 DEF Session, Transfer
<1> QED
  BY <1>1, <1>2

LEMMA SetAddressKeeps ==
    ASSUME IInv, SetAddress
    PROVE  Handlers' /\ (hst' # "restart" => Session')
<1>1. Handlers'
  BY Facts, InHandFacts
     DEF SetAddress, Handle, SendEmpty, GoTo, Handlers, Waits, Empty, Remains, Taken,
         Free, Data, Enabled
<1>2. ASSUME hst' # "restart"
      PROVE  Session'
  <2>1. Position'
    BY <1>2, Facts, InHandFacts
       DEF SetAddress, Handle, GoTo, hostVars, Position, InHand, Pending, Settled,
           Finishing, Busy, Unfinished, Request
  <2>2. Agreement'
    BY <1>2, Facts, InHandFacts, RequestFacts, SameHost
       DEF SetAddress, Handle, GoTo, hostVars, Position, InHand, Finishing, Busy, Request,
           Agreement, SameAddress, SameConfiguration, Earned
  <2>3. Staging'
    BY <1>2, Facts, InHandFacts
       DEF SetAddress, Handle, GoTo, hostVars, Request, Staging, StageFits, Unread,
           Refused
  <2>4. Reading'
    BY Facts, InHandFacts
       DEF SetAddress, Handle, hostVars, Staging, StageFits, Transfer, Reading,
           ReadingOld, ReadingNothing, ReadingOwn, Own
  <2>5. Read'
    BY Facts DEF SetAddress, Handle, hostVars, Transfer, Read
  <2> QED
    BY <2>1, <2>2, <2>3, <2>4, <2>5 DEF Session, Transfer
<1> QED
  BY <1>1, <1>2

LEMMA AddressedKeeps ==
    ASSUME IInv, Addressed
    PROVE  Handlers' /\ (hst' # "restart" => Session')
<1>1. Handlers'
  BY Facts
     DEF Addressed, Return, ep0Vars, Handlers, Waits, Empty, Remains, Taken, Free, Data,
         Enabled
<1>2. ASSUME hst' # "restart"
      PROVE  Session'
  <2>1. Position'
    BY <1>2, Facts
       DEF Addressed, Return, ep0Vars, hostVars, Position, InHand, Pending, Settled, Busy,
           Unfinished, Request
  <2>2. Agreement'
    BY <1>2, Facts, InHandFacts, RequestFacts, SameHost
       DEF Addressed, ep0Vars, hostVars, Position, InHand, Settled, Finishing, Busy,
           Unfinished, Request, Handlers, Waits, Agreement, SameAddress,
           SameConfiguration, Earned
  <2>3. Staging'
    BY <1>2, Facts
       DEF Addressed, Return, ep0Vars, hostVars, Request, Handlers, Data, Staging,
           StageFits, Unread, Refused
  <2>4. Reading'
    BY Facts
       DEF Addressed, Return, ep0Vars, hostVars, Handlers, Data, Transfer, Reading,
           ReadingOld, ReadingNothing, ReadingOwn
  <2>5. Read'
    BY Facts DEF Addressed, hostVars, Transfer, Read
  <2> QED
    BY <2>1, <2>2, <2>3, <2>4, <2>5 DEF Session, Transfer
<1> QED
  BY <1>1, <1>2

LEMMA SetConfigurationKeeps ==
    ASSUME IInv, SetConfiguration
    PROVE  Handlers' /\ (hst' # "restart" => Session')
<1>1. Handlers'
  BY Facts
     DEF SetConfiguration, Handle, SendEmpty, Return, busVars, Handlers, Waits, Empty,
         Remains, Taken, Free, Data, Enabled
<1>2. ASSUME hst' # "restart"
      PROVE  Session'
  <2>1. Position'
    BY <1>2, Facts
       DEF SetConfiguration, Return, busVars, hostVars, Position, InHand, Pending,
           Settled, Busy, Unfinished, Request
  <2>2. Agreement'
    BY <1>2, Facts, InHandFacts, RequestFacts, SameHost
       DEF SetConfiguration, Handle, busVars, hostVars, Position, InHand, Finishing, Busy,
           Request, Agreement, SameAddress, SameConfiguration, Earned
  <2>3. Staging'
    BY <1>2, Facts
       DEF SetConfiguration, Handle, Return, hostVars, Request, Staging, StageFits,
           Unread, Refused
  <2>4. Reading'
    BY Facts, InHandFacts
       DEF SetConfiguration, Handle, hostVars, Staging, StageFits, Transfer, Reading,
           ReadingOld, ReadingNothing, ReadingOwn, Own
  <2>5. Read'
    BY Facts DEF SetConfiguration, Handle, hostVars, Transfer, Read
  <2> QED
    BY <2>1, <2>2, <2>3, <2>4, <2>5 DEF Session, Transfer
<1> QED
  BY <1>1, <1>2

LEMMA AcknowledgeKeeps ==
    ASSUME IInv, Acknowledge
    PROVE  Handlers' /\ (hst' # "restart" => Session')
<1>1. Handlers'
  BY Facts
     DEF Acknowledge, Handle, SendEmpty, Return, busVars, Handlers, Waits, Empty, Remains,
         Taken, Free, Data, Enabled
<1>2. ASSUME hst' # "restart"
      PROVE  Session'
  <2>1. Position'
    BY <1>2, Facts
       DEF Acknowledge, Return, busVars, hostVars, Position, InHand, Pending, Settled,
           Busy, Unfinished, Request
  <2>2. Agreement'
    BY <1>2, Facts, InHandFacts, SameHost
       DEF Acknowledge, Handle, progVars, busVars, hostVars, Unfinished, Request,
           Agreement, SameAddress, SameConfiguration, Earned
  <2>3. Staging'
    BY <1>2, Facts
       DEF Acknowledge, Handle, Return, hostVars, Request, Staging, StageFits, Unread,
           Refused
  <2>4. Reading'
    BY Facts, InHandFacts
       DEF Acknowledge, Handle, hostVars, Staging, StageFits, Transfer, Reading,
           ReadingOld, ReadingNothing, ReadingOwn, Own
  <2>5. Read'
    BY Facts DEF Acknowledge, Handle, hostVars, Transfer, Read
  <2> QED
    BY <2>1, <2>2, <2>3, <2>4, <2>5 DEF Session, Transfer
<1> QED
  BY <1>1, <1>2

LEMMA initControlWriteKeeps ==
    ASSUME IInv, initControlWrite
    PROVE  Handlers' /\ (hst' # "restart" => Session')
<1>1. Handlers'
  BY Facts
     DEF initControlWrite, Handle, SendEmpty, Return, busVars, Handlers, Waits, Empty,
         Remains, Taken, Free, Data, Enabled
<1>2. ASSUME hst' # "restart"
      PROVE  Session'
  <2>1. Position'
    BY <1>2, Facts
       DEF initControlWrite, Return, busVars, hostVars, Position, InHand, Pending,
           Settled, Busy, Unfinished, Request
  <2>2. Agreement'
    BY <1>2, Facts, InHandFacts, SameHost
       DEF initControlWrite, Handle, progVars, busVars, hostVars, Unfinished, Request,
           Agreement, SameAddress, SameConfiguration, Earned
  <2>3. Staging'
    BY <1>2, Facts
       DEF initControlWrite, Handle, Return, hostVars, Request, Staging, StageFits,
           Unread, Refused
  <2>4. Reading'
    BY Facts, InHandFacts
       DEF initControlWrite, Handle, hostVars, Staging, StageFits, Transfer, Reading,
           ReadingOld, ReadingNothing, ReadingOwn, Own
  <2>5. Read'
    BY Facts DEF initControlWrite, Handle, hostVars, Transfer, Read
  <2> QED
    BY <2>1, <2>2, <2>3, <2>4, <2>5 DEF Session, Transfer
<1> QED
  BY <1>1, <1>2

LEMMA DropKeeps ==
    ASSUME IInv, Drop
    PROVE  Handlers' /\ (hst' # "restart" => Session')
<1>1. Handlers'
  BY Facts
     DEF Drop, Handle, Return, busVars, ep0Vars, Handlers, Waits, Empty, Remains, Taken,
         Free, Data, Enabled
<1>2. ASSUME hst' # "restart"
      PROVE  Session'
  <2>1. Position'
    BY <1>2, Facts
       DEF Drop, Return, busVars, ep0Vars, hostVars, Position, InHand, Pending, Settled,
           Busy, Unfinished, Request
  <2>2. Agreement'
    BY <1>2, Facts, InHandFacts, SameHost
       DEF Drop, Handle, progVars, busVars, ep0Vars, hostVars, Unfinished, Request,
           Agreement, SameAddress, SameConfiguration, Earned
  <2>3. Staging'
    BY <1>2, Facts
       DEF Drop, Handle, Return, ep0Vars, hostVars, Request, Staging, StageFits, Unread,
           Refused
  <2>4. Reading'
    BY Facts, InHandFacts
       DEF Drop, Handle, hostVars, Staging, StageFits, Transfer, Reading, ReadingOld,
           ReadingNothing, ReadingOwn, Own
  <2>5. Read'
    BY Facts DEF Drop, Handle, hostVars, Transfer, Read
  <2> QED
    BY <2>1, <2>2, <2>3, <2>4, <2>5 DEF Session, Transfer
<1> QED
  BY <1>1, <1>2

LEMMA AnswerKeeps ==
    ASSUME IInv, Answer
    PROVE  Handlers' /\ (hst' # "restart" => Session')
<1>1. /\ rq.in /\ bank'.of = rq /\ bank'.len \in Nat /\ bank'.len <= rq.wLength
      /\ rq.bRequest = "GET_CONFIGURATION" => bank'.value = Configuration
      /\ Answered(rq) /\ pc = "setup" /\ pc' = "status" /\ txini' = FALSE
  <2>1. rq \in Requests /\ getEndpointSize0 = 64
    BY Facts, Basics DEF IInv
  <2>2. AnswerLength(rq) \in 0..64
    BY <2>1, AnswerFits
  <2> QED
    BY <2>1, <2>2, Kinds DEF Answer, Handle, Send, GoTo
<1>2. Handlers'
  BY <1>1, Facts
     DEF Answer, GoTo, busVars, Handlers, Waits, Empty, Remains, Taken, Free, Data,
         Enabled
<1>3. ASSUME hst' # "restart"
      PROVE  Session'
  <2>1. Position'
    BY <1>3, Facts, InHandFacts
       DEF Answer, Handle, GoTo, busVars, hostVars, Position, InHand, Pending, Settled,
           Finishing, Busy, Unfinished, Request
  <2>2. Agreement'
    BY <1>3, Facts, InHandFacts, SameHost
       DEF Answer, Handle, progVars, busVars, hostVars, Unfinished, Request, Agreement,
           SameAddress, SameConfiguration, Earned
  <2>3. Staging'
    BY <1>3, <1>1, Facts DEF Answer, hostVars, Request, Staging, StageFits, Unread, Refused
  <2>4. Reading'
    BY <1>1, Facts, RequestFacts, SameHost
       DEF Answer, GoTo, busVars, hostVars, Configuration, Request, Agreement,
           SameConfiguration, Transfer, Reading, ReadingOld, ReadingNothing, ReadingOwn,
           Own, Left, Stages
  <2>5. Read'
    BY Facts DEF Answer, Handle, hostVars, Transfer, Read
  <2> QED
    BY <2>1, <2>2, <2>3, <2>4, <2>5 DEF Session, Transfer
<1> QED
  BY <1>2, <1>3

LEMMA longDescriptorHelperKeeps ==
    ASSUME IInv, longDescriptorHelper
    PROVE  Handlers' /\ (hst' # "restart" => Session')
<1>1. /\ rq.in /\ LongDescriptor(rq) /\ pc = "setup"
      /\ bank'.len \in 0..64 /\ bank'.of = rq /\ txini' = FALSE
      /\ todo' = -1 \/ (todo' \in 1..3 /\ bank'.len = 64)
      /\ bank'.len + (IF todo' >= 0 THEN todo' ELSE 0) <= rq.wLength
      /\ pc' = "long" /\ UNCHANGED <<rq, iOut>>
      /\ UNCHANGED <<progVars, writeVars, busVars, rxstp, setup, rxout, outlen, stall, hostVars>>
  <2> DEFINE n == Least(rq.wLength, configdesc_ttllen)
  <2>1. n \in 0..67 /\ n <= rq.wLength
    BY Numbers, InHandFacts DEF Least
  <2>2. LongPacket(n) /\ LongDescriptor(rq) /\ rq.in /\ pc = "setup"
    BY InHandFacts DEF longDescriptorHelper, Handle
  <2>3. Types
    BY DEF IInv
  <2> HIDE DEF n
  <2>4. bank'.len = Least(n, 64) /\ todo' = IF n > 64 THEN n - 64 ELSE -1
    BY <2>1, <2>2, <2>3, LongEffect
  <2>5. /\ bank'.len \in 0..64 /\ (todo' = -1 \/ (todo' \in 1..3 /\ bank'.len = 64))
        /\ bank'.len + (IF todo' >= 0 THEN todo' ELSE 0) <= rq.wLength
    BY <2>1, <2>4, InHandFacts DEF Least
  <2> QED
    BY <2>1, <2>2, <2>3, <2>5, LongEffect
<1>2. Handlers'
  BY <1>1, Facts DEF busVars, Handlers, Waits, Empty, Remains, Taken, Free, Data, Enabled
<1>3. ASSUME hst' # "restart"
      PROVE  Session'
  <2>1. Position'
    BY <1>3, <1>1, Facts, InHandFacts
       DEF busVars, hostVars, Position, InHand, Pending, Settled, Finishing, Busy,
           Unfinished, Request
  <2>2. Agreement'
    BY <1>3, <1>1, Facts, InHandFacts, SameHost
       DEF progVars, busVars, hostVars, Unfinished, Request, Agreement, SameAddress,
           SameConfiguration, Earned
  <2>3. Staging'
    BY <1>3, <1>1, Facts DEF hostVars, Request, Staging, StageFits, Unread, Refused
  <2>4. Reading'
    <3>1. SUFFICES ASSUME hst = "in" PROVE hown' /\ ~rxstp' /\ ReadingOwn'
      BY <1>1 DEF Reading, hostVars
    <3>2. hown /\ ~rxstp /\ ~eorsti /\ rq = Request /\ hgot = 0
      BY <1>1, <3>1, Facts DEF Transfer, Reading, ReadingOld, ReadingNothing, ReadingOwn, Own, Handlers, Taken
    <3>3. UNCHANGED <<hown, rxstp, eorsti, rq, hgot, hpos>> /\ Request' = Request /\ pc' = "long"
      BY <1>1 DEF hostVars, busVars, Request
    <3>4. Own'
      BY <3>2, <3>3 DEF Own
    <3>5. hgot' + bank'.len + Left' <= rq.wLength
      BY <1>1, <3>2, <3>3 DEF Left
    <3>6. Request.bRequest # "GET_CONFIGURATION"
      BY <1>1, <3>2, InHandFacts
    <3> QED
      BY <1>1, <3>2, <3>3, <3>4, <3>5, <3>6 DEF ReadingOwn
  <2>5. Read'
    BY <1>1, Facts DEF hostVars, Transfer, Read
  <2> QED
    BY <2>1, <2>2, <2>3, <2>4, <2>5 DEF Session, Transfer
<1> QED
  BY <1>2, <1>3

LEMMA LongNextKeeps ==
    ASSUME IInv, LongNext
    PROVE  Handlers' /\ (hst' # "restart" => Session')
<1>1. /\ LongDescriptor(rq) /\ rq.in /\ rq.wLength >= 64 + todo /\ todo \in 1..3
      /\ pc = "long" /\ txini /\ bank'.of = rq /\ bank'.len = todo /\ todo' = -1 /\ txini' = FALSE
      /\ pc' = "long" /\ UNCHANGED <<rq, iOut>>
      /\ UNCHANGED <<progVars, writeVars, busVars, rxstp, setup, rxout, outlen, stall, hostVars>>
  <2>1. pc = "long" /\ txini /\ todo >= 0 /\ LongPacket(todo) /\ Types
    BY DEF LongNext, IInv
  <2>2. todo \in 1..3 /\ LongDescriptor(rq) /\ rq.wLength >= 64 + todo /\ rq.in
    BY <2>1, Facts, InHandFacts DEF Handlers, Waits, Remains
  <2>3. PICK n \in 1..3 : n = todo
    BY <2>2
  <2>4. LongPacket(n) /\ n \in 0..67 /\ Least(n, 64) = n /\ ~(n > 64)
    BY <2>1, <2>3 DEF Least
  <2>5. LongPacket(n) => /\ bank'.of = rq /\ bank'.len = n /\ txini' = FALSE /\ todo' = -1
                         /\ pc' = "long" /\ UNCHANGED <<rq, iOut>>
                         /\ UNCHANGED <<progVars, writeVars, busVars, rxstp, setup, rxout, outlen, stall, hostVars>>
    BY <2>1, <2>4, LongEffect
  <2> QED
    BY <2>1, <2>2, <2>3, <2>4, <2>5
<1>2. Handlers'
  BY <1>1, Facts DEF busVars, Handlers, Waits, Empty, Remains, Taken, Free, Data, Enabled
<1>3. ASSUME hst' # "restart"
      PROVE  Session'
  <2>1. Position'
    BY <1>3, <1>1, Facts
       DEF busVars, hostVars, Position, InHand, Pending, Settled, Finishing, Busy,
           Unfinished, Request
  <2>2. Agreement'
    BY <1>3, <1>1, Facts, SameHost
       DEF progVars, busVars, hostVars, Unfinished, Request, Agreement, SameAddress,
           SameConfiguration, Earned
  <2>3. Staging'
    BY <1>3, <1>1, Facts DEF hostVars, Request, Staging, StageFits, Unread, Refused
  <2>4. Reading'
    BY <1>3, <1>1, Facts, InHandFacts, RequestFacts, SameHost
       DEF progVars, busVars, hostVars, Position, InHand, Pending, Busy, Unfinished,
           Request, Handlers, Waits, Empty, Transfer, Read, Reading, ReadingOld,
           ReadingNothing, ReadingOwn, Own, Left, LeftOver, Stages
  <2>5. Read'
    BY <1>1, Facts DEF hostVars, Request, Transfer, Read, ReadOld, ReadOwn, LeftOver
  <2> QED
    BY <2>1, <2>2, <2>3, <2>4, <2>5 DEF Session, Transfer
<1> QED
  BY <1>2, <1>3

LEMMA LongEndKeeps ==
    ASSUME IInv, LongEnd
    PROVE  Handlers' /\ (hst' # "restart" => Session')
<1>1. Handlers'
  BY Facts
     DEF LongEnd, Send, GoTo, busVars, Handlers, Waits, Empty, Remains, Taken, Free, Data,
         Enabled
<1>2. ASSUME hst' # "restart"
      PROVE  Session'
  <2>1. Position'
    BY <1>2, Facts
       DEF LongEnd, GoTo, busVars, hostVars, Position, InHand, Pending, Settled,
           Finishing, Busy, Unfinished, Request
  <2>2. Agreement'
    BY <1>2, Facts, SameHost
       DEF LongEnd, progVars, busVars, hostVars, Unfinished, Request, Agreement,
           SameAddress, SameConfiguration, Earned
  <2>3. Staging'
    BY <1>2, Facts DEF LongEnd, GoTo, hostVars, Request, Staging, StageFits, Unread, Refused
  <2>4. Reading'
    BY Facts
       DEF LongEnd, Send, NoPacket, GoTo, busVars, hostVars, Request, Handlers, Empty,
           Remains, Transfer, Reading, ReadingOld, ReadingNothing, ReadingOwn, Own, Left
  <2>5. Read'
    BY Facts
       DEF LongEnd, GoTo, busVars, hostVars, Request, Transfer, Read, ReadOld, ReadOwn,
           Own, LeftOver
  <2> QED
    BY <2>1, <2>2, <2>3, <2>4, <2>5 DEF Session, Transfer
<1> QED
  BY <1>1, <1>2

LEMMA RearmKeeps ==
    ASSUME IInv, Rearm
    PROVE  Handlers' /\ (hst' # "restart" => Session')
<1>1. Handlers'
  BY Facts
     DEF Rearm, Send, isrVars, busVars, Handlers, Waits, Empty, Remains, Taken, Free,
         Data, Enabled
<1>2. ASSUME hst' # "restart"
      PROVE  Session'
  <2>1. Position'
    BY <1>2, Facts
       DEF Rearm, isrVars, busVars, hostVars, Position, InHand, Pending, Settled,
           Finishing, Busy, Unfinished, Request
  <2>2. Agreement'
    BY <1>2, Facts, SameHost
       DEF Rearm, progVars, busVars, hostVars, Unfinished, Request, Agreement,
           SameAddress, SameConfiguration, Earned
  <2>3. Staging'
    BY <1>2, Facts
       DEF Rearm, isrVars, hostVars, Request, Staging, StageFits, Unread, Refused
  <2>4. Reading'
    BY <1>2, Facts, InHandFacts, RequestFacts, SameHost
       DEF Rearm, Send, NoPacket, isrVars, progVars, busVars, hostVars, Unfinished,
           Request, Transfer, Read, Reading, ReadingOld, ReadingNothing, ReadingOwn, Own,
           Left
  <2>5. Read'
    BY Facts
       DEF Rearm, isrVars, busVars, hostVars, Request, Transfer, Read, ReadOld, ReadOwn,
           Own, LeftOver
  <2> QED
    BY <2>1, <2>2, <2>3, <2>4, <2>5 DEF Session, Transfer
<1> QED
  BY <1>1, <1>2

LEMMA StatusReceivedKeeps ==
    ASSUME IInv, StatusReceived
    PROVE  Handlers' /\ (hst' # "restart" => Session')
<1>1. Handlers'
  BY Facts
     DEF StatusReceived, Return, busVars, Handlers, Waits, Empty, Remains, Taken, Free,
         Data, Enabled
<1>2. ASSUME hst' # "restart"
      PROVE  Session'
  <2>1. Position'
    BY <1>2, Facts
       DEF StatusReceived, Return, busVars, hostVars, Position, InHand, Pending, Settled,
           Busy, Unfinished, Request
  <2>2. Agreement'
    BY <1>2, Facts, SameHost
       DEF StatusReceived, progVars, busVars, hostVars, Unfinished, Request, Agreement,
           SameAddress, SameConfiguration, Earned
  <2>3. Staging'
    BY <1>2, Facts
       DEF StatusReceived, hostVars, Request, Staging, StageFits, Unread, Refused
  <2>4. Reading'
    BY Facts DEF StatusReceived, hostVars, Staging, Unread, Reading
  <2>5. Read'
    BY Facts DEF StatusReceived, hostVars, Staging, Unread, Read
  <2> QED
    BY <2>1, <2>2, <2>3, <2>4, <2>5 DEF Session, Transfer
<1> QED
  BY <1>1, <1>2

LEMMA StallKeeps ==
    ASSUME IInv, Stall
    PROVE  Handlers' /\ (hst' # "restart" => Session')
<1>1. Handlers'
  BY Facts
     DEF Stall, Handle, Return, busVars, Handlers, Waits, Empty, Remains, Taken, Free,
         Data, Enabled
<1>2. ASSUME hst' # "restart"
      PROVE  Session'
  <2>1. Position'
    BY <1>2, Facts
       DEF Stall, Return, busVars, hostVars, Position, InHand, Pending, Settled, Busy,
           Unfinished, Request
  <2>2. Agreement'
    BY <1>2, Facts, InHandFacts, SameHost
       DEF Stall, Handle, progVars, busVars, hostVars, Unfinished, Request, Agreement,
           SameAddress, SameConfiguration, Earned
  <2>3. Staging'
    BY <1>2, Facts
       DEF Stall, Handle, Return, hostVars, Request, Handlers, Taken, Staging, StageFits,
           Unread, Refused
  <2>4. Reading'
    BY Facts
       DEF Stall, Handle, Return, hostVars, Handlers, Empty, Staging, Unread, Transfer,
           Reading, ReadingOld, ReadingNothing, ReadingOwn
  <2>5. Read'
    BY Facts DEF Stall, Handle, hostVars, Transfer, Read
  <2> QED
    BY <2>1, <2>2, <2>3, <2>4, <2>5 DEF Session, Transfer
<1> QED
  BY <1>1, <1>2

LEMMA OutPacketKeeps ==
    ASSUME IInv, OutPacket
    PROVE  Handlers' /\ (hst' # "restart" => Session')
<1>1. Handlers'
  BY Facts
     DEF OutPacket, OutPending, SendEmpty, KeepBank, GoTo, busVars, Handlers, Waits,
         Empty, Remains, Taken, Free, Data, Enabled
<1>2. ASSUME hst' # "restart"
      PROVE  Session'
  <2>1. Position'
    BY <1>2, Facts
       DEF OutPacket, GoTo, busVars, hostVars, Position, InHand, Pending, Settled, Busy,
           Unfinished, Request
  <2>2. Agreement'
    BY <1>2, Facts, SameHost
       DEF OutPacket, OutPending, progVars, busVars, hostVars, Unfinished, Request,
           Agreement, SameAddress, SameConfiguration, Earned
  <2>3. Staging'
    BY Facts
       DEF OutPacket, OutPending, GoTo, hostVars, Request, Staging, StageFits, Unread,
           Refused, Stages
  <2>4. Reading'
    BY Facts DEF OutPacket, OutPending, hostVars, Staging, Unread, Reading
  <2>5. Read'
    BY Facts DEF OutPacket, OutPending, hostVars, Staging, Unread, Read
  <2> QED
    BY <2>1, <2>2, <2>3, <2>4, <2>5 DEF Session, Transfer
<1> QED
  BY <1>1, <1>2

LEMMA handleDataPacketKeeps ==
    ASSUME IInv, handleDataPacket
    PROVE  Handlers' /\ (hst' # "restart" => Session')
<1>1. Handlers'
  BY Facts
     DEF handleDataPacket, GoTo, busVars, ep0Vars, Handlers, Waits, Empty, Remains, Taken,
         Free, Data, Enabled
<1>2. ASSUME hst' # "restart"
      PROVE  Session'
  <2>1. Position'
    BY <1>2, Facts
       DEF handleDataPacket, GoTo, busVars, ep0Vars, hostVars, Position, InHand, Pending,
           Settled, Busy, Unfinished, Request
  <2>2. Agreement'
    BY <1>2, Facts, SameHost
       DEF handleDataPacket, progVars, busVars, ep0Vars, hostVars, Unfinished, Request,
           Agreement, SameAddress, SameConfiguration, Earned
  <2>3. Staging'
    BY <1>2, Facts
       DEF handleDataPacket, GoTo, ep0Vars, hostVars, Request, Staging, StageFits, Unread,
           Refused
  <2>4. Reading'
    BY Facts
       DEF handleDataPacket, GoTo, ep0Vars, hostVars, Transfer, Reading, ReadingOld,
           ReadingNothing, ReadingOwn
  <2>5. Read'
    BY Facts DEF handleDataPacket, hostVars, Transfer, Read
  <2> QED
    BY <2>1, <2>2, <2>3, <2>4, <2>5 DEF Session, Transfer
<1> QED
  BY <1>1, <1>2

LEMMA HostSetupKeeps ==
    ASSUME IInv, HostSetup
    PROVE  Handlers' /\ (hst' # "restart" => Session')
<1>1. /\ hst # "restart" /\ Unfinished /\ ~rxout /\ pc \notin {"setup", "out"}
      /\ pc \in {"address", "long", "status"} => hpos = 1 \/ rq = Request
      /\ ~Request.in => pc \in {"idle", "written", "address"}
      /\ eorsti => hpos = 1
      /\ hst' \in Stages /\ hst' # "statusout"
      /\ hst' = "in" <=> Request.in
  BY Facts, InHandFacts, RequestFacts DEF HostSetup, Waiting, Stage, Position, InHand, Settled, Busy, Finishing,
     Unfinished, Staging, Unread, Handlers, Waits, Free, Stages
<1>2. Handlers'
  BY <1>1, Facts
     DEF HostSetup, isrVars, busVars, NoPacket, Handlers, Waits, Empty, Remains, Taken,
         Free, Data, Enabled
<1>3. ASSUME hst' # "restart"
      PROVE  Session'
  <2>1. Position'
    BY <1>1
       DEF HostSetup, Stage, isrVars, busVars, Position, InHand, Pending, Settled, Busy,
           Unfinished, Request
  <2>2. Agreement'
    BY Facts, GivenSteps
       DEF HostSetup, Stage, isrVars, progVars, busVars, Unfinished, Request, Agreement,
           SameAddress, SameConfiguration, Earned
  <2>3. Staging'
    BY <1>1 DEF HostSetup, Stage, isrVars, Request, Staging, StageFits, Unread, Refused
  <2>4. Reading'
    BY <1>1 DEF HostSetup, isrVars, NoPacket, Reading, ReadingOld
  <2>5. Read'
    BY DEF HostSetup, Stage, Read
  <2> QED
    BY <2>1, <2>2, <2>3, <2>4, <2>5 DEF Session, Transfer
<1> QED
  BY <1>2, <1>3

LEMMA HostInKeeps ==
    ASSUME IInv, HostIn
    PROVE  Handlers' /\ (hst' # "restart" => Session')
<1>1. Handlers'
  BY Facts
     DEF HostIn, isrVars, busVars, NoPacket, Handlers, Waits, Empty, Remains, Taken, Free,
         Data, Enabled
<1>2. ASSUME hst' # "restart"
      PROVE  Session'
  <2>1. Position'
    BY Facts
       DEF HostIn, At, Stage, isrVars, busVars, Position, InHand, Pending, Settled, Busy,
           Unfinished, Request
  <2>2. Agreement'
    BY Facts, GivenSteps
       DEF HostIn, At, Stage, isrVars, progVars, busVars, Unfinished, Request, Agreement,
           SameAddress, SameConfiguration, Earned
  <2>3. Staging'
    BY Facts DEF HostIn, At, Stage, isrVars, Request, Staging, StageFits, Unread, Refused
  <2>4. Reading'
    BY Facts
       DEF HostIn, At, Stage, isrVars, busVars, NoPacket, Request, Transfer, Reading,
           ReadingOld, ReadingNothing, ReadingOwn, Own, Left
  <2>5. Read'
    <3>1. hst = "in" /\ hgot' = hgot + bank.len /\ txini' = TRUE /\ hst' \in {"in", "statusout"}
          /\ ~txini /\ Unfinished /\ Request' = Request
      BY Facts DEF HostIn, At, Stage, Stages, Request
    <3>0. SUFFICES ASSUME hst' = "statusout"
          PROVE  /\ pc \in {"idle", "long", "status"} /\ (pc = "idle" => ~rxstp)
                 /\ hgot' = 0 \/ ReadOld' \/ ReadOwn'
      BY <3>1 DEF Read, HostIn, isrVars
    <3>2. CASE rxstp
      <4>1. ReadingOld
        BY <3>1, <3>2, Facts DEF Transfer, Reading
      <4>2. CASE bank.len = 0
        BY <3>1, <3>2, <4>1, <4>2, Facts DEF ReadingOld, Handlers, Waits, Position, Stages, IInv, Types, TypeOK
      <4>3. CASE bank.len > 0
        <5>1. ReadOld'
          BY <3>1, <3>2, <4>1, <4>3, Facts DEF ReadingOld, ReadOld, LeftOver, HostIn, Stage
        <5> QED
          BY <3>2, <4>1, <4>3, <5>1 DEF ReadingOld
      <4> QED
        BY <4>2, <4>3, Facts
    <3>3. CASE ~rxstp /\ ReadingNothing
      BY <3>1, <3>3, Facts DEF ReadingNothing
    <3>4. CASE ~rxstp /\ ReadingOwn
      <4>1. hown /\ Own /\ hgot + bank.len + Left <= Request.wLength /\ pc \in {"long", "status"}
        BY <3>1, <3>4, Facts DEF ReadingOwn, Transfer, Reading
      <4>2. hown'
        BY <3>1, <3>4, <4>1 DEF HostIn, ReadingOwn
      <4>3. bank.len < 64 \/ hgot' >= Request.wLength
        BY <3>1, <3>0, Facts DEF HostIn, Stage
      <4>4. todo \in -1..67 /\ bank.len \in Nat /\ hgot \in Nat /\ Request.wLength \in Nat
        BY <3>1, Facts, RequestFacts
      <4>5. Left \in Nat /\ (pc = "long" => todo < 0 \/ (Left = todo /\ todo > 0 /\ bank.len = 64))
        BY <3>1, <4>4, Facts DEF Left, Handlers, Remains
      <4>6. (pc = "long" => todo < 0) /\ hgot' <= Request.wLength
        BY <3>1, <4>1, <4>3, <4>4, <4>5
      <4>7a. Own'
        BY <3>1, <4>1 DEF Own, HostIn, busVars, isrVars
      <4>7. ReadOwn'
        BY <3>1, <4>1, <4>2, <4>6, <4>7a DEF ReadOwn, HostIn, isrVars
      <4> QED
        BY <4>1, <4>7
    <3> QED
      BY <3>1, <3>2, <3>3, <3>4, Facts DEF Transfer, Reading
  <2> QED
    BY <2>1, <2>2, <2>3, <2>4, <2>5 DEF Session, Transfer
<1> QED
  BY <1>1, <1>2

LEMMA HostStatusOutKeeps ==
    ASSUME IInv, HostStatusOut
    PROVE  Handlers' /\ (hst' # "restart" => Session')
<1>1. Handlers'
  BY Facts
     DEF HostStatusOut, At, isrVars, busVars, Handlers, Waits, Empty, Remains, Taken,
         Free, Data, Transfer, Read, Enabled
<1>2. ASSUME hst' # "restart"
      PROVE  Session'
  <2>1. Position'
    BY <1>2, Facts, HostFacts
       DEF HostStatusOut, At, Complete, Onward, Failed, isrVars, busVars, Position, InHand,
           Pending, Settled, Finishing, Staging, StageFits, Transfer, Read, ReadOld,
           ReadOwn, Own, LeftOver, Stages
  <2>2. Agreement'
    BY Facts, HostFacts, GivenSteps
       DEF HostStatusOut, At, Reached, DeviceAddress, Complete, Onward, Failed, isrVars, progVars,
           busVars, Staging, StageFits, Agreement, SameAddress, SameConfiguration, Earned,
           Stages
  <2>3. Staging'
    BY <1>2, Facts, HostFacts
       DEF HostStatusOut, At, Complete, Onward, Failed, isrVars, Staging, StageFits, Unread,
           Refused, Transfer, Read, ReadOld, ReadOwn, LeftOver, Stages
  <2>4. Reading'
    BY DEF HostStatusOut, Complete, Onward, Failed, Reading
  <2>5. Read'
    BY DEF HostStatusOut, Complete, Onward, Failed, Read
  <2> QED
    BY <2>1, <2>2, <2>3, <2>4, <2>5 DEF Session, Transfer
<1> QED
  BY <1>1, <1>2

LEMMA HostOutKeeps ==
    ASSUME IInv, HostOut
    PROVE  Handlers' /\ (hst' # "restart" => Session')
<1>1. Handlers'
  BY Facts
     DEF HostOut, At, isrVars, busVars, Position, Pending, Handlers, Waits, Empty,
         Remains, Taken, Free, Data, Staging, StageFits, Enabled
<1>2. ASSUME hst' # "restart"
      PROVE  Session'
  <2>1. Position'
    BY Facts
       DEF HostOut, At, Stage, isrVars, busVars, Position, InHand, Pending, Settled, Busy,
           Unfinished, Request
  <2>2. Agreement'
    BY Facts, HostFacts, GivenSteps
       DEF HostOut, At, Stage, isrVars, progVars, busVars, Request, Staging, StageFits,
           Agreement, SameAddress, SameConfiguration, Earned, Stages
  <2>3. Staging'
    BY Facts, InHandFacts, RequestFacts
       DEF HostOut, At, Stage, isrVars, Position, InHand, Busy, Request, Handlers, Waits,
           Staging, StageFits, Unread, Refused
  <2>4. Reading'
    BY DEF HostOut, Stage, Reading
  <2>5. Read'
    BY DEF HostOut, Stage, Read
  <2> QED
    BY <2>1, <2>2, <2>3, <2>4, <2>5 DEF Session, Transfer
<1> QED
  BY <1>1, <1>2

LEMMA HostStatusInKeeps ==
    ASSUME IInv, HostStatusIn
    PROVE  Handlers' /\ (hst' # "restart" => Session')
<1>1. Handlers'
  BY Facts
     DEF HostStatusIn, isrVars, busVars, NoPacket, Handlers, Waits, Empty, Remains, Taken,
         Free, Data, Enabled
<1>2. ASSUME hst' # "restart"
      PROVE  Session'
  <2>0. hst' \in {"ready", "done"} /\ hpos' = hpos + 1
    BY <1>2 DEF HostStatusIn, Complete, Onward, Failed
  <2>1. Position'
    BY <2>0, Facts, InHandFacts, RequestFacts
       DEF HostStatusIn, At, isrVars, busVars, Position, InHand,
           Pending, Settled, Finishing, Busy, Unfinished, Request, Handlers, Waits, Free,
           Staging, StageFits
  <2>2. Agreement'
    BY <1>2, Facts, HostFacts, GivenSteps
       DEF HostStatusIn, At, Reached, DeviceAddress, Complete, Onward, Failed, isrVars, progVars,
           busVars, Position, Pending, Handlers, Free, Agreement, SameAddress,
           SameConfiguration, Earned, Stages
  <2>3. Staging'
    BY <1>2, Facts
       DEF HostStatusIn, At, Complete, Onward, Failed, isrVars, Staging, StageFits, Unread,
           Refused
  <2>4. Reading'
    BY DEF HostStatusIn, Complete, Onward, Failed, Reading
  <2>5. Read'
    BY DEF HostStatusIn, Complete, Onward, Failed, Read
  <2> QED
    BY <2>1, <2>2, <2>3, <2>4, <2>5 DEF Session, Transfer
<1> QED
  BY <1>1, <1>2

LEMMA HostStalledKeeps ==
    ASSUME IInv, HostStalled
    PROVE  Handlers' /\ (hst' # "restart" => Session')
<1>1. Handlers'
  BY Facts
     DEF HostStalled, isrVars, busVars, ep0Vars, Handlers, Waits, Empty, Remains, Taken,
         Free, Data, Enabled
<1>2. ASSUME hst' # "restart"
      PROVE  Session'
  <2>1. Position'
    BY Facts, HostFacts
       DEF HostStalled, Failed, isrVars, busVars, ep0Vars, Position, InHand, Pending,
           Settled, Busy, Staging, Refused, Stages
  <2>2. Agreement'
    BY <1>2, Facts, HostFacts, GivenSteps
       DEF HostStalled, Complete, Onward, Failed, isrVars, progVars, busVars, ep0Vars, Agreement,
           SameAddress, SameConfiguration, Earned, Stages
  <2>3. Staging'
    BY <1>2, Facts
       DEF HostStalled, Complete, Onward, Failed, isrVars, ep0Vars, Staging, StageFits, Unread,
           Refused, Stages
  <2>4. Reading'
    BY DEF HostStalled, Complete, Onward, Failed, Reading
  <2>5. Read'
    BY DEF HostStalled, Complete, Onward, Failed, Read
  <2> QED
    BY <2>1, <2>2, <2>3, <2>4, <2>5 DEF Session, Transfer
<1> QED
  BY <1>1, <1>2

LEMMA HostTimeoutKeeps ==
    ASSUME IInv, HostTimeout
    PROVE  Handlers' /\ (hst' # "restart" => Session')
<1>1. ASSUME hpos' # hpos
      PROVE  /\ hst \in Stages /\ hpos > 1 /\ hpos' = hpos + 1
             /\ ~rxstp /\ pc \in {"idle", "written"}
             /\ Request.bRequest \notin {"SET_ADDRESS", "SET_CONFIGURATION"}
  <2>1. hst \in Stages /\ Script[hpos].expect < 0 /\ Complete /\ Waiting
    BY <1>1 DEF HostTimeout, Failed, Stages
  <2>2. hst # "restart" /\ Unfinished /\ hpos > 1
    BY <2>1, Facts, HostFacts DEF Stages
  <2>3. pc \in {"idle", "written"}
    BY <2>1, <2>2, Facts, InHandFacts, HostFacts
       DEF Waiting, Position, InHand, Busy, Finishing, Handlers, Waits, Free, Stages
  <2>4. ~rxstp
    BY <2>1, <2>2, <2>3, Facts
       DEF Waiting, Position, Pending, Handlers, Free, Staging, StageFits,
           Transfer, Reading, ReadingOld, Read, Stages
  <2> QED
    BY <2>1, <2>2, <2>3, <2>4, HostFacts DEF Complete, Onward
<1>2. Handlers'
  BY Facts
     DEF HostTimeout, isrVars, busVars, ep0Vars, Handlers, Waits, Empty, Remains, Taken,
         Free, Data, Enabled
<1>3. ASSUME hst' # "restart"
      PROVE  Session'
  <2>1. Position'
    BY <1>3, <1>1, Facts
       DEF HostTimeout, Complete, Onward, Failed, isrVars, busVars, ep0Vars, Position, InHand,
           Pending, Settled, Busy, Stages
  <2>2. Agreement'
    BY <1>3, <1>1, Facts, GivenSteps
       DEF HostTimeout, Complete, Onward, Failed, progVars, busVars, Agreement, SameAddress,
           SameConfiguration, Earned, Stages
  <2>3. Staging'
    BY <1>3, Facts
       DEF HostTimeout, Complete, Onward, Failed, isrVars, ep0Vars, Staging, StageFits, Unread,
           Refused, Stages
  <2>4. Reading'
    BY DEF HostTimeout, Complete, Onward, Failed, Reading
  <2>5. Read'
    BY DEF HostTimeout, Complete, Onward, Failed, Read
  <2> QED
    BY <2>1, <2>2, <2>3, <2>4, <2>5 DEF Session, Transfer
<1> QED
  BY <1>2, <1>3

LEMMA BusResetKeeps ==
    ASSUME IInv, BusReset
    PROVE  Handlers' /\ (hst' # "restart" => Session')
<1>1. Handlers'
  BY Facts
     DEF BusReset, isrVars, NoPacket, Handlers, Waits, Empty, Remains, Taken, Free, Data,
         Enabled
<1>2. ASSUME hst' # "restart"
      PROVE  Session'
  <2>1. Position'
    BY DEF BusReset, Position, InHand, Pending, Settled
  <2>2. Agreement'
    BY Facts, GivenSteps DEF BusReset, Agreement, SameAddress, SameConfiguration, Earned
  <2>3. Staging'
    BY DEF BusReset, Staging, StageFits, Unread, Refused
  <2>4. Reading'
    BY DEF BusReset, Reading
  <2>5. Read'
    BY DEF BusReset, Read
  <2> QED
    BY <2>1, <2>2, <2>3, <2>4, <2>5 DEF Session, Transfer
<1> QED
  BY <1>1, <1>2

LEMMA AbandonKeeps ==
    ASSUME IInv, Abandon
    PROVE  Handlers' /\ (hst' # "restart" => Session')
<1>1. Handlers'
  BY Facts
     DEF Abandon, Onward, isrVars, busVars, ep0Vars, Handlers, Waits, Empty, Remains, Taken, Free,
         Data, Enabled
<1>2. ASSUME hst' # "restart"
      PROVE  Session'
  <2>1. Position'
    BY Facts, InHandFacts, RequestFacts
       DEF Abandon, Onward, isrVars, busVars, ep0Vars, Position, InHand, Pending, Settled,
           Finishing, Busy, Unfinished, Request, Handlers, Waits, Stages
  <2>2. Agreement'
    BY Facts, RequestFacts, HostFacts, GivenSteps
       DEF Abandon, Onward, isrVars, progVars, busVars, ep0Vars, Unfinished, Request, Agreement,
           SameAddress, SameConfiguration, Earned, Stages
  <2>3. Staging'
    BY Facts DEF Abandon, Onward, isrVars, ep0Vars, Staging, StageFits, Unread, Refused, Stages
  <2>4. Reading'
    BY DEF Abandon, Onward, Reading
  <2>5. Read'
    BY DEF Abandon, Onward, Read
  <2> QED
    BY <2>1, <2>2, <2>3, <2>4, <2>5 DEF Session, Transfer
<1> QED
  BY <1>1, <1>2

LEMMA resetFirmwareKeeps ==
    ASSUME IInv, resetFirmware
    PROVE  Handlers' /\ (hst' # "restart" => Session')
<1>1. Handlers'
  BY DEF resetFirmware, isrVars, NoPacket, Handlers, Waits, Empty, Remains, Taken, Free,
         Data, Enabled
<1>2. ASSUME hst' # "restart"
      PROVE  Session'
  <2>1. Position'
    BY DEF resetFirmware, isrVars, Position, InHand, Pending, Settled, Busy
  <2>2. Agreement'
    BY <1>2 DEF resetFirmware
  <2>3. Staging'
    BY DEF resetFirmware, isrVars, Staging, StageFits, Unread, Refused
  <2>4. Reading'
    BY DEF resetFirmware, Reading
  <2>5. Read'
    BY DEF resetFirmware, Read
  <2> QED
    BY <2>1, <2>2, <2>3, <2>4, <2>5 DEF Session, Transfer
<1> QED
  BY <1>1, <1>2

(***************************************************************************)
(* The initial states and the steps keep the invariant.                    *)
(***************************************************************************)
LEMMA InitIInv == Init => IInv
<1> SUFFICES ASSUME Init PROVE IInv
  OBVIOUS
<1>1. Handlers
  <2>1. /\ pc = "idle" /\ ~rxstp /\ eps = 1..Len(epconfigs) /\ bank.len = 0
    BY DEF Init, NoPacket
  <2> QED
    BY <2>1 DEF Handlers, Waits, Empty, Remains, Taken, Free, Data, Enabled
<1>2. hst = "restart"
  BY DEF Init
<1> QED
  BY <1>1, <1>2, InitTypes DEF IInv

LEMMA StepIInv == IInv /\ [Next]_vars => IInv'
<1> SUFFICES ASSUME IInv, [Next]_vars PROVE IInv'
  OBVIOUS
<1>1. Types'
  <2>1. Types
    BY DEF IInv
  <2>2. CASE UNCHANGED vars
    BY <2>1, <2>2, Groups, GroupsNext, Quiet DEF vars, ep0Vars
  <2> QED
    BY <2>1, <2>2, HandlerStep, HostStep, FaultStep DEF Next
<1>2. Handlers' /\ (hst' # "restart" => Session')
  <2>1. CASE Isr
    BY <2>1, EndOfResetKeeps, SetupPacketKeeps, SetAddressKeeps, AddressedKeeps,
       SetConfigurationKeeps, AcknowledgeKeeps, initControlWriteKeeps, DropKeeps, AnswerKeeps,
       longDescriptorHelperKeeps, LongNextKeeps, LongEndKeeps, RearmKeeps, StatusReceivedKeeps,
       StallKeeps, OutPacketKeeps, handleDataPacketKeeps DEF Isr
  <2>2. CASE Host
    BY <2>2, HostSetupKeeps, HostInKeeps, HostStatusOutKeeps, HostOutKeeps, HostStatusInKeeps,
       HostStalledKeeps, HostTimeoutKeeps, BusResetKeeps DEF Host, HostRestart
  <2>3. CASE SuddenReset \/ Abandon \/ resetFirmware
    BY <2>3, BusResetKeeps, AbandonKeeps, resetFirmwareKeeps DEF SuddenReset
  <2>4. CASE UNCHANGED vars
    <3>1. Handlers /\ (hst # "restart" => Session)
      BY DEF IInv
    <3>2. Handlers' <=> Handlers
      BY <2>4 DEF vars, isrVars, busVars, ep0Vars, Handlers, Waits, Empty, Remains, Taken, Free,
         Data, Enabled
    <3>3. Session' <=> Session
      <4>1. UNCHANGED <<hst, hpos, hgot, haddr, hown>> /\ UNCHANGED <<isrVars, progVars, busVars, ep0Vars>>
        BY <2>4 DEF vars, hostVars
      <4>2. /\ AddressGiven' <=> AddressGiven
            /\ ConfigurationGiven' <=> ConfigurationGiven
            /\ HostConfiguration' = HostConfiguration
        BY <2>4, SameHost DEF vars
      <4>3. Position' <=> Position
        BY <4>1 DEF isrVars, busVars, ep0Vars, Position, InHand, Pending, Settled, Busy, Finishing,
           Unfinished, Request
      <4>4. Agreement' <=> Agreement
        BY <4>1, <4>2 DEF isrVars, progVars, busVars, ep0Vars, Agreement, SameAddress,
           SameConfiguration, Earned, Unfinished, Request
      <4>5. Staging' <=> Staging
        BY <4>1 DEF isrVars, busVars, ep0Vars, Staging, StageFits, Unread, Refused, Request
      <4>6. Transfer' <=> Transfer
        BY <4>1, <4>2 DEF isrVars, busVars, ep0Vars, Transfer, Reading, ReadingOld, ReadingNothing,
           ReadingOwn, Read, ReadOld, ReadOwn, LeftOver, Left, Own, Request
      <4> QED
        BY <4>3, <4>4, <4>5, <4>6 DEF Session
    <3>4. hst' = hst
      BY <2>4 DEF vars, hostVars
    <3> QED
      BY <3>1, <3>2, <3>3, <3>4
  <2> QED
    BY <2>1, <2>2, <2>3, <2>4 DEF Next
<1> QED
  BY <1>1, <1>2 DEF IInv

LEMMA Invariant == Spec => []IInv
  BY InitIInv, StepIInv, PTL DEF Spec

(***************************************************************************)
(* From the first request on, the device has what the host has set up: a   *)
(* reset of the bus was handled before it, and what a request that was cut *)
(* off still does is what the host asks for again, or is undone by it.     *)
(***************************************************************************)
THEOREM HostAndDeviceAgree == Spec => []HostAgrees
<1>1. IInv => HostAgrees
  <2> SUFFICES ASSUME IInv, hst # "restart" PROVE HostAgrees
    BY DEF HostAgrees
  <2>1. /\ AddressGiven => udaddr = haddr /\ (adden \/ pc = "address")
        /\ ConfigurationGiven => g_device_state = "CONFIGURED" /\ g_current_config = 1
    BY Facts DEF Agreement, SameAddress, SameConfiguration
  <2>2. hpos > 1 => eps = 1..Len(epconfigs)
    BY Facts DEF Position, Settled, Handlers, Enabled
  <2>3. \A d \in {cfg1[k] : k \in DOMAIN cfg1} :
            d.kind = "endpoint" => d.number \in 1..Len(epconfigs) /\ epconfigs[d.number] = d.cfg
    <3>1. \A d \in {cfg1[k] : k \in DOMAIN cfg1} :
              d \in {Plain("configuration"), Plain("interface"), Plain("header"), Plain("acm"),
                     Plain("unio"), Plain("call"), Endpoint(1, "int", TRUE, 8),
                     Endpoint(2, "bulk", TRUE, 64), Endpoint(3, "bulk", FALSE, 8)}
      <4>1. DOMAIN cfg1 = 1..10
        BY DEF cfg1
      <4>2. \A k \in 1..10 : k = 1 \/ k = 2 \/ k = 3 \/ k = 4 \/ k = 5 \/ k = 6 \/ k = 7 \/ k = 8
                             \/ k = 9 \/ k = 10
        OBVIOUS
      <4>3. /\ cfg1[1] = Plain("configuration") /\ cfg1[2] = Plain("interface")
            /\ cfg1[3] = Endpoint(1, "int", TRUE, 8) /\ cfg1[4] = Plain("header")
            /\ cfg1[5] = Plain("acm") /\ cfg1[6] = Plain("unio") /\ cfg1[7] = Plain("call")
            /\ cfg1[8] = Plain("interface") /\ cfg1[9] = Endpoint(2, "bulk", TRUE, 64)
            /\ cfg1[10] = Endpoint(3, "bulk", FALSE, 8)
        BY DEF cfg1
      <4> QED
        BY <4>1, <4>2, <4>3
    <3>2. /\ Endpoint(1, "int", TRUE, 8).number = 1
          /\ Endpoint(1, "int", TRUE, 8).cfg = epconfigs[1]
          /\ Endpoint(2, "bulk", TRUE, 64).number = 2
          /\ Endpoint(2, "bulk", TRUE, 64).cfg = epconfigs[2]
          /\ Endpoint(3, "bulk", FALSE, 8).number = 3
          /\ Endpoint(3, "bulk", FALSE, 8).cfg = epconfigs[3]
      BY DEF Endpoint, epconfigs, EpSize
    <3>3. Len(epconfigs) = 3
      BY DEF epconfigs
    <3>4. /\ Plain("configuration").kind # "endpoint" /\ Plain("interface").kind # "endpoint"
          /\ Plain("header").kind # "endpoint" /\ Plain("acm").kind # "endpoint"
          /\ Plain("unio").kind # "endpoint" /\ Plain("call").kind # "endpoint"
      BY DEF Plain
    <3> SUFFICES ASSUME NEW d \in {cfg1[k] : k \in DOMAIN cfg1}, d.kind = "endpoint"
                 PROVE  d.number \in 1..Len(epconfigs) /\ epconfigs[d.number] = d.cfg
      OBVIOUS
    <3>5. \/ d = Endpoint(1, "int", TRUE, 8)
          \/ d = Endpoint(2, "bulk", TRUE, 64)
          \/ d = Endpoint(3, "bulk", FALSE, 8)
      BY <3>1, <3>4, Zenon
    <3>6. \/ d.number = 1 /\ d.cfg = epconfigs[1]
          \/ d.number = 2 /\ d.cfg = epconfigs[2]
          \/ d.number = 3 /\ d.cfg = epconfigs[3]
      BY <3>2, <3>5, Zenon
    <3> QED
      BY <3>3, <3>6
  <2> QED
    BY <2>1, <2>2, <2>3 DEF HostAgrees, AddressGiven, ConfigurationGiven
<1> QED
  BY <1>1, Invariant, PTL

(***************************************************************************)
(* An answer of the expected length is the host's own: what is left of one *)
(* that was cut off is at most the second packet of a long descriptor, and *)
(* the host expects more than that when it can come.                       *)
(***************************************************************************)
THEOREM OwnAnswers == Spec => []AnswersOwn
<1>1. IInv => AnswersOwn
  <2> SUFFICES ASSUME IInv, hst = "statusout"
               PROVE  (hgot = Script[hpos].expect => hown) /\ hgot <= Request.wLength
    BY DEF AnswersOwn
  <2>1. Unfinished /\ Read /\ Request.in /\ Request.wLength \in Nat
    BY Facts, RequestFacts DEF Transfer, Staging, StageFits, Stages
  <2>2. CASE hgot = 0
    BY <2>1, <2>2, HostFacts
  <2>3. CASE ReadOld
    BY <2>1, <2>3, Facts, HostFacts, RequestFacts DEF ReadOld, LeftOver
  <2>4. CASE ReadOwn
    BY <2>4 DEF ReadOwn
  <2> QED
    BY <2>1, <2>2, <2>3, <2>4 DEF Read
<1> QED
  BY <1>1, Invariant, PTL


(***************************************************************************)
(* What keeps SetConfiguration, which does not look at g_device_state,     *)
(* from a device without an address: one that has an address enabled is    *)
(* not in its default state, nor is one that a request to configure it is  *)
(* under way to, though a reset may have come after the request.           *)
(***************************************************************************)
LeftDefault == g_device_state # "DEFAULT"
AddressFirst ==
    /\ adden => LeftDefault
    /\ rxstp /\ setup.bRequest = "SET_CONFIGURATION" => LeftDefault
    /\ pc = "setup" /\ rq.bRequest = "SET_CONFIGURATION" => LeftDefault

LEMMA AddressFirstStep == IInv /\ AddressFirst /\ [Next]_vars => AddressFirst'
<1> SUFFICES ASSUME IInv, AddressFirst, [Next]_vars PROVE AddressFirst'
  OBVIOUS
<1>1. CASE HostSetup
  <2>1. /\ hst = "ready" /\ Waiting /\ rxstp' /\ setup' = Request
        /\ UNCHANGED <<pc, rq, adden, g_device_state>>
    BY <1>1 DEF HostSetup, isrVars, progVars, busVars
  <2>2. Request.bRequest = "SET_CONFIGURATION" => adden
    <3>1. Request.bRequest = "SET_CONFIGURATION" => AddressGiven
      BY <2>1, Facts, RequestFacts
    <3>2. AddressGiven => adden
      BY <2>1, Facts DEF Agreement, SameAddress, Waiting
    <3> QED
      BY <3>1, <3>2
  <2> QED
    BY <2>1, <2>2 DEF AddressFirst, LeftDefault
<1>2. CASE SetupPacket
  BY <1>2 DEF SetupPacket, progVars, busVars, AddressFirst, LeftDefault
<1>3. CASE Addressed
  <2>1. g_device_state' = "ADDRESS"
    BY <1>3, Facts, InHandFacts DEF Addressed, Handlers, Waits
  <2> QED
    BY <2>1 DEF AddressFirst, LeftDefault
<1>4. CASE SetConfiguration
  <2>1. g_device_state' = "CONFIGURED"
    BY <1>4, InHandFacts DEF SetConfiguration, Handle
  <2> QED
    BY <2>1 DEF AddressFirst, LeftDefault
<1>5. CASE SetAddress
  BY <1>5 DEF SetAddress, GoTo, progVars, AddressFirst, LeftDefault
<1>6. CASE SuddenReset \/ HostRestart
  BY <1>6 DEF SuddenReset, HostRestart, BusReset, isrVars, progVars, AddressFirst, LeftDefault
<1>7. CASE resetFirmware
  BY <1>7 DEF resetFirmware, isrVars, AddressFirst
<1>8. CASE \/ EndOfReset \/ Acknowledge \/ initControlWrite \/ Drop \/ Answer \/ LongEnd \/ Rearm
           \/ StatusReceived \/ Stall \/ OutPacket \/ handleDataPacket
  BY <1>8 DEF EndOfReset, Acknowledge, initControlWrite, Drop, Answer, LongEnd, Rearm,
     StatusReceived, Stall, OutPacket, handleDataPacket, Return, GoTo, isrVars, progVars, busVars,
     ep0Vars, AddressFirst, LeftDefault
<1>9. CASE longDescriptorHelper \/ LongNext
  BY <1>9 DEF longDescriptorHelper, LongNext, LongPacket, progVars, busVars, AddressFirst, LeftDefault
<1>10. CASE HostIn \/ HostStatusOut \/ HostOut \/ HostStatusIn \/ HostStalled \/ HostTimeout \/ Abandon
  <2>1. UNCHANGED <<isrVars, progVars, busVars, rxstp, setup>>
    BY <1>10 DEF HostIn, HostStatusOut, HostOut, HostStatusIn, HostStalled, HostTimeout, Abandon,
       ep0Vars
  <2> QED
    BY <2>1 DEF isrVars, progVars, busVars, AddressFirst, LeftDefault
<1>11. CASE UNCHANGED vars
  BY <1>11 DEF vars, isrVars, progVars, busVars, ep0Vars, AddressFirst, LeftDefault
<1> QED
  BY <1>1, <1>2, <1>3, <1>4, <1>5, <1>6, <1>7, <1>8, <1>9, <1>10, <1>11 DEF Next, Isr, Host

(***************************************************************************)
(* No device is configured that has not had an address since the firmware  *)
(* began: not even by a request that a reset of the bus cut off.           *)
(***************************************************************************)
THEOREM AddressBeforeConfiguration ==
    Spec => [][g_device_state' = "CONFIGURED" => g_device_state # "DEFAULT"]_vars
<1>1. Init => AddressFirst
  BY DEF Init, AddressFirst
<1>2. ASSUME IInv, AddressFirst, Next
      PROVE  g_device_state' = "CONFIGURED" => g_device_state # "DEFAULT"
  <2>1. SetConfiguration => LeftDefault
    BY <1>2, InHandFacts DEF SetConfiguration, Handle, AddressFirst
  <2>2. ~SetConfiguration => g_device_state' \in {g_device_state, "DEFAULT", "ADDRESS"}
    <3>1. CASE Addressed \/ resetFirmware
      BY <3>1 DEF Addressed, resetFirmware
    <3>2. CASE \/ EndOfReset \/ SetupPacket \/ SetAddress \/ Acknowledge \/ initControlWrite \/ Drop
               \/ Answer \/ longDescriptorHelper \/ LongNext \/ LongEnd \/ Rearm
               \/ StatusReceived \/ Stall \/ OutPacket \/ handleDataPacket
      BY <3>2 DEF EndOfReset, SetupPacket, SetAddress, Acknowledge, initControlWrite, Drop, Answer,
         longDescriptorHelper, LongNext, LongPacket, LongEnd, Rearm, StatusReceived, Stall,
         OutPacket, handleDataPacket, progVars
    <3>3. CASE Host \/ SuddenReset \/ Abandon
      BY <3>3 DEF Host, HostSetup, HostIn, HostStatusOut, HostOut, HostStatusIn, HostStalled,
         HostTimeout, HostRestart, SuddenReset, BusReset, Abandon, progVars
    <3> QED
      BY <1>2, <3>1, <3>2, <3>3 DEF Next, Isr
  <2> QED
    BY <2>1, <2>2 DEF LeftDefault
<1>3. ASSUME IInv, AddressFirst, UNCHANGED vars
      PROVE  g_device_state' = "CONFIGURED" => g_device_state # "DEFAULT"
  BY <1>3 DEF vars, progVars
<1> QED
  BY <1>1, <1>2, <1>3, AddressFirstStep, Invariant, PTL DEF Spec
=============================================================================
