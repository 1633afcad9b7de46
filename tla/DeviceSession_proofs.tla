------------------------ MODULE DeviceSession_proofs ------------------------
(***************************************************************************)
(* For every set of workers, ports and boards: a channel has one owner,    *)
(* a session stays bound to the selected board, and the transports         *)
(* implement DeviceChannel.                                                *)
(***************************************************************************)
EXTENDS DeviceSession, TLAPS

Choices == [reader : Ports, board : Boards]

LEMMA TargetOfType ==
  ASSUME NEW c \in Choices
  PROVE TargetOf(c) \in Targets
  BY IdentityAssumption DEF Choices, TargetOf, Targets

LEMMA FirstStepGuarded ==
  ASSUME NEW o \in Ops
  PROVE FirstStep(o) \in Guarded
  BY DEF FirstStep, Ops, AppOps, DiscoverOps, Guarded

USE DEF Goto, Drop

-----------------------------------------------------------------------------
(* The inductive invariant. *)

\* A worker is between lock_device() and its return exactly while the mutex
\* names it; outside it owns no handle.
GuardInv ==
  \A w \in Workers :
    /\ pc[w] \in Guarded <=> cardSession = w
    /\ pc[w] \notin Guarded => card[w] = NoBoard /\ candidates[w] = {}

\* Each label belongs to the functions that have it.
LabelInv ==
  \A w \in Workers :
    /\ pc[w] \in {"forget", "list", "scan"} => op[w] \in DiscoverOps
    /\ pc[w] \in {"target", "connect", "verify"} => op[w] \in AppOps
    /\ pc[w] \in {"check", "unwrap"} => op[w] = "open_with_aid"
    /\ pc[w] \in {"find", "open"} => op[w] = "hid_open"

\* From the clone of SELECTED to the end of the session the clone is current.
CloneInv ==
  \A w \in Workers :
    pc[w] \in {"connect", "verify", "unwrap"} \/ (InSession(w) /\ op[w] \in AppOps) =>
      selected # NoTarget /\ target[w] = selected

\* A handle whose board was verified, or just scanned, is the selected one.
VerifiedInv ==
  \A w \in Workers :
    /\ pc[w] = "unwrap" \/ (InSession(w) /\ op[w] \in AppOps \cup DiscoverOps)
    /\ card[w] # NoBoard
    => Identity[card[w]] = selected.identity

\* A worker whose discover() just succeeded still sees its selection.
DiscoveredInv ==
  \A w \in Workers : InSession(w) /\ op[w] \in DiscoverOps => selected # NoTarget

\* HID was matched with the selection that is still in force.
HidInv ==
  \A w \in Workers :
    (pc[w] = "open" \/ (InSession(w) /\ op[w] = "hid_open")) /\ card[w] # NoBoard =>
      HidMatches(card[w])

\* A selection describes a board.
SelectedInv ==
  selected # NoTarget =>
    \E b \in Boards : selected.identity = Identity[b] /\ selected.firmware = FirmwareOf[b]

\* A steady board is still to be scanned or already a candidate.
SteadyInv ==
  \A w \in Workers : pc[w] = "scan" =>
    \A b \in steady[w] :
      \/ \E p \in listed[w] : attached[p] = b
      \/ \E c \in candidates[w] : c.board = b

IndInv ==
  /\ TypeOK /\ GuardInv /\ LabelInv /\ CloneInv /\ VerifiedInv
  /\ DiscoveredInv /\ HidInv /\ SelectedInv /\ SteadyInv

LEMMA IndInvInit == Init => IndInv
  BY NullAssumption
     DEF Init, IndInv, TypeOK, GuardInv, LabelInv, CloneInv, VerifiedInv, DiscoveredInv,
         HidInv, SelectedInv, SteadyInv, Labels, Guarded, Ops, AppOps, DiscoverOps, InSession

LEMMA IndInvNext == IndInv /\ [Next]_vars => IndInv'
<1> SUFFICES ASSUME IndInv, [Next]_vars
             PROVE IndInv'
  OBVIOUS
<1> USE NullAssumption, NoTargetAssumption DEF IndInv, TypeOK, GuardInv, LabelInv, CloneInv, VerifiedInv, DiscoveredInv, HidInv, SelectedInv, SteadyInv, InSession, Labels, Guarded, Ops, AppOps, DiscoverOps
<1>1. ASSUME NEW p \in Ports, NEW b \in Boards, PlugIn(p, b) PROVE IndInv'
  <2>1. TypeOK'
    BY <1>1 DEF PlugIn
  <2>2. GuardInv'
    BY <1>1 DEF PlugIn
  <2>3. LabelInv'
    BY <1>1 DEF PlugIn
  <2>4. CloneInv'
    BY <1>1 DEF PlugIn
  <2>5. VerifiedInv'
    BY <1>1 DEF PlugIn
  <2>6. DiscoveredInv'
    BY <1>1 DEF PlugIn
  <2>7. HidInv'
    BY <1>1 DEF PlugIn, HidMatches
  <2>8. SelectedInv'
    BY <1>1 DEF PlugIn
  <2>9. SteadyInv'
    BY <1>1 DEF PlugIn
  <2>10. QED
    BY <2>1, <2>2, <2>3, <2>4, <2>5, <2>6, <2>7, <2>8, <2>9 DEF IndInv
<1>2. ASSUME NEW p \in Ports, Pull(p) PROVE IndInv'
  <2>1. TypeOK'
    BY <1>2 DEF Pull
  <2>2. GuardInv'
    BY <1>2 DEF Pull
  <2>3. LabelInv'
    BY <1>2 DEF Pull
  <2>4. CloneInv'
    BY <1>2 DEF Pull
  <2>5. VerifiedInv'
    BY <1>2 DEF Pull
  <2>6. DiscoveredInv'
    BY <1>2 DEF Pull
  <2>7. HidInv'
    BY <1>2 DEF Pull, HidMatches
  <2>8. SelectedInv'
    BY <1>2 DEF Pull
  <2>9. SteadyInv'
    BY <1>2 DEF Pull
  <2>10. QED
    BY <2>1, <2>2, <2>3, <2>4, <2>5, <2>6, <2>7, <2>8, <2>9 DEF IndInv
<1>3. ASSUME NEW w \in Workers, NEW o \in Ops, Start(w, o) PROVE IndInv'
  <2>1. TypeOK'
    BY <1>3 DEF Start
  <2>2. GuardInv'
    BY <1>3 DEF Start
  <2>3. LabelInv'
    BY <1>3 DEF Start
  <2>4. CloneInv'
    BY <1>3 DEF Start
  <2>5. VerifiedInv'
    BY <1>3 DEF Start
  <2>6. DiscoveredInv'
    BY <1>3 DEF Start
  <2>7. HidInv'
    BY <1>3 DEF Start, HidMatches
  <2>8. SelectedInv'
    BY <1>3 DEF Start
  <2>9. SteadyInv'
    BY <1>3 DEF Start
  <2>10. QED
    BY <2>1, <2>2, <2>3, <2>4, <2>5, <2>6, <2>7, <2>8, <2>9 DEF IndInv
<1>4. ASSUME NEW w \in Workers, Step(w) PROVE IndInv'
  <2>1. CASE LockDevice(w)
    <3>1. TypeOK'
      BY <2>1 DEF LockDevice, FirstStep
    <3>2. GuardInv'
      BY <2>1 DEF LockDevice, FirstStep
    <3>3. LabelInv'
      BY <2>1 DEF LockDevice, FirstStep
    <3>4. CloneInv'
      BY <2>1 DEF LockDevice, FirstStep
    <3>5. VerifiedInv'
      BY <2>1 DEF LockDevice, FirstStep
    <3>6. DiscoveredInv'
      BY <2>1 DEF LockDevice, FirstStep
    <3>7. HidInv'
      BY <2>1 DEF LockDevice, FirstStep
    <3>8. SelectedInv'
      BY <2>1 DEF LockDevice, FirstStep
    <3>9. SteadyInv'
      BY <2>1 DEF LockDevice, FirstStep
    <3>10. QED
      BY <3>1, <3>2, <3>3, <3>4, <3>5, <3>6, <3>7, <3>8, <3>9 DEF IndInv
  <2>2. CASE DeviceBusy(w)
    <3>1. TypeOK'
      BY <2>2 DEF DeviceBusy
    <3>2. GuardInv'
      BY <2>2 DEF DeviceBusy
    <3>3. LabelInv'
      BY <2>2 DEF DeviceBusy
    <3>4. CloneInv'
      BY <2>2 DEF DeviceBusy
    <3>5. VerifiedInv'
      BY <2>2 DEF DeviceBusy
    <3>6. DiscoveredInv'
      BY <2>2 DEF DeviceBusy
    <3>7. HidInv'
      BY <2>2 DEF DeviceBusy, HidMatches
    <3>8. SelectedInv'
      BY <2>2 DEF DeviceBusy
    <3>9. SteadyInv'
      BY <2>2 DEF DeviceBusy
    <3>10. QED
      BY <3>1, <3>2, <3>3, <3>4, <3>5, <3>6, <3>7, <3>8, <3>9 DEF IndInv
  <2>3. CASE DriverError(w)
    BY <2>3 DEF DriverError
  <2>4. CASE ForgetSelected(w)
    BY <2>4 DEF ForgetSelected
  <2>5. CASE ListReaders(w)
    BY <2>5 DEF ListReaders
  <2>6. ASSUME NEW p \in Ports, ScanReader(w, p) PROVE IndInv'
    <3>1. TypeOK'
      <4>1. Supported(attached[p]) => [reader |-> p, board |-> attached[p]] \in [reader : Ports, board : Boards]
        BY DEF Supported
      <4>2. QED
        BY <2>6, <4>1 DEF ScanReader
    <3>2. GuardInv'
      BY <2>6 DEF ScanReader
    <3>3. LabelInv'
      BY <2>6 DEF ScanReader
    <3>4. CloneInv'
      BY <2>6 DEF ScanReader
    <3>5. VerifiedInv'
      BY <2>6 DEF ScanReader
    <3>6. DiscoveredInv'
      BY <2>6 DEF ScanReader
    <3>7. HidInv'
      BY <2>6 DEF ScanReader
    <3>8. SelectedInv'
      BY <2>6 DEF ScanReader
    <3>9. SteadyInv'
      <4> SUFFICES ASSUME NEW v \in Workers, pc'[v] = "scan", NEW b \in steady'[v]
                   PROVE \/ \E q \in listed'[v] : attached'[q] = b
                         \/ \E c \in candidates'[v] : c.board = b
        OBVIOUS
      <4>1. CASE v # w
        BY <2>6, <4>1 DEF ScanReader
      <4>2. CASE v = w /\ attached[p] # b
        BY <2>6, <4>2 DEF ScanReader
      <4>3. CASE v = w /\ attached[p] = b
        <5> DEFINE c == [reader |-> p, board |-> attached[p]]
        <5>1. c.board = b
          BY <4>3
        <5>2. c \in candidates'[w]
          BY <2>6, <4>3 DEF ScanReader
        <5>3. QED
          BY <4>3, <5>1, <5>2
      <4>4. QED
        BY <4>1, <4>2, <4>3
    <3>10. QED
      BY <3>1, <3>2, <3>3, <3>4, <3>5, <3>6, <3>7, <3>8, <3>9 DEF IndInv
  <2>7. CASE RefuseCandidates(w)
    BY <2>7 DEF RefuseCandidates
  <2>8. CASE Choose(w)
    <3> PICK c \in candidates[w] :
          /\ candidates[w] = {c}
          /\ selected' = TargetOf(c)
          /\ card' = [card EXCEPT ![w] = IF attached[c.reader] = c.board THEN c.board ELSE NoBoard]
      BY <2>8 DEF Choose
    <3> c \in Choices
      BY DEF Choices
    <3>0. /\ selected' \in Targets /\ selected' # NoTarget
          /\ selected'.identity = Identity[c.board] /\ selected'.firmware = FirmwareOf[c.board]
      BY TargetOfType DEF TargetOf
    <3>1. TypeOK'
      BY <2>8, <3>0 DEF Choose, Choices
    <3>2. GuardInv'
      BY <2>8, <3>0 DEF Choose
    <3>3. LabelInv'
      BY <2>8, <3>0 DEF Choose
    <3>4. CloneInv'
      BY <2>8, <3>0 DEF Choose
    <3>5. VerifiedInv'
      BY <2>8, <3>0 DEF Choose
    <3>6. DiscoveredInv'
      BY <2>8, <3>0 DEF Choose
    <3>7. HidInv'
      BY <2>8, <3>0 DEF Choose
    <3>8. SelectedInv'
      BY <2>8, <3>0 DEF Choose, Choices
    <3>9. SteadyInv'
      BY <2>8 DEF Choose
    <3>10. QED
      BY <3>1, <3>2, <3>3, <3>4, <3>5, <3>6, <3>7, <3>8, <3>9 DEF IndInv
  <2>9. CASE CheckSelected(w)
    <3>1. TypeOK'
      BY <2>9 DEF CheckSelected
    <3>2. GuardInv'
      BY <2>9 DEF CheckSelected
    <3>3. LabelInv'
      BY <2>9 DEF CheckSelected
    <3>4. CloneInv'
      BY <2>9 DEF CheckSelected
    <3>5. VerifiedInv'
      BY <2>9 DEF CheckSelected
    <3>6. DiscoveredInv'
      BY <2>9 DEF CheckSelected
    <3>7. HidInv'
      BY <2>9 DEF CheckSelected, HidMatches
    <3>8. SelectedInv'
      BY <2>9 DEF CheckSelected
    <3>9. SteadyInv'
      BY <2>9 DEF CheckSelected
    <3>10. QED
      BY <3>1, <3>2, <3>3, <3>4, <3>5, <3>6, <3>7, <3>8, <3>9 DEF IndInv
  <2>10. CASE DropDiscovered(w)
    BY <2>10 DEF DropDiscovered
  <2>11. CASE TakeTarget(w)
    BY <2>11 DEF TakeTarget
  <2>12. CASE Connect(w)
    <3>1. TypeOK'
      <4>1. target[w] \in Targets
        BY <2>12 DEF Connect
      <4>2. attached[target[w].reader] \in Boards \cup {NoBoard}
        BY <4>1 DEF Targets
      <4>3. QED
        BY <2>12, <4>2 DEF Connect
    <3>2. GuardInv'
      BY <2>12 DEF Connect
    <3>3. LabelInv'
      BY <2>12 DEF Connect
    <3>4. CloneInv'
      BY <2>12 DEF Connect
    <3>5. VerifiedInv'
      BY <2>12 DEF Connect
    <3>6. DiscoveredInv'
      BY <2>12 DEF Connect
    <3>7. HidInv'
      BY <2>12 DEF Connect
    <3>8. SelectedInv'
      BY <2>12 DEF Connect
    <3>9. SteadyInv'
      BY <2>12 DEF Connect
    <3>10. QED
      BY <3>1, <3>2, <3>3, <3>4, <3>5, <3>6, <3>7, <3>8, <3>9 DEF IndInv
  <2>13. CASE Verify(w)
    BY <2>13 DEF Verify
  <2>14. CASE UnwrapSelected(w)
    BY <2>14 DEF UnwrapSelected
  <2>15. ASSUME NEW p \in Ports, FindHid(w, p) PROVE IndInv'
    <3>1. TypeOK'
      BY <2>15 DEF FindHid, HidMatches
    <3>2. GuardInv'
      BY <2>15 DEF FindHid, HidMatches
    <3>3. LabelInv'
      BY <2>15 DEF FindHid, HidMatches
    <3>4. CloneInv'
      BY <2>15 DEF FindHid, HidMatches
    <3>5. VerifiedInv'
      BY <2>15 DEF FindHid, HidMatches
    <3>6. DiscoveredInv'
      BY <2>15 DEF FindHid, HidMatches
    <3>7. HidInv'
      BY <2>15 DEF FindHid, HidMatches
    <3>8. SelectedInv'
      BY <2>15 DEF FindHid, HidMatches
    <3>9. SteadyInv'
      BY <2>15 DEF FindHid, HidMatches
    <3>10. QED
      BY <3>1, <3>2, <3>3, <3>4, <3>5, <3>6, <3>7, <3>8, <3>9 DEF IndInv
  <2>16. CASE OpenHid(w)
    <3>1. TypeOK'
      BY <2>16 DEF OpenHid, HidMatches
    <3>2. GuardInv'
      BY <2>16 DEF OpenHid, HidMatches
    <3>3. LabelInv'
      BY <2>16 DEF OpenHid, HidMatches
    <3>4. CloneInv'
      BY <2>16 DEF OpenHid, HidMatches
    <3>5. VerifiedInv'
      BY <2>16 DEF OpenHid, HidMatches
    <3>6. DiscoveredInv'
      BY <2>16 DEF OpenHid, HidMatches
    <3>7. HidInv'
      BY <2>16 DEF OpenHid, HidMatches
    <3>8. SelectedInv'
      BY <2>16 DEF OpenHid, HidMatches
    <3>9. SteadyInv'
      BY <2>16 DEF OpenHid, HidMatches
    <3>10. QED
      BY <3>1, <3>2, <3>3, <3>4, <3>5, <3>6, <3>7, <3>8, <3>9 DEF IndInv
  <2>17. CASE Close(w)
    BY <2>17 DEF Close
  <2>18. QED
    BY <1>4, <2>1, <2>2, <2>3, <2>4, <2>5, <2>6, <2>7, <2>8, <2>9, <2>10, <2>11, <2>12, <2>13, <2>14, <2>15, <2>16, <2>17 DEF Step
<1>5. CASE UNCHANGED vars
  <2>1. TypeOK'
    BY <1>5 DEF vars, HidMatches
  <2>2. GuardInv'
    BY <1>5 DEF vars, HidMatches
  <2>3. LabelInv'
    BY <1>5 DEF vars, HidMatches
  <2>4. CloneInv'
    BY <1>5 DEF vars, HidMatches
  <2>5. VerifiedInv'
    BY <1>5 DEF vars, HidMatches
  <2>6. DiscoveredInv'
    BY <1>5 DEF vars, HidMatches
  <2>7. HidInv'
    BY <1>5 DEF vars, HidMatches
  <2>8. SelectedInv'
    BY <1>5 DEF vars, HidMatches
  <2>9. SteadyInv'
    BY <1>5 DEF vars, HidMatches
  <2>10. QED
    BY <2>1, <2>2, <2>3, <2>4, <2>5, <2>6, <2>7, <2>8, <2>9 DEF IndInv
<1>6. QED
  BY <1>1, <1>2, <1>3, <1>4, <1>5 DEF Next
-----------------------------------------------------------------------------
(* What follows from it. *)

LEMMA IndInvAlways == Spec => []IndInv
  BY IndInvInit, IndInvNext, PTL DEF Spec

\* The statics and locals of src/hal/transport keep their types.
THEOREM Typing == Spec => []TypeOK
<1>1. IndInv => TypeOK
  BY DEF IndInv
<1>2. QED
  BY <1>1, IndInvAlways, PTL

\* Only the worker CARD_SESSION names owns a handle (pcsc.rs:19-30).
THEOREM ChannelIsExclusive == Spec => []ChannelExclusive
<1>1. IndInv => ChannelExclusive
  BY DEF IndInv, GuardInv, ChannelExclusive
<1>2. QED
  BY <1>1, IndInvAlways, PTL

\* A smart-card session serves the board that is selected, however discoveries
\* of other threads and hot-plugging interleave with it (pcsc.rs:79-94).
THEOREM SessionsAreBound == Spec => []SessionBound
<1>1. IndInv => SessionBound
  BY DEF IndInv, CloneInv, VerifiedInv, DiscoveredInv, SessionBound
<1>2. QED
  BY <1>1, IndInvAlways, PTL

\* The unwrap() of pcsc.rs:153 cannot panic.
THEOREM UnwrapIsSafe == Spec => []UnwrapSafe
<1>1. IndInv => UnwrapSafe
  BY DEF IndInv, CloneInv, UnwrapSafe
<1>2. QED
  BY <1>1, IndInvAlways, PTL

\* HID and smart-card channels reach one board when it is a Pico All
\* (fido.rs:188-199).
THEOREM HidIsPaired == Spec => []HidPaired
<1>1. IndInv => HidPaired
  <2> SUFFICES ASSUME IndInv, NEW w \in Workers,
                      InSession(w), op[w] = "hid_open", card[w] # NoBoard,
                      selected # NoTarget, selected.firmware = "PicoAll"
               PROVE FirmwareOf[card[w]] = "PicoAll" /\ Identity[card[w]] = selected.identity
    BY DEF HidPaired
  <2>1. Identity[card[w]] = selected.identity /\ card[w] \in Boards
    BY DEF IndInv, TypeOK, HidInv, HidMatches
  <2>2. PICK b \in Boards : selected.identity = Identity[b] /\ selected.firmware = FirmwareOf[b]
    BY DEF IndInv, SelectedInv
  <2>3. b = card[w]
    BY <2>1, <2>2, IdentityAssumption
  <2>4. QED
    BY <2>1, <2>2, <2>3
<1>2. QED
  BY <1>1, IndInvAlways, PTL

\* discover() never chooses one of two boards that are both there and
\* answering (pcsc.rs:105).
THEOREM NeverChoosesSilently == Spec => NeverSilentlyChoose
<1>1. IndInv /\ [Next]_vars =>
        [\A w \in Workers : Choose(w) =>
           \A b \in steady[w] : selected'.identity = Identity[b] /\ steady[w] = {b}]_vars
  <2> SUFFICES ASSUME IndInv, NEW w \in Workers, Choose(w), NEW b \in steady[w]
               PROVE selected'.identity = Identity[b] /\ steady[w] = {b}
    OBVIOUS
  <2>1. PICK c \in candidates[w] : candidates[w] = {c} /\ selected' = TargetOf(c)
    BY DEF Choose
  <2>2. \A a \in steady[w] : a = c.board
    BY <2>1 DEF Choose, IndInv, SteadyInv
  <2>3. QED
    BY <2>1, <2>2 DEF TargetOf
<1>2. QED
  BY <1>1, IndInvAlways, PTL DEF Spec, NeverSilentlyChoose

-----------------------------------------------------------------------------
(* The refinement. *)

Serves == [w \in Workers |-> IF InSession(w) /\ op[w] \in AppOps THEN target[w] ELSE NoTarget]

\* Every step of the transports is a step of DeviceChannel or none: the
\* promise holds for any number of threads, ports and boards.
THEOREM Refinement == Spec => ImplementsChannel
<1>1. Init => Channel!Init
  BY DEF Init, Channel!Init, InSession
<1>2. IndInv /\ IndInv' /\ [Next]_vars => [Channel!Next]_Channel!vars
  <2> SUFFICES ASSUME IndInv, IndInv', [Next]_vars
               PROVE Channel!Next \/ (cardSession' = cardSession /\ selected' = selected /\ Serves' = Serves)
    BY DEF Channel!vars, Serves
  <2> DEFINE Stutter == cardSession' = cardSession /\ selected' = selected /\ Serves' = Serves
  <2> USE DEF IndInv, TypeOK, Labels, Guarded, Ops, InSession
  <2>1. ASSUME NEW p \in Ports, NEW b \in Boards, PlugIn(p, b) PROVE Stutter
    BY <2>1 DEF PlugIn, Serves
  <2>2. ASSUME NEW p \in Ports, Pull(p) PROVE Stutter
    BY <2>2 DEF Pull, Serves
  <2>3. ASSUME NEW w \in Workers, NEW o \in Ops, Start(w, o) PROVE Stutter
    BY <2>3 DEF Start, Serves
  <2>4. ASSUME NEW w \in Workers, Step(w) PROVE Channel!Next \/ Stutter
    <3>1. CASE LockDevice(w)
      <4>1. Serves' = Serves
        BY <3>1, FirstStepGuarded DEF LockDevice, FirstStep, Serves, AppOps, DiscoverOps
      <4>2. Channel!Acquire(w)
        BY <3>1, <4>1 DEF LockDevice, Channel!Acquire, Serves
      <4>3. QED
        BY <4>2 DEF Channel!Next
    <3>2. CASE DeviceBusy(w)
      BY <3>2 DEF DeviceBusy, Serves
    <3>3. CASE DriverError(w) \/ RefuseCandidates(w) \/ DropDiscovered(w) \/ Close(w)
      <4>1. cardSession = w /\ cardSession' = Nobody /\ selected' = selected
        BY <3>3 DEF DriverError, RefuseCandidates, DropDiscovered, Close, GuardInv
      <4>2. Serves' = [Serves EXCEPT ![w] = NoTarget]
        BY <3>3 DEF DriverError, RefuseCandidates, DropDiscovered, Close, Serves
      <4>3. Channel!Release(w)
        BY <4>1, <4>2 DEF Channel!Release, Serves
      <4>4. QED
        BY <4>3 DEF Channel!Next
    <3>4. CASE ForgetSelected(w) \/ Choose(w)
      <4>1. cardSession = w /\ cardSession' = cardSession /\ op[w] \in DiscoverOps
        BY <3>4 DEF ForgetSelected, Choose, GuardInv, LabelInv
      <4>2. Serves' = Serves /\ Serves[w] = NoTarget
        BY <3>4, <4>1 DEF ForgetSelected, Choose, Serves, AppOps, DiscoverOps
      <4>3. Channel!Rechoose(w)
        BY <4>1, <4>2 DEF Channel!Rechoose, Serves
      <4>4. QED
        BY <4>3 DEF Channel!Next
    <3>5. CASE ListReaders(w) \/ CheckSelected(w) \/ TakeTarget(w) \/ Connect(w)
      BY <3>5 DEF ListReaders, CheckSelected, TakeTarget, Connect, Serves
    <3>6. ASSUME NEW p \in Ports, ScanReader(w, p) PROVE Stutter
      BY <3>6 DEF ScanReader, Serves
    <3>7. CASE (Verify(w) /\ op[w] # "open_with_aid") \/ UnwrapSelected(w)
      <4>1. /\ cardSession = w /\ cardSession' = cardSession /\ op[w] \in AppOps
            /\ selected # NoTarget /\ target[w] = selected /\ selected' = selected
        BY <3>7 DEF Verify, UnwrapSelected, GuardInv, LabelInv, CloneInv, AppOps
      <4>2. Serves' = [Serves EXCEPT ![w] = selected]
        BY <3>7, <4>1 DEF Verify, UnwrapSelected, Serves
      <4>3. Channel!Serve(w)
        BY <4>1, <4>2 DEF Channel!Serve, Serves
      <4>4. QED
        BY <4>3 DEF Channel!Next
    <3>8. CASE Verify(w) /\ op[w] = "open_with_aid"
      BY <3>8 DEF Verify, Serves
    <3>9. ASSUME NEW p \in Ports, FindHid(w, p) PROVE Stutter
      BY <3>9 DEF FindHid, Serves
    <3>10. CASE OpenHid(w)
      BY <3>10 DEF OpenHid, Serves, LabelInv, AppOps
    <3>11. QED
      BY <2>4, <3>1, <3>2, <3>3, <3>4, <3>5, <3>6, <3>7, <3>8, <3>9, <3>10 DEF Step
  <2>5. CASE UNCHANGED vars
    BY <2>5 DEF vars, Serves
  <2>6. QED
    BY <2>1, <2>2, <2>3, <2>4, <2>5 DEF Next
<1>3. QED
  BY <1>1, <1>2, IndInvAlways, PTL DEF Spec, Channel!Spec, ImplementsChannel
=============================================================================
