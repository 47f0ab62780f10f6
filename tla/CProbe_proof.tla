---------------------------- MODULE CProbe_proof ----------------------------
(***************************************************************************)
(* Proofs about read_c_probe for any number of chains, devices, nodes,     *)
(* samples, faults and idle answers: locks and nodes are given back on     *)
(* every path, the scan passes over no node it could have wanted, and a    *)
(* sample is never saved from a stale buffer.                              *)
(***************************************************************************)
EXTENDS CProbe, TLAPS

CProbeType ==
    /\ at \in Places
    /\ holder \in [Chains -> {"free", "us", "other"}]
    /\ buffer \in (0 .. 255) \X (0 .. 255)
    /\ heard \in BOOLEAN /\ fresh \in BOOLEAN
    /\ saved \in Nat

\* what is left in the buffer once it was looked at, and when it was not filled again
StaleUseless ==
    /\ at \in {"get_hardware"} \cup Scanning => ~heard
    /\ at = "lock" /\ heard => Useless(buffer)
    /\ heard /\ ~fresh => Useless(buffer)

IInv == CProbeType /\ LocksReleased /\ OnlyFoundOpen /\ StaleUseless

\* The decoded buffer never passes for an answer.
LEMMA DecodedUseless ==
    ASSUME NEW b \in (0 .. 255) \X (0 .. 255)
    PROVE  /\ <<Decoded(b[1]), Decoded(b[2])>> \in (0 .. 255) \X (0 .. 255)
           /\ Useless(<<Decoded(b[1]), Decoded(b[2])>>)
  <1>1. \A x \in 0 .. 255 : Decoded(x) \in 0 .. 255 /\ ~IsHex(Decoded(x))
    BY DEF Decoded, IsHex
  <1>2. b[1] \in 0 .. 255 /\ b[2] \in 0 .. 255
    OBVIOUS
  <1> QED
    BY <1>1, <1>2 DEF Useless

LEMMA InitInv == Init => IInv
  <1> SUFFICES ASSUME Init
               PROVE  IInv
    OBVIOUS
  <1>1. buffer \in (0 .. 255) \X (0 .. 255)
    BY CProbeAssumption DEF CProbeAssumption, Init
  <1>2. CProbeType
    BY <1>1 DEF Init, CProbeType, Places
  <1>3. LocksReleased /\ OnlyFoundOpen /\ StaleUseless
    BY DEF Init, LocksReleased, OnlyFoundOpen, StaleUseless
  <1> QED
    BY <1>2, <1>3 DEF IInv

\* Unlocking frees a chain or leaves it among those refused, and disturbs no other.
LEMMA UnlockGives ==
    ASSUME NEW c, CProbeType, Unlock(c) \/ UnlockAfterFault(c)
    PROVE  /\ holder' \in [Chains -> {"free", "us", "other"}]
           /\ keptLocked \subseteq keptLocked'
           /\ \A d \in Chains : holder'[d] = "us" => holder[d] = "us" /\ (d = c => d \in keptLocked')
  <1>1. CASE holder' = [holder EXCEPT ![c] = IF @ = "us" THEN "free" ELSE @] /\ UNCHANGED keptLocked
    BY <1>1 DEF CProbeType
  <1>2. CASE keptLocked' = keptLocked \cup {c} /\ UNCHANGED holder
    BY <1>2 DEF CProbeType
  <1> QED
    BY <1>1, <1>2 DEF Unlock, UnlockAfterFault

\* The actions that give back no lock: the scan's first calls and the steps between calls.
LEMMA ScanCalls ==
    ASSUME IInv, GetHardware \/ NoNodeFound \/ LockChain \/ ReadDeviceChain \/ NextDevice
    PROVE  IInv'
  <1> USE DEF IInv, CProbeType, LocksReleased, OnlyFoundOpen, StaleUseless, MayHold, MayBeOpen,
              Scanning, LockedScan, LockedCommand, Commanding, Places, sample_vars, kept, Succeed,
              Fail, Return
  <1>1. CASE GetHardware
    BY <1>1 DEF GetHardware
  <1>2. CASE NoNodeFound
    BY <1>2 DEF NoNodeFound
  <1>3. CASE LockChain
    BY <1>3 DEF LockChain
  <1>4. CASE ReadDeviceChain
    BY <1>4 DEF ReadDeviceChain
  <1>5. CASE NextDevice
    BY <1>5 DEF NextDevice
  <1> QED
    BY <1>1, <1>2, <1>3, <1>4, <1>5

LEMMA GetNodesStep ==
    ASSUME IInv, GetNodes
    PROVE  IInv'
  <1> USE DEF IInv, CProbeType, LocksReleased, OnlyFoundOpen, StaleUseless, MayHold, MayBeOpen,
              Scanning, LockedScan, LockedCommand, Commanding, Places, sample_vars, GetNodes
  <1>1. CASE UnlockAfterFault(chain) /\ Return("BAD_NODEINFO")
    BY <1>1, UnlockGives DEF Return
  <1>2. CASE at' \in {"open_node", "unlock_chain"} /\ UNCHANGED <<holder, kept>>
    BY <1>2 DEF kept
  <1>3. \/ UnlockAfterFault(chain) /\ Return("BAD_NODEINFO")
        \/ at' \in {"open_node", "unlock_chain"} /\ UNCHANGED <<holder, kept>>
    BY DEF kept
  <1> HIDE DEF IInv
  <1> QED
    BY <1>1, <1>2, <1>3

LEMMA OpenNodeStep ==
    ASSUME IInv, OpenNode
    PROVE  IInv'
  <1> USE DEF IInv, CProbeType, LocksReleased, OnlyFoundOpen, StaleUseless, MayHold, MayBeOpen,
              Scanning, LockedScan, LockedCommand, Commanding, Places, sample_vars, OpenNode, here
  <1>1. CASE UnlockAfterFault(chain) /\ Return("BAD_NODES")
    BY <1>1, UnlockGives DEF Return
  <1>2. CASE at' \in {"open_node", "get_node_info"} /\ UNCHANGED <<holder, kept>>
    BY <1>2 DEF kept
  <1>3. \/ UnlockAfterFault(chain) /\ Return("BAD_NODES")
        \/ at' \in {"open_node", "get_node_info"} /\ UNCHANGED <<holder, kept>>
    BY DEF kept
  <1> HIDE DEF IInv
  <1> QED
    BY <1>1, <1>2, <1>3

LEMMA GetNodeInfoStep ==
    ASSUME IInv, GetNodeInfo
    PROVE  IInv'
  <1> USE DEF IInv, CProbeType, LocksReleased, OnlyFoundOpen, StaleUseless, MayHold, MayBeOpen,
              Scanning, LockedScan, LockedCommand, Commanding, Places, sample_vars, GetNodeInfo, here
  <1>1. CASE node' = here /\ UNCHANGED <<holder, kept, opened>> /\ at' = "unlock_found"
    BY <1>1 DEF kept
  <1>2. CASE CloseNode(here) /\ UNCHANGED <<holder, keptLocked>> /\ at' = "open_node"
    BY <1>2 DEF CloseNode
  <1>3. CASE CloseNode(here) /\ UnlockAfterFault(chain) /\ Return("BAD_NODEINFO")
    BY <1>3, UnlockGives DEF CloseNode, Return
  <1> QED
    BY <1>1, <1>2, <1>3

LEMMA UnlockSteps ==
    ASSUME IInv, UnlockFound \/ UnlockChain
    PROVE  IInv'
  <1> USE DEF IInv, CProbeType, LocksReleased, OnlyFoundOpen, StaleUseless, MayHold, MayBeOpen,
              Scanning, LockedScan, LockedCommand, Commanding, Places, sample_vars, Return
  <1>1. CASE UnlockFound
    BY <1>1, UnlockGives DEF UnlockFound
  <1>2. CASE UnlockChain
    BY <1>2, UnlockGives DEF UnlockChain
  <1> QED
    BY <1>1, <1>2

LEMMA CommandSteps ==
    ASSUME IInv, Command
    PROVE  IInv'
  <1> USE DEF IInv, CProbeType, LocksReleased, OnlyFoundOpen, StaleUseless, MayHold, MayBeOpen,
              Scanning, LockedScan, LockedCommand, Commanding, Places, scan_vars, Link, Leave
  <1>1. CASE Lock
    BY <1>1 DEF Lock, TakeLock, LockUntold, LockFails, kept
  <1>2. CASE AccessOverlay
    <2>1. CASE UNCHANGED <<holder, keptLocked>> /\ at' \in {"access_dr", "relock"}
      BY <1>2, <2>1 DEF AccessOverlay, sample_vars
    <2>2. CASE UnlockAfterFault(Link) /\ Leave
      BY <1>2, <2>2, UnlockGives DEF AccessOverlay, sample_vars
    <2> QED
      BY <1>2, <2>1, <2>2 DEF AccessOverlay
  <1>3. CASE Relock
    BY <1>3 DEF Relock, TakeLock, LockUntold, LockFails, kept, sample_vars
  <1>4. CASE AccessDr
    <2>1. CASE UnlockAfterFault(Link) /\ Leave /\ UNCHANGED <<buffer, fresh, heard, idles>>
      BY <1>4, <2>1, UnlockGives DEF AccessDr
    <2>2. CASE /\ UNCHANGED <<holder, keptLocked>>
               /\ fresh' = TRUE /\ heard' = TRUE /\ at' = "unlock"
               /\ \E answer \in ProbeBytes \X ProbeBytes : buffer' = answer
      <3>1. buffer' \in (0 .. 255) \X (0 .. 255)
        BY <2>2, CProbeAssumption DEF CProbeAssumption
      <3> QED
        BY <1>4, <2>2, <3>1 DEF AccessDr
    <2>3. \/ UnlockAfterFault(Link) /\ Leave /\ UNCHANGED <<buffer, fresh, heard, idles>>
          \/ /\ UNCHANGED <<holder, keptLocked>>
             /\ fresh' = TRUE /\ heard' = TRUE /\ at' = "unlock"
             /\ \E answer \in ProbeBytes \X ProbeBytes : buffer' = answer
      BY <1>4 DEF AccessDr
    <2> HIDE DEF IInv
    <2> QED
      BY <2>1, <2>2, <2>3
  <1>5. CASE CommandUnlock
    BY <1>5, UnlockGives DEF CommandUnlock, sample_vars
  <1> QED
    BY <1>1, <1>2, <1>3, <1>4, <1>5 DEF Command

LEMMA MainSteps ==
    ASSUME IInv, Main \/ OtherTakes \/ OtherReleases
    PROVE  IInv'
  <1> USE DEF IInv, CProbeType, LocksReleased, OnlyFoundOpen, StaleUseless, MayHold, MayBeOpen,
              Scanning, LockedScan, LockedCommand, Commanding, Places, scan_vars, Link
  <1>1. CASE Decode
    <2>1. buffer' \in (0 .. 255) \X (0 .. 255) /\ Useless(buffer')
      BY <1>1, DecodedUseless DEF Decode
    <2>2. at' = "lock" /\ saved' \in Nat /\ UNCHANGED <<fresh, heard, holder, opened, kept, node>>
      BY <1>1 DEF Decode
    <2> QED
      BY <1>1, <2>1, <2>2 DEF Decode, kept
  <1>2. CASE AllSaved
    BY <1>2 DEF AllSaved, kept, sample_vars
  <1>3. CASE Close
    BY <1>3 DEF Close, CloseNode, sample_vars
  <1>4. CASE OtherTakes
    <2>1. /\ holder' \in [Chains -> {"free", "us", "other"}]
          /\ \A d \in Chains : holder'[d] = "us" => holder[d] = "us"
      BY <1>4 DEF OtherTakes
    <2> QED
      BY <1>4, <2>1 DEF OtherTakes, kept, sample_vars, here
  <1>5. CASE OtherReleases
    <2>1. /\ holder' \in [Chains -> {"free", "us", "other"}]
          /\ \A d \in Chains : holder'[d] = "us" => holder[d] = "us"
      BY <1>5 DEF OtherReleases
    <2> QED
      BY <1>5, <2>1 DEF OtherReleases, kept, sample_vars, here
  <1> QED
    BY <1>1, <1>2, <1>3, <1>4, <1>5 DEF Main

LEMMA NextInv == IInv /\ [Next]_vars => IInv'
  <1> SUFFICES ASSUME IInv, [Next]_vars
               PROVE  IInv'
    OBVIOUS
  <1>1. CASE Scan
    BY <1>1, ScanCalls, GetNodesStep, OpenNodeStep, GetNodeInfoStep, UnlockSteps DEF Scan
  <1>2. CASE Command \/ Main \/ OtherTakes \/ OtherReleases
    BY <1>2, CommandSteps, MainSteps
  <1>3. CASE UNCHANGED vars
    BY <1>3 DEF vars, scan_vars, sample_vars, kept, IInv, CProbeType, LocksReleased, OnlyFoundOpen,
                StaleUseless, MayHold, MayBeOpen, Link, here
  <1> QED
    BY <1>1, <1>2, <1>3 DEF Next

-----------------------------------------------------------------------------
(* Whatever call of the library fails, the program holds a chain only      *)
(* inside the scan of that chain or inside a command, but for the chains   *)
(* whose unlocking was refused (jtag_init, jtag_command).                  *)
THEOREM LocksCorrect == Spec => []LocksReleased
  <1>1. IInv => LocksReleased
    BY DEF IInv
  <1> QED
    BY <1>1, InitInv, NextInv, PTL DEF Spec

(* Whatever call fails, no node but the one found stays open, but for the  *)
(* nodes whose closing was refused (jtag_init, main).                      *)
THEOREM OpenCorrect == Spec => []OnlyFoundOpen
  <1>1. IInv => OnlyFoundOpen
    BY DEF IInv
  <1> QED
    BY <1>1, InitInv, NextInv, PTL DEF Spec

(* A byte is saved only for an answer of the command just made, once the   *)
(* probe has answered at all: although main ignores failed commands, the   *)
(* buffer decoded in place never passes for a new answer.                  *)
THEOREM SampleCorrect == Spec => SampleGenuine
  <1>1. IInv /\ [Next]_vars => [saved' > saved => fresh \/ ~heard]_vars
    <2> SUFFICES ASSUME IInv, Next, saved' > saved
                 PROVE  fresh \/ ~heard
      OBVIOUS
    <2>1. CASE Decode
      BY <2>1 DEF Decode, IInv, CProbeType, StaleUseless
    <2>2. CASE UNCHANGED saved
      BY <2>2 DEF IInv, CProbeType
    <2>3. Decode \/ UNCHANGED saved
      BY DEF Next, Scan, Command, Main, GetHardware, NoNodeFound, LockChain, ReadDeviceChain,
             GetNodes, OpenNode, NextDevice, GetNodeInfo, UnlockFound, UnlockChain, Lock,
             AccessOverlay, Relock, AccessDr, CommandUnlock, AllSaved, Close, OtherTakes,
             OtherReleases, sample_vars
    <2> QED
      BY <2>1, <2>2, <2>3
  <1> QED
    BY <1>1, InitInv, NextInv, PTL DEF Spec, SampleGenuine

-----------------------------------------------------------------------------
\* the nodes that the scan has left behind
Behind(p) == CASE at \in {"lock_chain", "read_device_chain"} -> p[1] < chain
               [] at = "get_nodes" -> p[1] < chain \/ (p[1] = chain /\ p[2] < device)
               [] at \in {"open_node", "get_node_info", "unlock_found"} -> Before(p, here)
               [] at = "unlock_chain" -> p[1] <= chain
               [] OTHER -> FALSE

ScanType ==
    /\ at \in Places
    /\ chain \in Nat /\ device \in Nat /\ place \in Nat
    /\ matching \subseteq Nodes
    /\ at = "get_hardware" => chain = 1
    /\ at \in LockedScan => chain \in Chains

\* the scan left no wanted node behind that it could look at
ScanInv ==
    /\ ScanType
    /\ at \in {"get_hardware"} \cup Scanning => ret = "none"
    /\ \A p \in matching : Behind(p) => p \in passed
    /\ at = "unlock_found" => node \in matching /\ node = here
    /\ FirstWanted

LEMMA NodeParts ==
    ASSUME NEW p \in Nodes
    PROVE  /\ p = <<p[1], p[2], p[3]>>
           /\ p[1] \in Nat /\ p[2] \in Nat /\ p[3] \in Nat
           /\ 1 <= p[1] /\ p[1] <= ChainCount
           /\ 1 <= p[2] /\ p[2] <= DeviceCount
           /\ 1 <= p[3] /\ p[3] <= NodeCount
BY CProbeAssumption DEF CProbeAssumption, Nodes, Chains

LEMMA InitScanInv == Init => ScanInv
  <1> SUFFICES ASSUME Init
               PROVE  ScanInv
    OBVIOUS
  <1>1. ScanType
    BY DEF Init, ScanType, Places, Scanning, LockedScan
  <1>2. \A p \in matching : ~Behind(p)
    BY DEF Init, Behind
  <1> QED
    BY <1>1, <1>2 DEF Init, ScanInv, FirstWanted, Scanning

\* A step that leaves the scan alone, once it is over or because another client took it.
LEMMA ScanLeftAlone ==
    ASSUME ScanInv, UNCHANGED scan_vars,
           \/ at' = at
           \/ at \notin {"get_hardware"} \cup Scanning /\ at' \in Places \ ({"get_hardware"} \cup Scanning)
    PROVE  ScanInv'
  <1> USE DEF ScanInv, ScanType, scan_vars, FirstWanted, Behind, here, Before
  <1>1. CASE at' = at
    BY <1>1
  <1>2. CASE at \notin {"get_hardware"} \cup Scanning /\ at' \in Places \ ({"get_hardware"} \cup Scanning)
    BY <1>2 DEF Places, Scanning, LockedScan, Commanding
  <1> QED
    BY <1>1, <1>2

LEMMA ChainSteps ==
    ASSUME ScanInv, GetHardware \/ NoNodeFound \/ LockChain \/ ReadDeviceChain \/ UnlockChain
    PROVE  ScanInv'
  <1> USE DEF ScanInv, ScanType, FirstWanted, Behind, Places, Scanning, LockedScan, Commanding, Return
  <1>1. CASE GetHardware
    BY <1>1, NodeParts DEF GetHardware
  <1>2. CASE NoNodeFound
    BY <1>2, NodeParts, CProbeAssumption DEF NoNodeFound, CProbeAssumption
  <1>3. CASE LockChain
    BY <1>3, NodeParts DEF LockChain, OnChain, Chains
  <1>4. CASE ReadDeviceChain
    BY <1>4, NodeParts DEF ReadDeviceChain, OnChain
  <1>5. CASE UnlockChain
    BY <1>5, NodeParts DEF UnlockChain
  <1> QED
    BY <1>1, <1>2, <1>3, <1>4, <1>5

LEMMA DeviceSteps ==
    ASSUME ScanInv, GetNodes \/ OpenNode \/ NextDevice \/ GetNodeInfo \/ UnlockFound
    PROVE  ScanInv'
  <1> USE DEF ScanInv, ScanType, FirstWanted, Behind, Before, here, Places, Scanning, LockedScan,
              Commanding, Return
  <1>1. CASE GetNodes
    BY <1>1, NodeParts, CProbeAssumption DEF GetNodes, CProbeAssumption
  <1>2. CASE OpenNode
    BY <1>2, NodeParts, CProbeAssumption DEF OpenNode, CProbeAssumption, Chains
  <1>3. CASE NextDevice
    BY <1>3, NodeParts, CProbeAssumption DEF NextDevice, CProbeAssumption
  <1>4. CASE GetNodeInfo
    BY <1>4, NodeParts DEF GetNodeInfo
  <1>5. CASE UnlockFound
    BY <1>5, NodeParts DEF UnlockFound
  <1> QED
    BY <1>1, <1>2, <1>3, <1>4, <1>5

LEMMA NextScanInv == ScanInv /\ [Next]_vars => ScanInv'
  <1> SUFFICES ASSUME ScanInv, [Next]_vars
               PROVE  ScanInv'
    OBVIOUS
  <1>1. CASE Scan
    BY <1>1, ChainSteps, DeviceSteps DEF Scan
  <1>2. CASE Command \/ Main
    <2>1. UNCHANGED scan_vars
      BY <1>2 DEF Command, Main, Lock, AccessOverlay, Relock, AccessDr, CommandUnlock, Decode,
                  AllSaved, Close
    <2>2. at \notin {"get_hardware"} \cup Scanning /\ at' \in Places \ ({"get_hardware"} \cup Scanning)
      BY <1>2 DEF Command, Main, Lock, AccessOverlay, Relock, AccessDr, CommandUnlock, Decode,
                  AllSaved, Close, Leave, Places, Scanning, Commanding
    <2> QED
      BY <2>1, <2>2, ScanLeftAlone
  <1>3. CASE OtherTakes \/ OtherReleases \/ UNCHANGED vars
    <2>1. UNCHANGED scan_vars /\ at' = at
      BY <1>3 DEF OtherTakes, OtherReleases, vars
    <2> QED
      BY <2>1, ScanLeftAlone
  <1> QED
    BY <1>1, <1>2, <1>3 DEF Next

(* For any number of chains, devices and nodes, wherever the library fails *)
(* or a chain is taken: the node found is the first of those wanted that   *)
(* could be looked at, and none is missing that was seen (jtag_init).      *)
THEOREM FirstWantedCorrect == Spec => []FirstWanted
  <1>1. ScanInv => FirstWanted
    BY DEF ScanInv
  <1> QED
    BY <1>1, InitScanInv, NextScanInv, PTL DEF Spec
=============================================================================
