------------------------------- MODULE CProbe -------------------------------
(***************************************************************************)
(* debug/read_c_probe.cpp: a program that looks for its probe among the    *)
(* nodes of all JTAG chains (jtag_init), reads two ascii characters at a   *)
(* time from it (jtag_command) and saves them as one byte (main).  Every   *)
(* call of the JTAG library may fail; the chains are shared with another   *)
(* client.  A step is one library call with the code up to the next one.   *)
(***************************************************************************)
EXTENDS Naturals, FiniteSets

CONSTANTS ChainCount, DeviceCount, NodeCount,   \* what the scan sees
          required_bytes,                       \* samples to save
          ProbeBytes,                           \* bytes the probe may answer with
          Faults, Idles                         \* bounds: failing calls, answers that save nothing

ASSUME CProbeAssumption ==
    /\ ChainCount \in Nat /\ DeviceCount \in Nat /\ NodeCount \in Nat
    /\ required_bytes \in Nat
    /\ ProbeBytes \subseteq 0 .. 255
    /\ Faults \in Nat /\ Idles \in Nat

Chains == 1 .. ChainCount
Nodes == Chains \X (1 .. DeviceCount) \X (1 .. NodeCount)

VARIABLES at,                  \* the library call that comes next
          chain, device, place,         \* i, j, k of the scan, from 1
          matching,            \* nodes with the preferred manufacturer, node id and instance
          passed,              \* nodes the scan could not look at
          holder,              \* of each chain: "free", "us" or "other"
          opened,              \* nodes that are open
          node,                \* the node found
          ret,                 \* what jtag_init returned
          keptLocked, keptOpen,         \* chains and nodes the library refused to unlock, to close
          buffer, fresh, heard,         \* last answer; of this command; whether there was one
          saved, faults, idles

scan_vars == <<chain, device, place, matching, passed, node, ret>>
sample_vars == <<buffer, fresh, heard, saved, idles>>
kept == <<keptLocked, keptOpen>>
vars == <<at, scan_vars, holder, opened, kept, sample_vars, faults>>

Scanning == {"lock_chain", "read_device_chain", "get_nodes", "open_node", "get_node_info",
             "unlock_found", "unlock_chain"}
LockedScan == Scanning \ {"lock_chain"}
Commanding == {"lock", "access_overlay", "relock", "access_dr", "unlock", "decode"}
LockedCommand == Commanding \ {"lock", "decode"}
Places == {"get_hardware", "close", "ended"} \cup Scanning \cup Commanding

here == <<chain, device, place>>
Fail == faults < Faults /\ faults' = faults + 1
Succeed == UNCHANGED faults

\* aji_unlock_chain, aji_unlock: it frees the chain, or is refused and the chain stays locked
Unlock(c) ==
    \/ /\ Succeed
       /\ holder' = [holder EXCEPT ![c] = IF @ = "us" THEN "free" ELSE @]
       /\ UNCHANGED keptLocked
    \/ /\ Fail
       /\ keptLocked' = keptLocked \cup {c}
       /\ UNCHANGED holder

\* Mutant: the way out of an error does not unlock
UnlockAfterFaultNot(c) == Fail /\ UNCHANGED <<holder, keptLocked>>

\* the same on the way out of an error, which is itself a fault
UnlockAfterFault(c) ==
    \/ /\ Fail
       /\ holder' = [holder EXCEPT ![c] = IF @ = "us" THEN "free" ELSE @]
       /\ UNCHANGED keptLocked
    \/ /\ Fail
       /\ keptLocked' = keptLocked \cup {c}
       /\ UNCHANGED holder

\* Mutant: the node is not closed
CloseNodeNot(p) == UNCHANGED <<opened, keptOpen>>

\* aji_close_device
CloseNode(p) ==
    \/ opened' = opened \ {p} /\ UNCHANGED keptOpen
    \/ keptOpen' = keptOpen \cup {p} /\ UNCHANGED opened

Return(code) == at' = "ended" /\ ret' = code

-----------------------------------------------------------------------------
(* jtag_init                                                               *)
Init ==
    /\ at = "get_hardware"
    /\ chain = 1 /\ device = 1 /\ place = 1
    /\ matching \in SUBSET Nodes
    /\ passed = {}
    /\ holder = [c \in Chains |-> "free"]
    /\ opened = {} /\ node = <<0, 0, 0>> /\ ret = "none" /\ keptLocked = {} /\ keptOpen = {}
    \* the buffer of main has no initial value
    /\ buffer \in ProbeBytes \X ProbeBytes
    /\ fresh = FALSE /\ heard = FALSE /\ saved = 0 /\ faults = 0 /\ idles = 0

GetHardware ==
    /\ at = "get_hardware"
    /\ \/ Succeed /\ at' = "lock_chain" /\ UNCHANGED ret
       \/ Fail /\ Return("BAD_HARDWARE")
    /\ UNCHANGED <<chain, device, place, matching, passed, node, holder, opened, kept, sample_vars>>

NoNodeFound ==
    /\ at = "lock_chain" /\ chain > ChainCount
    /\ Return("BAD_NODES")
    /\ UNCHANGED <<chain, device, place, matching, passed, node, holder, opened, kept, sample_vars,
                   faults>>

OnChain(c) == {m \in Nodes : m[1] = c}

\* a chain that cannot be locked in time is passed over
LockChain ==
    /\ at = "lock_chain" /\ chain \in Chains
    /\ \/ /\ Succeed
          /\ holder[chain] = "free"
          /\ holder' = [holder EXCEPT ![chain] = "us"]
          /\ at' = "read_device_chain"
          /\ UNCHANGED <<chain, passed>>
       \/ /\ Fail
          /\ chain' = chain + 1
          /\ passed' = passed \cup OnChain(chain)
          /\ UNCHANGED <<at, holder>>
    /\ UNCHANGED <<device, place, matching, node, ret, opened, kept, sample_vars>>

\* Mutant: the devices of a chain are counted on from those of the last
ReadDeviceChainOn ==
    /\ at = "read_device_chain"
    /\ \/ Succeed /\ at' = "get_nodes" /\ UNCHANGED passed
       \/ Fail /\ at' = "unlock_chain" /\ passed' = passed \cup OnChain(chain)
    /\ UNCHANGED <<chain, device, place, matching, node, ret, holder, opened, kept, sample_vars>>

ReadDeviceChain ==
    /\ at = "read_device_chain"
    /\ \/ /\ Succeed
          /\ at' = "get_nodes" /\ device' = 1
          /\ UNCHANGED passed
       \/ /\ Fail
          /\ at' = "unlock_chain"
          /\ passed' = passed \cup OnChain(chain)
          /\ UNCHANGED device
    /\ UNCHANGED <<chain, place, matching, node, ret, holder, opened, kept, sample_vars>>

GetNodes ==
    /\ at = "get_nodes"
    /\ \/ /\ device <= DeviceCount
          /\ Succeed
          /\ at' = "open_node" /\ place' = 1
          /\ UNCHANGED <<ret, holder, kept>>
       \/ /\ device <= DeviceCount
          /\ UnlockAfterFault(chain)
          /\ Return("BAD_NODEINFO")
          /\ UNCHANGED <<place, keptOpen>>
       \/ /\ device > DeviceCount
          /\ Succeed
          /\ at' = "unlock_chain"
          /\ UNCHANGED <<place, ret, holder, kept>>
    /\ UNCHANGED <<chain, device, matching, passed, node, opened, sample_vars>>

\* a node that another application claims is passed over
OpenNode ==
    /\ at = "open_node" /\ place <= NodeCount
    /\ \/ /\ Succeed
          /\ opened' = opened \cup {here}
          /\ at' = "get_node_info"
          /\ UNCHANGED <<place, passed, ret, holder, kept>>
       \/ /\ Fail
          /\ place' = place + 1
          /\ passed' = passed \cup {here}
          /\ UNCHANGED <<at, opened, ret, holder, kept>>
       \/ /\ UnlockAfterFault(chain)
          /\ Return("BAD_NODES")
          /\ UNCHANGED <<place, passed, opened, keptOpen>>
    /\ UNCHANGED <<chain, device, matching, node, sample_vars>>

NextDevice ==
    /\ at = "open_node" /\ place > NodeCount
    /\ at' = "get_nodes" /\ device' = device + 1
    /\ UNCHANGED <<chain, place, matching, passed, node, ret, holder, opened, kept, sample_vars,
                   faults>>

GetNodeInfo ==
    /\ at = "get_node_info"
    /\ \/ /\ here \in matching
          /\ Succeed
          /\ node' = here
          /\ at' = "unlock_found"
          /\ UNCHANGED <<place, opened, ret, holder, kept>>
       \/ /\ here \notin matching           \* closed again, and the search goes on
          /\ CloseNode(here)
          /\ Succeed
          /\ at' = "open_node" /\ place' = place + 1
          /\ UNCHANGED <<node, ret, holder, keptLocked>>
       \/ /\ CloseNode(here)                \* no information: close, unlock, give up
          /\ UnlockAfterFault(chain)
          /\ Return("BAD_NODEINFO")
          /\ UNCHANGED <<place, node>>
    /\ UNCHANGED <<chain, device, matching, passed, sample_vars>>

UnlockFound ==
    /\ at = "unlock_found"
    /\ Unlock(chain)
    /\ IF chain \in keptLocked' THEN Return("BAD_NODEUNLOCK") ELSE at' = "lock" /\ ret' = "found"
    /\ UNCHANGED <<chain, device, place, matching, passed, node, opened, keptOpen, sample_vars>>

UnlockChain ==
    /\ at = "unlock_chain"
    /\ Unlock(chain)
    /\ IF chain \in keptLocked' THEN Return("BAD_NODEUNLOCK") /\ UNCHANGED chain
       ELSE at' = "lock_chain" /\ chain' = chain + 1 /\ UNCHANGED ret
    /\ UNCHANGED <<device, place, matching, passed, node, opened, keptOpen, sample_vars>>

-----------------------------------------------------------------------------
(* jtag_command on the node found; main drops what it returns.             *)
Link == node[1]
Leave == at' = "decode"

\* aji_lock: the chain is taken, or the call succeeds although another client has it, which the
\* next access tells, or it fails
TakeLock == Succeed /\ holder[Link] # "other" /\ holder' = [holder EXCEPT ![Link] = "us"]
LockUntold == Succeed /\ holder[Link] = "other" /\ UNCHANGED holder
LockFails == Fail /\ UNCHANGED holder

Lock ==
    /\ at = "lock" /\ saved < required_bytes
    /\ fresh' = FALSE
    /\ \/ (TakeLock \/ LockUntold) /\ at' = "access_overlay"
       \/ LockFails /\ Leave
    /\ UNCHANGED <<scan_vars, opened, kept, buffer, heard, saved, idles>>

\* only a chain in use is tried again
AccessOverlay ==
    /\ at = "access_overlay"
    /\ \/ /\ holder[Link] = "us" /\ Succeed
          /\ at' = "access_dr" /\ UNCHANGED <<holder, keptLocked>>
       \/ /\ holder[Link] # "us" /\ Succeed
          /\ at' = "relock" /\ UNCHANGED <<holder, keptLocked>>
       \/ UnlockAfterFault(Link) /\ Leave
    /\ UNCHANGED <<scan_vars, opened, keptOpen, sample_vars>>

\* Mutant: the access is tried again without a new lock
RelockNot ==
    /\ at = "relock"
    /\ at' = "access_overlay"
    /\ UNCHANGED <<scan_vars, holder, opened, kept, sample_vars, faults>>

Relock ==
    /\ at = "relock"
    /\ TakeLock \/ LockUntold \/ LockFails
    /\ at' = "access_overlay"
    /\ UNCHANGED <<scan_vars, opened, kept, sample_vars>>

IsHex(b) == b \in 48 .. 57 \/ b \in 65 .. 70 \/ b \in 97 .. 102
\* an answer that saves nothing: two zeros, or a character that is no digit
Useless(answer) == ~(IsHex(answer[1]) /\ IsHex(answer[2]))

AccessDr ==
    /\ at = "access_dr"
    /\ \/ /\ Succeed
          /\ \E answer \in ProbeBytes \X ProbeBytes :
                /\ Useless(answer) => idles < Idles
                /\ idles' = IF Useless(answer) THEN idles + 1 ELSE idles
                /\ buffer' = answer
          /\ fresh' = TRUE /\ heard' = TRUE
          /\ at' = "unlock"
          /\ UNCHANGED <<holder, keptLocked>>
       \/ /\ UnlockAfterFault(Link) /\ Leave
          /\ UNCHANGED <<buffer, fresh, heard, idles>>
    /\ UNCHANGED <<scan_vars, opened, keptOpen, saved>>

CommandUnlock ==
    /\ at = "unlock"
    /\ Unlock(Link) /\ Leave
    /\ UNCHANGED <<scan_vars, opened, keptOpen, sample_vars>>

-----------------------------------------------------------------------------
(* main: what it makes of the buffer.                                      *)
\* Mutant: the characters are not decoded in the buffer itself
DecodedApart(b) == b

Decoded(b) == IF b \in 65 .. 70 THEN b - 55
              ELSE IF b \in 97 .. 102 THEN b - 87
              ELSE IF b \in 48 .. 57 THEN b - 48
              ELSE b

Decode ==
    /\ at = "decode"
    /\ at' = "lock"
    /\ buffer' = <<Decoded(buffer[1]), Decoded(buffer[2])>>
    /\ saved' = IF Useless(buffer) THEN saved ELSE saved + 1
    /\ UNCHANGED <<scan_vars, holder, opened, kept, fresh, heard, idles, faults>>

AllSaved ==
    /\ at = "lock" /\ saved = required_bytes
    /\ at' = "close"
    /\ UNCHANGED <<scan_vars, holder, opened, kept, sample_vars, faults>>

Close ==
    /\ at = "close"
    /\ CloseNode(node)
    /\ at' = "ended"
    /\ UNCHANGED <<scan_vars, holder, keptLocked, sample_vars, faults>>

OtherTakes ==
    /\ at # "ended"
    /\ \E c \in Chains : holder[c] = "free" /\ holder' = [holder EXCEPT ![c] = "other"]
    /\ UNCHANGED <<at, scan_vars, opened, kept, sample_vars, faults>>

OtherReleases ==
    /\ \E c \in Chains : holder[c] = "other" /\ holder' = [holder EXCEPT ![c] = "free"]
    /\ UNCHANGED <<at, scan_vars, opened, kept, sample_vars, faults>>

Scan == \/ GetHardware \/ NoNodeFound \/ LockChain \/ ReadDeviceChain \/ GetNodes \/ OpenNode
        \/ NextDevice \/ GetNodeInfo \/ UnlockFound \/ UnlockChain
Command == Lock \/ AccessOverlay \/ Relock \/ AccessDr \/ CommandUnlock
Main == Decode \/ AllSaved \/ Close

Next == Scan \/ Command \/ Main \/ OtherTakes \/ OtherReleases

Spec == Init /\ [][Next]_vars

\* the program runs on, and no other client keeps a chain for ever
Fairness == WF_vars(Scan \/ Command \/ Main) /\ WF_vars(OtherReleases)

FairSpec == Spec /\ Fairness

-----------------------------------------------------------------------------
TypeOK ==
    /\ at \in Places
    /\ chain \in Nat /\ device \in Nat /\ place \in Nat
    /\ matching \subseteq Nodes /\ passed \subseteq Nodes /\ opened \subseteq Nodes
    /\ holder \in [Chains -> {"free", "us", "other"}]
    /\ buffer \in (0 .. 255) \X (0 .. 255)
    /\ saved \in Nat /\ faults \in Nat /\ idles \in Nat

(* The program holds a chain only while it scans that chain or while a     *)
(* command is on its way, whichever call failed before; the exceptions are *)
(* the chains whose unlocking the library refused.                         *)
MayHold == CASE at \in LockedScan -> {chain}
             [] at \in LockedCommand -> {Link}
             [] OTHER -> {}

LocksReleased == \A c \in Chains : holder[c] = "us" => c \in MayHold \cup keptLocked

(* Of the nodes it looks at, only the one it found stays open, and one     *)
(* whose closing the library refused; after the end not even that one,     *)
(* unless jtag_init failed to unlock its chain (jtag_init returns without  *)
(* closing it then).                                                       *)
MayBeOpen == CASE at = "get_node_info" -> {here}
               [] at \in {"unlock_found", "close"} \cup Commanding -> {node}
               [] at = "ended" /\ ret = "BAD_NODEUNLOCK" -> {node}
               [] OTHER -> {}

OnlyFoundOpen == opened \subseteq MayBeOpen \cup keptOpen

(* The node found is the first of those wanted that the scan could look at *)
(* and none is reported missing that was seen.                             *)
Before(p, q) == \/ p[1] < q[1]
                \/ p[1] = q[1] /\ p[2] < q[2]
                \/ p[1] = q[1] /\ p[2] = q[2] /\ p[3] < q[3]

FirstWanted ==
    /\ ret = "found" => /\ node \in matching
                        /\ \A p \in matching : Before(p, node) => p \in passed
    /\ ret = "BAD_NODES" /\ chain > ChainCount => matching \subseteq passed

(* From the first answer of the probe on, a byte is saved only for an      *)
(* answer of the command just made: main ignores that a command failed,    *)
(* and what is left in the buffer must never pass for a new sample.        *)
SampleGenuine == [][saved' > saved => fresh \/ ~heard]_vars

(* Once the node is found, the file gets all its samples and the program    *)
(* ends: the retries of jtag_command come to an end, if the faults (bounded *)
(* by Faults), the useless answers (Idles) and the other client's accesses *)
(* do.                                                                     *)
Completes ==
    <>[][~OtherTakes]_vars =>
        ((ret = "found") ~> (saved = required_bytes /\ at = "ended"))
=============================================================================
