------------------------------ MODULE MCBuffers ------------------------------
(***************************************************************************)
(* The buffers on small instances, one of them at work in every behaviour: *)
(* the dual clock pointer protocol, ready_skid, rx_buffer_fifo_2,          *)
(* tx_buffer_fifo_8word, cdc_strobe, and the single clock FIFOs side by    *)
(* side.  The others stay as they are in reset.                    *)
(***************************************************************************)
EXTENDS DualClockFifo, StreamWords, Sequences

CONSTANTS MaxWords,         \* bound: words written to the dual clock FIFO between resets
          DEPTH, INIT_CNT,  \* of the single clock FIFOs
          StrobeInReset, MaxOwed

ASSUME BuffersAssumption ==
    /\ MaxWords \in Nat /\ DEPTH \in Nat \ {0, 1} /\ INIT_CNT \in 0..DEPTH
    /\ StrobeInReset \in BOOLEAN /\ MaxOwed \in Nat

VARIABLES
    unit,     \* the one at work
    skid_arst, ready_i, valid_o, dat_o, backup_valid, backup_storage, taken, skid_offered,
    rx_arst, rx_wr_ptr, rx_rd_ptr, rx_store, dout, dout_content_valid, overflow, rx_owed,
    tx_arst, wr_ptr, rd_ptr, store, rdmux, last_read_now, last_dout,
    din_ready, hungry, underflow, tx_offered, asked, due,
    strobe_arst, strb1_b, gc, gc_b, owed, paced, seen, torn,
    nrst, cnt1, data1, buf1, cnt2, data2, buf2, wp2, rp2, cnt3, wp3, rp3, mem3, out3,
    offered, just_read
dcfifoVars == vars
skidVars == <<skid_arst, ready_i, valid_o, dat_o, backup_valid, backup_storage, taken, skid_offered>>
rxVars == <<rx_arst, rx_wr_ptr, rx_rd_ptr, rx_store, dout, dout_content_valid, overflow, rx_owed>>
txVars == <<tx_arst, wr_ptr, rd_ptr, store, rdmux, last_read_now, last_dout,
            din_ready, hungry, underflow, tx_offered, asked, due>>
strobeVars == <<strobe_arst, strb1_b, gc, gc_b, owed, paced, seen, torn>>
fifosVars == <<nrst, cnt1, data1, buf1, cnt2, data2, buf2, wp2, rp2, cnt3, wp3, rp3, mem3, out3,
               offered, just_read>>
allVars == <<unit, dcfifoVars, skidVars, rxVars, txVars, strobeVars, fifosVars>>

Skid == INSTANCE ReadySkid WITH arst <- skid_arst, offered <- skid_offered
Rx == INSTANCE RxBuffer WITH arst <- rx_arst, wr_ptr <- rx_wr_ptr, rd_ptr <- rx_rd_ptr,
        store <- rx_store, owed <- rx_owed
Tx == INSTANCE TxBuffer WITH arst <- tx_arst, offered <- tx_offered
Strobe == INSTANCE CdcStrobe WITH arst <- strobe_arst
Fifos == INSTANCE FifoFamily

AllInit == /\ unit \in {"dcfifo", "skid", "rx", "tx", "strobe", "fifos"}
           /\ Init /\ (unit # "dcfifo" => arst)
           /\ Skid!Init /\ Rx!Init /\ Tx!Init /\ Strobe!Init /\ Fifos!Init

FewWords == wr <= MaxWords
SkidStep(action) == unit = "skid" /\ action
                    /\ UNCHANGED <<unit, dcfifoVars, rxVars, txVars, strobeVars, fifosVars>>
RxStep(action) == unit = "rx" /\ action
                  /\ UNCHANGED <<unit, dcfifoVars, skidVars, txVars, strobeVars, fifosVars>>
StrobeStep(action) == unit = "strobe" /\ action
                      /\ UNCHANGED <<unit, dcfifoVars, skidVars, rxVars, txVars, fifosVars>>
AllNext ==
    \/ SkidStep(Skid!Next) \/ RxStep(Rx!Next) \/ StrobeStep(Strobe!Next)
    \/ /\ unit = "dcfifo" /\ Next
       /\ UNCHANGED <<unit, skidVars, rxVars, txVars, strobeVars, fifosVars>>
    \/ /\ unit = "tx" /\ Tx!Next
       /\ UNCHANGED <<unit, dcfifoVars, skidVars, rxVars, strobeVars, fifosVars>>
    \/ /\ unit = "fifos" /\ Fifos!Edge
       /\ UNCHANGED <<unit, dcfifoVars, skidVars, rxVars, txVars, strobeVars>>

(* The fairness that ReadySkid, RxBuffer and CdcStrobe state, of the unit  *)
(* at work: the clocks run, resets end, and the sink lets go.              *)
AllSpec ==
    /\ AllInit /\ [][AllNext]_allVars
    /\ WF_allVars(SkidStep(Skid!ReleaseArst)) /\ WF_allVars(SkidStep(Skid!Edge(TRUE)))
    /\ WF_allVars(RxStep(Rx!ReleaseArst))
    /\ \/ []<>~(unit = "rx" /\ ENABLED <<Rx!Edge(FALSE, Zero, FALSE)>>_rxVars)
       \/ []<><<Rx!Released>>_rxVars
    /\ \/ []<>~(unit = "strobe" /\ ENABLED <<Strobe!Clk2Quiet>>_strobeVars)
       \/ []<><<Strobe!Clk2Edge \/ Strobe!BothEdges>>_strobeVars
------------------------------------------------------------------------------
(* ready_skid is a queue of two words under any stalls; Skid!Inv, which    *)
(* TLAPS proves as well, says why.                                         *)
RefinesQueue == Skid!RefinesQueue

(* The transmit buffer and the single clock FIFOs are queues of eight and  *)
(* of DEPTH words.                                                         *)
QueuesKept == Tx!RefinesQueue /\ Fifos!RefinesQueue

(* The late ready of the transmit buffer never lets a write meet full      *)
(* stores, and every request is answered, or reported as an underflow.     *)
TxReady == Tx!TypeOK /\ Tx!ReadyHasRoom /\ Tx!AnswerOrUnderflow

(* The receive buffer loses a word exactly when it raises overflow.        *)
LossIffOverflow == Rx!TypeOK /\ Rx!LossIffOverflow /\ Rx!OutputFirst

(* cdc_strobe loses no paced event and makes no strobe out of nothing, but *)
(* for the torn one that the last edge in reset may leave in its stages.   *)
NoEventLost == Strobe!TypeOK /\ Strobe!NoEventLost /\ Strobe!NoSpuriousStrobe

(* The single clock FIFOs, started empty, look alike from outside.         *)
SameView == Fifos!TypeOK /\ Fifos!OperateIdentically /\ Fifos!RamSameView

(* Nobody waits for ever: a source for a sink that lets go, a word in a    *)
(* store, an event for the other clock.                                    *)
Served == /\ Skid!SourceServed /\ Skid!BackupDrains
          /\ Rx!StoresMove
          /\ Strobe!EventShown
=============================================================================
