----------------------------- MODULE ChannelQuery -----------------------------
(***************************************************************************)
(* get_channel_count, statement by statement: the QUERY_CAP transfer, the  *)
(* test of the top bit and the loop "while (ret_val & 1) ++count" for the  *)
(* bitmap of older panels.  The other modules use its summary,             *)
(* ChannelCounts of PanelBase; this one checks the summary.                *)
(***************************************************************************)
EXTENDS PanelBase

CONSTANTS Replies       \* the bytes the panel may answer

ASSUME RepliesAreBytes == Replies \subseteq Byte

VARIABLES
    pc,
    reply,      \* the panel's answer
    status,     \* of the transfer
    ret_val,
    count       \* the loop's local, a uint8_t

vars == <<pc, reply, status, ret_val, count>>

Init ==
    /\ pc = "transfer"
    /\ reply \in Replies
    /\ status = "STATUS_SUCCESS"
    /\ ret_val = 0
    /\ count = 0

(* A transfer that fails leaves ret_val at its initial 0.                  *)
transfer_control ==
    /\ pc = "transfer"
    /\ pc' = "test"
    /\ \/ status' = "STATUS_SUCCESS" /\ ret_val' = reply
       \/ status' = "STATUS_DEVICE_CONFIGURATION_FAILED" /\ ret_val' = ret_val
    /\ UNCHANGED <<reply, count>>

StripFlag ==
    /\ pc = "test"
    /\ ReportsRawValue(ret_val)
    /\ ret_val' = RawValue(ret_val)
    /\ pc' = "report"
    /\ UNCHANGED <<reply, status, count>>

EnterLoop ==
    /\ pc = "test"
    /\ ~ReportsRawValue(ret_val)
    /\ pc' = "loop"
    /\ UNCHANGED <<reply, status, ret_val, count>>

CountChannel ==
    /\ pc = "loop"
    /\ ret_val % 2 = 1
    /\ count' = AsByte(count + 1)
    /\ UNCHANGED <<pc, reply, status, ret_val>>

(* Mutant: the bitmap itself is taken for the count.                       *)
LeaveLoop_KeepsBitmap ==
    /\ pc = "loop"
    /\ ret_val % 2 = 0
    /\ pc' = "report"
    /\ UNCHANGED <<reply, status, ret_val, count>>

LeaveLoop ==
    /\ pc = "loop"
    /\ ret_val % 2 = 0
    /\ ret_val' = count
    /\ pc' = "report"
    /\ UNCHANGED <<reply, status, count>>

Report ==
    /\ pc = "report"
    /\ ret_val' = IF status = "STATUS_SUCCESS" THEN ret_val ELSE 0
    /\ pc' = "done"
    /\ UNCHANGED <<reply, status, count>>

QueryStep ==
    transfer_control \/ StripFlag \/ EnterLoop \/ CountChannel \/ LeaveLoop \/ Report

Next ==
    \/ QueryStep
    \/ (pc = "done" /\ UNCHANGED vars)

(* One thread runs the function; nothing it does can be held up: the       *)
(* transfer itself ends, by its timeout at the latest.                     *)
Spec == Init /\ [][Next]_vars /\ WF_vars(Next)

---------------------------------------------------------------------------

(* What get_channel_count returns is what ChannelCounts says of the reply, *)
(* and no channels at all when the transfer failed.                        *)
ReturnsChannelCount ==
    pc = "done" =>
        \/ status = "STATUS_SUCCESS" /\ ret_val \in ChannelCounts(reply)
        \/ status # "STATUS_SUCCESS" /\ ret_val = 0

(* The query returns, for old panels and new ones: the bitmap is handled   *)
(* "for backward compatibility".  It does not for a bitmap with bit 0.     *)
QueryReturns == <>(pc = "done")

=============================================================================
