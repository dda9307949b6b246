------------------------------ MODULE PanelBase ------------------------------
(***************************************************************************)
(* Values and arithmetic every part of the program shares: the C integer   *)
(* widths, the word a SET_USAGE transfer carries, the scaling of a reading *)
(* by a channel's calibration and the reply of the panel to QUERY_CAP.     *)
(* Nothing here has state.                                                 *)
(***************************************************************************)
EXTENDS Integers

Byte == 0..255

(* The (uint8_t) conversion of the C code: the low eight bits.             *)
AsByte(n) == n % 256

(* The calibration written for a channel no configuration mentions.        *)
DefaultCalibration == 128

(* What the Calibration source reads, always: full scale.                  *)
data_source_calibration == 255

---------------------------------------------------------------------------

(* The value the main loop sends for a reading: 32-bit product, shifted    *)
(* right by eight, narrowed to a byte.                                     *)
Scaled(value, calibration) == AsByte((value * calibration) \div 256)

(* wValue of a SET_USAGE transfer: the channel in the high byte, the       *)
(* calibrated value in the low one; and how the panel takes it apart.      *)
UsageWord(channel, value) == channel * 256 + value
UsageChannel(word) == word \div 256
UsageValue(word) == AsByte(word)

(* The panel after a SET_USAGE transfer that was delivered or was not.     *)
(* panel maps each of its channels to the byte its needle shows.           *)
send_usage(panel, channel, value, delivered) ==
    LET word == UsageWord(channel, value)
    IN  IF delivered
        THEN [panel EXCEPT ![UsageChannel(word)] = UsageValue(word)]
        ELSE panel

---------------------------------------------------------------------------

(* A QUERY_CAP reply either carries the channel count itself, marked by    *)
(* the top bit, or (older panels) a bitmap of the channels.                *)
ReportsRawValue(reply) == reply \div 128 = 1
RawValue(reply) == reply % 128

(* Mutant: the flag is tested but not stripped from the count.             *)
ChannelCounts_FlagKept(reply) ==
    IF ReportsRawValue(reply) THEN {reply} ELSE IF reply % 2 = 0 THEN {0} ELSE {}

(* What get_channel_count makes of a reply: at most one count.  It does    *)
(* not return at all when the lowest bit of a bitmap is set, because       *)
(* "while (ret_val & 1) ++count" leaves ret_val as it is.                  *)
ChannelCounts(reply) ==
    IF ReportsRawValue(reply) THEN {RawValue(reply)}
    ELSE IF reply % 2 = 0 THEN {0} ELSE {}

=============================================================================
