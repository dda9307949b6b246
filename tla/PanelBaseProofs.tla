--------------------------- MODULE PanelBaseProofs ---------------------------
(***************************************************************************)
(* What the arithmetic of PanelBase does, for every byte: the narrowing    *)
(* conversion, the scaling of a reading by a calibration, the word of a    *)
(* SET_USAGE transfer and the count in a QUERY_CAP reply.  Everything the  *)
(* proofs about the components need of them is here.                       *)
(***************************************************************************)
EXTENDS PanelBase, TLAPS

(* Rounding down, without \div: the form the provers can multiply.         *)
LEMMA DivFacts ==
    ASSUME NEW a \in Nat, NEW b \in Nat \ {0}
    PROVE  /\ a \div b \in Nat
           /\ b * (a \div b) <= a
           /\ a < b * (a \div b) + b
BY SMT

LEMMA TimesMonotone ==
    ASSUME NEW a \in Int, NEW b \in Int, NEW c \in Nat, a <= b
    PROVE  a * c <= b * c
BY SMT

LEMMA TimesByteBound ==
    ASSUME NEW a \in Nat, NEW b \in Nat, NEW c \in Byte, a <= b
    PROVE  a * c <= 255 * b
BY SMT DEF Byte

(* The conversion to uint8_t gives a byte, and keeps one.                  *)
LEMMA AsByteIsByte == \A n \in Int : AsByte(n) \in Byte
BY DEF AsByte, Byte

LEMMA AsByteKeepsBytes == \A v \in Byte : AsByte(v) = v
BY DEF AsByte, Byte

---------------------------------------------------------------------------
(* Scaling                                                                 *)

(* The value sent for a reading is the reading's share of the calibration, *)
(* rounded down, and a byte: the conversion to uint8_t in the main loop    *)
(* never cuts anything off.                                                *)
THEOREM ScaledIsTheShare ==
    ASSUME NEW v \in Byte, NEW cal \in Byte
    PROVE  /\ Scaled(v, cal) \in Byte
           /\ 256 * Scaled(v, cal) <= v * cal
           /\ v * cal < 256 * Scaled(v, cal) + 256
<1> DEFINE q == (v * cal) \div 256
<1>1. v * cal \in Nat /\ v * cal <= 65025
    <2>1. v * cal <= 255 * 255
        BY TimesByteBound DEF Byte
    <2> QED
        BY <2>1, SMT DEF Byte
<1>2. q \in Nat /\ 256 * q <= v * cal /\ v * cal < 256 * q + 256
    BY <1>1, DivFacts
<1>3. q \in Byte
    BY <1>1, <1>2, SMT DEF Byte
<1>4. Scaled(v, cal) = q
    BY <1>3, SMT DEF Scaled, AsByte, Byte
<1> QED
    BY <1>2, <1>3, <1>4

(* So it is never above the calibration, nor above the reading, and below  *)
(* both unless it is zero: full scale itself is one step short.            *)
LEMMA ScaledWithin ==
    ASSUME NEW v \in Byte, NEW cal \in Byte
    PROVE  /\ Scaled(v, cal) \in Byte
           /\ Scaled(v, cal) <= cal /\ (cal > 0 => Scaled(v, cal) < cal)
           /\ Scaled(v, cal) <= v /\ (v > 0 => Scaled(v, cal) < v)
<1> DEFINE q == Scaled(v, cal)
           p == v * cal
<1>1. v \in Nat /\ cal \in Nat /\ v <= 255 /\ cal <= 255
    BY SMT DEF Byte
<1>2. q \in Byte /\ 256 * q <= p
    BY ScaledIsTheShare
<1>3. p <= 255 * cal
    BY <1>1, TimesMonotone
<1>4. p <= 255 * v /\ p \in Nat
    <2>1. cal * v <= 255 * v
        BY <1>1, TimesMonotone
    <2>2. p = cal * v
        BY <1>1, SMT
    <2> QED
        BY <1>1, <2>1, <2>2, SMT
<1> HIDE DEF p, q
<1>5. /\ q <= cal /\ (cal > 0 => q < cal)
      /\ q <= v /\ (v > 0 => q < v)
    BY <1>1, <1>2, <1>3, <1>4, SMT DEF Byte
<1> QED
    BY <1>2, <1>5 DEF q

(* A higher reading, or a higher calibration, never sends less.            *)
THEOREM ScaledIsMonotone ==
    ASSUME NEW v \in Byte, NEW w \in Byte, v <= w,
           NEW cal \in Byte, NEW k \in Byte, cal <= k
    PROVE  Scaled(v, cal) <= Scaled(w, k)
<1> DEFINE p == v * cal
           r == w * k
           low == Scaled(v, cal)
           high == Scaled(w, k)
<1>0. v \in Nat /\ w \in Nat /\ cal \in Nat /\ k \in Nat
    BY SMT DEF Byte
<1>1. p <= r
    <2>1. v * cal <= w * cal
        BY <1>0, TimesMonotone
    <2>2. cal * w <= k * w
        BY <1>0, TimesMonotone
    <2>3. w * cal = cal * w /\ w * k = k * w
        BY <1>0, SMT
    <2> DEFINE m == cal * w
    <2>4. p \in Nat /\ r \in Nat /\ m \in Nat
        BY <1>0, SMT
    <2>5. p <= m /\ m <= r
        BY <2>1, <2>2, <2>3
    <2> HIDE DEF p, r, m
    <2> QED
        BY <2>4, <2>5, SMT
<1>2. /\ low \in Byte /\ 256 * low <= p
      /\ high \in Byte /\ r < 256 * high + 256
    BY ScaledIsTheShare
<1>3. p \in Nat /\ r \in Nat
    BY <1>0, SMT
<1> HIDE DEF p, r, low, high
<1>4. low <= high
    BY <1>1, <1>2, <1>3, SMT DEF Byte
<1> QED
    BY <1>4 DEF low, high

(* The calibration source shows the calibration, less the one step that    *)
(* rounding takes; calibration zero keeps any needle at zero.              *)
LEMMA FullScaleScaled ==
    ASSUME NEW cal \in Byte
    PROVE  Scaled(data_source_calibration, cal) = IF cal = 0 THEN 0 ELSE cal - 1
BY SMT DEF Scaled, data_source_calibration, AsByte, Byte

LEMMA FullScaleWithin ==
    ASSUME NEW cal \in Byte
    PROVE  /\ Scaled(data_source_calibration, cal) \in Byte
           /\ Scaled(data_source_calibration, cal) <= cal
<1>1. data_source_calibration \in Byte
    BY DEF data_source_calibration, Byte
<1> QED
    BY <1>1, ScaledWithin

---------------------------------------------------------------------------
(* The word of a SET_USAGE transfer                                        *)

(* The panel takes out of wValue what the program put in, for every        *)
(* channel number and every byte.                                          *)
THEOREM WordRoundTrip ==
    ASSUME NEW channel \in Nat, NEW value \in Byte
    PROVE  /\ UsageChannel(UsageWord(channel, value)) = channel
           /\ UsageValue(UsageWord(channel, value)) = value
BY SMT DEF UsageChannel, UsageValue, UsageWord, AsByte, Byte

(* The word of a channel a panel can have fits the 16 bits it travels in.  *)
LEMMA WordFits ==
    ASSUME NEW channel \in 0..127, NEW value \in Byte
    PROVE  UsageWord(channel, value) \in Nat /\ UsageWord(channel, value) < 32768
BY SMT DEF UsageWord, Byte

(* A delivered transfer moves the needle it is meant for, and no other.    *)
LEMMA SendUsageMovesOne ==
    ASSUME NEW Needles \in SUBSET Nat, NEW panel \in [Needles -> Byte],
           NEW c \in Needles, NEW v \in Byte, NEW delivered
    PROVE  /\ send_usage(panel, c, v, delivered) \in [Needles -> Byte]
           /\ send_usage(panel, c, v, delivered)
                 = IF delivered THEN [panel EXCEPT ![c] = v] ELSE panel
<1>1. c \in Nat /\ UsageChannel(UsageWord(c, v)) = c /\ UsageValue(UsageWord(c, v)) = v
    BY WordRoundTrip
<1>2. send_usage(panel, c, v, delivered)
         = IF delivered THEN [panel EXCEPT ![c] = v] ELSE panel
    BY <1>1 DEF send_usage
<1> QED
    BY <1>2

---------------------------------------------------------------------------
(* The reply to QUERY_CAP                                                  *)

(* A reply gives at most one count, which the tables can hold: seven bits. *)
(* It gives none exactly when it is a bitmap with the lowest bit set.      *)
THEOREM ReplyGivesOneCount ==
    ASSUME NEW reply \in Byte
    PROVE  /\ ChannelCounts(reply) \subseteq 0..127
           /\ \A m, n \in ChannelCounts(reply) : m = n
           /\ ChannelCounts(reply) = {} <=> reply < 128 /\ reply % 2 = 1
<1>1. RawValue(reply) \in 0..127
    BY SMT DEF RawValue, Byte
<1>2. ReportsRawValue(reply) <=> reply >= 128
    BY SMT DEF ReportsRawValue, Byte
<1>3. reply % 2 \in {0, 1}
    BY SMT DEF Byte
<1>4. reply < 128 <=> ~(reply >= 128)
    BY SMT DEF Byte
<1>5. 0 \in 0..127 /\ 0 # 1
    BY SMT
<1> QED
    BY <1>1, <1>2, <1>3, <1>4, <1>5, Zenon DEF ChannelCounts

=============================================================================
