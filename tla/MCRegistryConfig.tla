--------------------------- MODULE MCRegistryConfig ---------------------------
(***************************************************************************)
(* RegistryConfig with two keys, for TLC.  The machine's key begins with   *)
(* one content, and the processes that may open it load from it and leave  *)
(* it at that, as the driver's host does; those that may not use the       *)
(* user's key, whose first content is any, and change it as they like.     *)
(***************************************************************************)
EXTENDS RegistryConfig

Machine ==
    [channel |-> [c \in Channel |-> IF c = 0 THEN "Calibration" ELSE "GPU Utility"],
     calibration |-> [c \in Channel |-> IF c = 0 THEN Missing ELSE 300]]

(* Overlong are the names of even channels and the calibrations of odd.    *)
User(values) ==
    \A c \in Channel :
        Overlong # IF c % 2 = 0 THEN values.calibration[c] ELSE values.channel[c]

KeysInit == Init /\ registry["HKLM"] = Machine /\ User(registry["HKCU"])

KeysNext ==
    \/ \E n \in 0..MaxChannels : AllocateTables(n) \/ AllocationFails(n)
    \/ LoadStep
    \/ registry_key # "HKLM" /\ Change
    \/ ProcessEnds

KeysSpec == KeysInit /\ [][KeysNext]_vars /\ WF_vars(LoadStep)

=============================================================================
