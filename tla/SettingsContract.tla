--------------------------- MODULE SettingsContract ---------------------------
(***************************************************************************)
(* What datasource.h promises of the channel settings, whatever stores     *)
(* them: a program starts with the stored settings in force, a change that *)
(* is acknowledged is in force and stored, a change that is refused        *)
(* touches no other setting, and a program that ends takes nothing with    *)
(* it.  configurationreader.c and registryreader.c are two implementations *)
(* (KeepsContract of LinuxConfig and of RegistryConfig).                   *)
(*                                                                         *)
(* A stored value is here what a start would make of the store: defaults   *)
(* filled in, names turned into sources, numbers narrowed.  So a start     *)
(* that writes a default down changes nothing.                             *)
(*                                                                         *)
(* The theorems at the end are what the promise comes to; a component that *)
(* keeps the contract inherits them.                                       *)
(***************************************************************************)
EXTENDS TLAPS

CONSTANTS
    Stores,         \* where settings may be kept
    Settings,
    Sources,        \* the settings that are sources, which a dialog may pause
    Idle            \* no source

VARIABLES
    mode,           \* "off"; "whole" or "partial": what the last start loaded
    store,          \* the store the running program uses
    saved,          \* per store, the value of each setting
    known,          \* the values loaded or acknowledged since, and not refused
    inForce         \* the values the main loop works with

vars == <<mode, store, saved, known, inForce>>

(* No values; of a store, that no start can read it.                       *)
Nothing == [s \in {} |-> Idle]

(* The store has every known value, or nothing at all can be read from it. *)
Holds(contents, values) ==
    contents # Nothing => \A s \in DOMAIN values : contents[s] = values[s]

Init ==
    /\ mode = "off"
    /\ known = Nothing
    /\ inForce = Nothing

(* A start on its way.  It may fail, and when it is cut off as it writes a *)
(* default, the store may be lost; but nothing in it changes.              *)
Starting ==
    /\ mode = "off" /\ mode' = "off"
    /\ DOMAIN saved' = DOMAIN saved
    /\ \A k \in DOMAIN saved : saved'[k] \in {saved[k], Nothing}
    /\ UNCHANGED <<known, inForce>>

(* The program is up.  After a failed start it may go on all the same,     *)
(* with the settings it got as far as loading.                             *)
Start ==
    /\ mode = "off" /\ mode' \in {"whole", "partial"}
    /\ store' \in Stores \/ known' = Nothing
    /\ DOMAIN known' \subseteq Settings
    /\ \A s \in DOMAIN known' :
          saved[store'] # Nothing /\ known'[s] = saved[store'][s]
    /\ DOMAIN inForce' \subseteq Settings
    /\ \A s \in DOMAIN inForce' : s \in DOMAIN known' => inForce'[s] = known'[s]
    /\ mode' = "whole" => DOMAIN inForce' \subseteq DOMAIN known'
    /\ UNCHANGED saved

(* Two assignments of values agree except, perhaps, on setting s.          *)
SameBut(s, old, new) ==
    /\ DOMAIN new \ {s} = DOMAIN old \ {s}
    /\ \A t \in DOMAIN old \ {s} : new[t] = old[t]

OnlyStoreChanges ==
    /\ DOMAIN saved' = DOMAIN saved
    /\ \A k \in DOMAIN saved \ {store} : saved'[k] = saved[k]

(* A change is reported as made: the new value is in force and stored, and *)
(* so is every other known value, also when the store was lost before.     *)
Acknowledge(s) ==
    /\ mode # "off"
    /\ store \in Stores
    /\ s \in DOMAIN known' /\ known'[s] = inForce'[s]
    /\ SameBut(s, known, known')
    /\ SameBut(s, inForce, inForce') /\ s \in DOMAIN inForce'
    /\ saved'[store] # Nothing
    /\ Holds(saved'[store], known')
    /\ OnlyStoreChanges
    /\ UNCHANGED <<mode, store>>

(* A change is reported as failed: whether the new value is in force, and  *)
(* what a start will make of this setting, is open; of no other.           *)
Refuse(s) ==
    /\ mode # "off"
    /\ s \notin DOMAIN known'
    /\ SameBut(s, known, known')
    /\ SameBut(s, inForce, inForce') /\ s \in DOMAIN inForce'
    /\ store \in Stores => Holds(saved'[store], known')
    /\ OnlyStoreChanges
    /\ UNCHANGED <<mode, store>>

Pause(s) ==
    /\ mode # "off"
    /\ inForce' = [inForce EXCEPT ![s] = Idle]
    /\ UNCHANGED <<mode, store, saved, known>>

End ==
    /\ mode # "off" /\ mode' = "off"
    /\ known' = Nothing
    /\ inForce' = Nothing
    /\ UNCHANGED saved

Next ==
    \/ Starting
    \/ Start
    \/ \E s \in DOMAIN inForce : Acknowledge(s) \/ Refuse(s)
    \/ \E s \in DOMAIN inForce \cap Sources : Pause(s)
    \/ End

Spec == Init /\ [][Next]_vars

---------------------------------------------------------------------------
(* What the contract comes to                                              *)

(* Nothing the program relies on is only in its memory: every value it     *)
(* loaded, or was told is set, a start would find in the store it uses,    *)
(* unless that start can find nothing there at all.                        *)
KnownIsStored == store \in Stores => Holds(saved[store], known)

(* What a start would find is what the main loop works with; but for the   *)
(* source of a channel that a dialog holds paused.                         *)
KnownIsInForce ==
    \A s \in DOMAIN known \cap DOMAIN inForce :
        inForce[s] = known[s] \/ (s \in Sources /\ inForce[s] = Idle)

(* While the program runs, each step concerns one setting: every other     *)
(* known one stays known, with its value in force and, where the store can *)
(* be read before and after, in the store.                                 *)
OneSettingAtATime ==
    [][mode # "off" /\ mode' # "off" =>
          \E s \in DOMAIN inForce : \A t \in DOMAIN known \ {s} :
             /\ t \in DOMAIN known' /\ known'[t] = known[t]
             /\ t \in DOMAIN inForce => inForce'[t] = inForce[t]
             /\ (store \in Stores /\ saved[store] # Nothing /\ saved'[store] # Nothing)
                   => saved'[store][t] = saved[store][t]]_vars

(* A program that is not up knows nothing, nor does one without a store.   *)
ContractInv ==
    /\ mode = "off" => DOMAIN known = {} /\ DOMAIN inForce = {}
    /\ store \notin Stores => DOMAIN known = {}
    /\ KnownIsStored
    /\ KnownIsInForce

LEMMA NothingIsEmpty == DOMAIN Nothing = {}
BY DEF Nothing

LEMMA InitContractInv == Init => ContractInv
BY NothingIsEmpty DEF Init, ContractInv, KnownIsStored, KnownIsInForce, Holds

LEMMA NextContractInv == ContractInv /\ [Next]_vars => ContractInv'
<1> SUFFICES ASSUME ContractInv, [Next]_vars
             PROVE  ContractInv'
    OBVIOUS
<1>1. CASE Starting
    BY <1>1 DEF Starting, ContractInv, KnownIsStored, KnownIsInForce, Holds
<1>2. CASE Start
    <2>1. /\ store' \notin Stores => DOMAIN known' = {}
          /\ mode' # "off"
        BY <1>2, NothingIsEmpty DEF Start
    <2>2. KnownIsStored'
        BY <1>2 DEF Start, KnownIsStored, Holds
    <2>3. KnownIsInForce'
        BY <1>2 DEF Start, KnownIsInForce
    <2> QED
        BY <2>1, <2>2, <2>3 DEF ContractInv
<1>3. ASSUME NEW s \in DOMAIN inForce, Acknowledge(s)
      PROVE  ContractInv'
    <2>1. mode' # "off" /\ store' \in Stores /\ KnownIsStored'
        BY <1>3 DEF Acknowledge, KnownIsStored
    <2>2. KnownIsInForce'
        BY <1>3 DEF Acknowledge, SameBut, ContractInv, KnownIsInForce
    <2> QED
        BY <2>1, <2>2 DEF ContractInv
<1>4. ASSUME NEW s \in DOMAIN inForce, Refuse(s)
      PROVE  ContractInv'
    <2>1. mode' # "off" /\ KnownIsStored' /\ store' = store
        BY <1>4 DEF Refuse, KnownIsStored
    <2>2. DOMAIN known' = DOMAIN known \ {s}
        BY <1>4 DEF Refuse, SameBut
    <2>3. KnownIsInForce'
        BY <1>4, <2>2 DEF Refuse, SameBut, ContractInv, KnownIsInForce
    <2> QED
        BY <2>1, <2>2, <2>3 DEF ContractInv
<1>5. ASSUME NEW s \in DOMAIN inForce \cap Sources, Pause(s)
      PROVE  ContractInv'
    BY <1>5 DEF Pause, ContractInv, KnownIsStored, KnownIsInForce, Holds
<1>6. CASE End
    BY <1>6, NothingIsEmpty DEF End, ContractInv, KnownIsStored, KnownIsInForce, Holds
<1>7. CASE UNCHANGED vars
    BY <1>7 DEF vars, ContractInv, KnownIsStored, KnownIsInForce, Holds
<1> QED
    BY <1>1, <1>2, <1>3, <1>4, <1>5, <1>6, <1>7 DEF Next

LEMMA ContractInvariance == Spec => []ContractInv
<1> HIDE DEF ContractInv
<1> QED
    BY InitContractInv, NextContractInv, PTL DEF Spec

(* KnownIsStored, of every implementation of the contract.                 *)
THEOREM KnownSettingsAreStored == Spec => []KnownIsStored
<1>1. ContractInv => KnownIsStored
    BY DEF ContractInv
<1> QED
    BY <1>1, ContractInvariance, PTL

(* KnownIsInForce, of every implementation of the contract.                *)
THEOREM KnownSettingsAreInForce == Spec => []KnownIsInForce
<1>1. ContractInv => KnownIsInForce
    BY DEF ContractInv
<1> QED
    BY <1>1, ContractInvariance, PTL

(* OneSettingAtATime, of every implementation of the contract: what an     *)
(* acknowledgement or a refusal may do to the other settings.              *)
THEOREM ChangesAreSeparate == Spec => OneSettingAtATime
<1> DEFINE Others(s) ==
        \A t \in DOMAIN known \ {s} :
           /\ t \in DOMAIN known' /\ known'[t] = known[t]
           /\ t \in DOMAIN inForce => inForce'[t] = inForce[t]
           /\ (store \in Stores /\ saved[store] # Nothing /\ saved'[store] # Nothing)
                 => saved'[store][t] = saved[store][t]
<1>1. ASSUME ContractInv, ContractInv', Next, mode # "off", mode' # "off"
      PROVE  \E s \in DOMAIN inForce : Others(s)
    <2>1. PICK s \in DOMAIN inForce :
              Acknowledge(s) \/ Refuse(s) \/ (s \in Sources /\ Pause(s))
        BY <1>1 DEF Next, Starting, Start, End
    <2>2. store' = store
        BY <2>1 DEF Acknowledge, Refuse, Pause
    <2>3. ASSUME NEW t \in DOMAIN known \ {s}
          PROVE  /\ t \in DOMAIN known' /\ known'[t] = known[t]
                 /\ t \in DOMAIN inForce => inForce'[t] = inForce[t]
        BY <2>1, <2>3 DEF Acknowledge, Refuse, Pause, SameBut
    <2>4. ASSUME NEW t \in DOMAIN known \ {s}, store \in Stores,
                 saved[store] # Nothing, saved'[store] # Nothing
          PROVE  saved'[store][t] = saved[store][t]
        BY <1>1, <2>2, <2>3, <2>4 DEF ContractInv, KnownIsStored, Holds
    <2> QED
        BY <2>3, <2>4
<1>2. ContractInv /\ ContractInv' /\ [Next]_vars =>
         [mode # "off" /\ mode' # "off" => \E s \in DOMAIN inForce : Others(s)]_vars
    BY <1>1
<1> HIDE DEF ContractInv
<1> QED
    BY <1>2, ContractInvariance, PTL DEF Spec, OneSettingAtATime

=============================================================================
