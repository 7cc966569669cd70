----------------------------- MODULE MCDelivery -----------------------------
(***************************************************************************)
(* Small instances of how a person is told: the deliveries of one event on *)
(* one partition, the devices that are pushed to, the choice of channel    *)
(* and quiet hours.  What Delivery takes of the others is a free choice,   *)
(* so that their product would show nothing more: a behaviour is one of    *)
(* one component, and the others rest.                                     *)
(***************************************************************************)
EXTENDS Delivery, Devices, Preferences, QuietHours, TLC

VARIABLE part

TellingInit ==
    /\ Init /\ DevicesInit /\ PreferencesInit /\ QuietInit
    /\ part \in {"delivery", "devices", "preferences", "quiet hours"}
    /\ part # "quiet hours" => from = 0 /\ to = 0 /\ now = 0
    /\ part # "delivery" => channel = "SMS" /\ \A t, u \in Topics : owner[t] = owner[u]

\* Two failures or a second copy on the topic, but not both (bound).
Bounded == Len(mainTopic) + failures <= 3

InDelivery == part = "delivery" /\ Next /\ Bounded'
    /\ UNCHANGED <<devicesVars, preferencesVars, quietVars, part>>
InDevices == part = "devices" /\ DevicesNext
    /\ UNCHANGED <<vars, preferencesVars, quietVars, part>>
InPreferences == part = "preferences" /\ PreferencesNext
    /\ UNCHANGED <<vars, devicesVars, quietVars, part>>
InQuietHours == part = "quiet hours" /\ MinutePasses
    /\ UNCHANGED <<vars, devicesVars, preferencesVars, part>>

TellingSpec ==
    /\ TellingInit
    /\ [][InDelivery \/ InDevices \/ InPreferences \/ InQuietHours]_<<
           vars, devicesVars, preferencesVars, quietVars, part>>

Symmetry == Permutations(Workers) \cup Permutations(Sweepers)
=============================================================================
