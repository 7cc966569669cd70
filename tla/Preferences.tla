---------------------------- MODULE Preferences -----------------------------
(***************************************************************************)
(* What one person is told on which channel: lib/channelPolicy.ts, with    *)
(* the settings and the unsubscribe links of routes/notifications.ts.  The *)
(* settings write one row; the link that ends all optional mail writes one *)
(* row after the other, with no transaction, and may be followed twice.    *)
(***************************************************************************)
EXTENDS Naturals, FiniteSets

CONSTANTS
    Types,          \* the types that are looked at (bound)
    Followers       \* requests by unsubscribe links at the same time

NotificationTypes == {"SALE_MADE", "ORDER_SHIPPED", "ORDER_DELIVERED", "ORDER_UNFULFILLABLE",
    "REFUND_ISSUED", "REVIEW_RECEIVED", "IDENTITY_VERIFIED", "IDENTITY_REJECTED",
    "LISTING_REMOVED", "ACCOUNT_SUSPENDED", "REPORT_RESOLVED", "MESSAGE_RECEIVED",
    "PLACEMENT_DECIDED"}
Means == {"EMAIL", "PUSH", "SMS"}

ASSUME PreferencesAssumption == Types \subseteq NotificationTypes

VARIABLES
    choice,     \* choice[t][c]: enabled of the row, or "unset" without a row
    following,  \* following[l]: what a link's request has left to do
    ended,      \* history: switches a link has turned off, untouched since
    byLink      \* history: switches a link was the last to write

preferencesVars == <<choice, following, ended, byLink>>

ChannelDefault(t, c) ==
    IF c = "EMAIL" THEN
        IF t \in {"ORDER_DELIVERED", "REVIEW_RECEIVED", "REPORT_RESOLVED"} THEN "off" ELSE "on"
    ELSE IF c = "PUSH" THEN
        IF t = "ACCOUNT_SUSPENDED" THEN "off" ELSE "on"
    ELSE IF t \in {"ORDER_UNFULFILLABLE", "REFUND_ISSUED"} THEN "on"
    ELSE IF t = "SALE_MADE" THEN "opt-in" ELSE "off"

ALWAYS_EMAILED == {"REFUND_ISSUED", "ORDER_UNFULFILLABLE", "ACCOUNT_SUSPENDED"}

IsOffered(t, c) == ChannelDefault(t, c) # "off"

\* shouldSend: never where the type is not sent, then the choice, then the
\* default.  The mistake is to take opt-in for on.
OptInIsOn(t, c) ==
    /\ IsOffered(t, c)
    /\ choice[t][c] # "off"
ShouldSend(t, c) ==
    /\ IsOffered(t, c)
    /\ choice[t][c] = "on" \/ (choice[t][c] = "unset" /\ ChannelDefault(t, c) = "on")

\* preferencesFor: what the settings show.
Enabled(t, c) == IF choice[t][c] = "unset" THEN ChannelDefault(t, c) = "on"
                 ELSE choice[t][c] = "on"

NotFollowed == [task |-> "idle"]

-----------------------------------------------------------------------------
\* PUT /notifications/preferences
Choose(t, c, value) ==
    /\ IsOffered(t, c)
    /\ choice' = [choice EXCEPT ![t][c] = value]
    /\ following' = [l \in Followers |->
           IF following[l] = NotFollowed THEN NotFollowed
           ELSE [following[l] EXCEPT !.chosen = @ \cup {t}]]
    /\ ended' = ended \ {<<t, c>>}
    /\ byLink' = byLink \ {<<t, c>>}

\* A link for one type: it refuses what is always sent.
UnsubscribeType(t, c) ==
    /\ t \notin ALWAYS_EMAILED /\ IsOffered(t, c)
    /\ choice' = [choice EXCEPT ![t][c] = "off"]
    /\ ended' = ended \cup {<<t, c>>}
    /\ byLink' = byLink \cup {<<t, c>>}
    /\ UNCHANGED following

\* unsubscribeAllOptional.  The mistakes are to end what must be sent, and to
\* pass over what is off unless it was chosen.
OptionalOrNot(c) == {t \in Types : IsOffered(t, c)}
OptionalByDefault(c) == {t \in Types \ ALWAYS_EMAILED : ChannelDefault(t, c) = "on"}
Optional(c) == {t \in Types \ ALWAYS_EMAILED : IsOffered(t, c)}

Follow(l, c) ==
    /\ following[l] = NotFollowed
    /\ following' = [following EXCEPT ![l] =
           [task |-> "all", channel |-> c, left |-> Optional(c), chosen |-> {}]]
    /\ UNCHANGED <<choice, ended, byLink>>

TurnOff(l, t) ==
    /\ following[l].task = "all" /\ t \in following[l].left
    /\ choice' = [choice EXCEPT ![t][following[l].channel] = "off"]
    /\ following' = [following EXCEPT ![l].left = @ \ {t}]
    /\ byLink' = byLink \cup {<<t, following[l].channel>>}
    /\ UNCHANGED ended

Followed(l) ==
    LET c == following[l].channel
        all == {t \in Types \ ALWAYS_EMAILED : IsOffered(t, c)}
    IN  /\ following[l].task = "all" /\ following[l].left = {}
        /\ ended' = ended \cup ((all \ following[l].chosen) \X {c})
        /\ following' = [following EXCEPT ![l] = NotFollowed]
        /\ UNCHANGED <<choice, byLink>>

FollowingDies(l) ==
    /\ following[l] # NotFollowed
    /\ following' = [following EXCEPT ![l] = NotFollowed]
    /\ UNCHANGED <<choice, ended, byLink>>

-----------------------------------------------------------------------------
PreferencesInit ==
    /\ choice = [t \in Types |-> [c \in Means |-> "unset"]]
    /\ following = [l \in Followers |-> NotFollowed]
    /\ ended = {} /\ byLink = {}

PreferencesNext ==
    \/ \E t \in Types, c \in Means :
        (\E value \in {"on", "off"} : Choose(t, c, value)) \/ UnsubscribeType(t, c)
    \/ \E l \in Followers :
        \/ \E c \in Means : Follow(l, c)
        \/ \E t \in Types : TurnOff(l, t)
        \/ Followed(l) \/ FollowingDies(l)

PreferencesSpec == PreferencesInit /\ [][PreferencesNext]_preferencesVars

-----------------------------------------------------------------------------
\* Choices and links keep their shape.
PreferencesTypeOK ==
    /\ choice \in [Types -> [Means -> {"unset", "on", "off"}]]
    /\ {ended, byLink} \subseteq SUBSET (Types \X Means)

\* The settings page, which reads all rows and applies the defaults itself,
\* shows what a consumer decides with one row (channelPolicy.ts:191-218,
\* :150-182).
SettingsTellTheTruth ==
    \A t \in Types, c \in Means : IsOffered(t, c) => Enabled(t, c) = ShouldSend(t, c)

\* No link turns off what must reach a person: a refund, a line that is not
\* coming, a suspension (channelPolicy.ts:247-256).
LinksSpareWhatMatters == \A t \in ALWAYS_EMAILED \cap Types : ~\E c \in Means : <<t, c>> \in byLink

\* What a link has turned off stays off until the person chooses again, on a
\* channel that is off by default too.
OptedOutStaysOut == \A s \in ended : choice[s[1]][s[2]] = "off" /\ ~ShouldSend(s[1], s[2])

\* What holds of preferences.
PreferencesInv ==
    PreferencesTypeOK /\ SettingsTellTheTruth /\ LinksSpareWhatMatters /\ OptedOutStaysOut
=============================================================================
